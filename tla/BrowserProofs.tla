----------------------------- MODULE BrowserProofs -----------------------------
(* What holds of the capturing sharer page and its app audio for any number  *)
(* of shares and viewers, with proofs checked by TLAPS.                      *)
EXTENDS BrowserSharer, QueueProofs, FiniteSetTheorems

-----------------------------------------------------------------------------
(* The invariant, in parts. *)

(* What names a viewer, and what does not. *)
Heard == {m \in ToSharer : m.type \in {"viewer-joined", "viewer-left", "answer", "ice"}
                              => m.peer \in PeerId}
Asked == {m \in ToServer : m.type # "start" => m.peer \in PeerId}
Operation == [op : {"start", "stop"}, run : Run, called : BOOLEAN]

(* An entry of peer, its sequences by name; a handler that adds candidates   *)
(* has one to add.                                                           *)
Queues == Seq(Heard)
Numbered == Seq(Nat)
ViewerRecord ==
    [life : {"none", "creating", "local", "offered", "answered", "connected", "gone"},
     timer : BOOLEAN, iced : BOOLEAN, queue : Queues,
     step : {"idle", "answer", "early", "late"}, ice : Numbered, adding : Numbered,
     added : Numbered]
Viewer == {P \in ViewerRecord : P.step \in {"early", "late"} => P.adding # <<>>}

(* Where a run is says what it holds: R of run r, with a the active run and  *)
(* c the capturing one.  Only the active run holds anything.                 *)
Outlived(R) ==
    /\ R.stream \in {"none", "stopped"} /\ R.context \in {"none", "closed"}
    /\ R.socket \in {"none", "closed"} /\ ~R.timer /\ ~R.watchdog
Holding(R, captures) ==
    /\ R.phase # "idle" /\ R.context # "closed"
    /\ captures => R.context # "none" /\ R.phase \in {"constraints", "done"}
    /\ R.phase = "picker" => R.stream = "none"
    /\ R.phase = "worklet" => R.context # "none"
    /\ R.phase = "audio" => R.context = "running"
    /\ R.phase \in {"constraints", "done"} =>
          /\ R.context # "suspended"
          /\ R.context = "running" => captures
    /\ R.phase = "done" => R.stream = "live"
Fits(R, r, a, c) ==
    /\ r # a => Outlived(R)
    /\ r = a => Holding(R, c = r)
    /\ R.phase = "idle" => R.stream = "none" /\ R.context = "none"
    /\ R.phase # "done" => R.socket = "none"
Runs == \A r \in Run : Fits(run[r], r, active, capturing)

(* The chain q of audio operations, with rs the runs: a start is the last    *)
(* one as long as its run lasts and is followed by the stop of its run,      *)
(* which also follows the capture that was started.                          *)
Starting(rs, q, i, a) ==
    /\ rs[q[i].run].phase = "audio"
    /\ \A j \in 1..Len(q) : q[j].op = "start" /\ q[j].run = q[i].run => i = j
    /\ \/ i = Len(q) /\ q[i].run = a
       \/ i < Len(q) /\ q[i + 1].op = "stop" /\ q[i + 1].run = q[i].run
Linked(rs, q, a) ==
    \A i \in 1..Len(q) :
        /\ rs[q[i].run].phase # "idle"
        /\ q[i].op = "stop" => q[i].run # a
        /\ q[i].op = "start" => Starting(rs, q, i, a)
Followed(q, a, c) ==
    c # None => \/ q = <<>> /\ c = a
                \/ q # <<>> /\ q[1].op = "stop" /\ q[1].run = c
Chain == Linked(run, ops, active) /\ Followed(ops, active, capturing)

(* Without a share there is neither a session nor anything on its way.       *)
Off == active = None =>
    /\ far = NoShare /\ toSharer = <<>> /\ toServer = <<>> /\ ui.screen = "STOPPED"
    /\ \A p \in PeerId : ~Current(p) /\ ~peer[p].timer

(* The session begins with the page's first request. *)
Opened ==
    /\ active # None /\ run[active].socket \in {"none", "opening"}
          => ~far.open /\ toServer = <<>> /\ toSharer = <<>>
    /\ \A i \in 1..Len(toServer) : toServer[i].type = "start" => i = 1 /\ ~far.open
    /\ ~far.open => far.members = {} /\ toSharer = <<>>

(* The viewers that the server, whose members are ms, had when it sent the   *)
(* i-th of the messages q: those it has now and those whose leaving comes    *)
(* later, less those whose joining comes later.                              *)
Joins(q, p, i) == q[i].type = "viewer-joined" /\ q[i].peer = p
Leaves(q, p, i) == q[i].type = "viewer-left" /\ q[i].peer = p
Later(q, i) == {j \in 1..Len(q) : i < j}
At(q, ms, i) == {p \in PeerId : /\ p \in ms \/ \E j \in Later(q, i) : Leaves(q, p, j)
                                /\ \A j \in Later(q, i) : ~Joins(q, p, j)}

(* Every message counts the viewers as they were.                            *)
Counts(q, ms) ==
    \A i \in 1..Len(q) :
        /\ q[i].type \in {"viewer-joined", "viewer-left"} => q[i].n = Cardinality(At(q, ms, i))
        /\ q[i].type = "started" => q[i].n = 0 /\ At(q, ms, i) = {}
Shown(q, ms, u) == u.screen = "SHARING" => u.count = Cardinality(At(q, ms, 0))

(* Who joins is new to the page, ps, and who left is no longer a member.     *)
Moving(q, ms, ps) ==
    \A p \in PeerId : \A i \in 1..Len(q) :
        /\ Joins(q, p, i) => /\ ps[p].life = "none"
                             /\ \A j \in 1..Len(q) : Joins(q, p, j) => i = j
                             /\ p \in ms \/ \E j \in Later(q, i) : Leaves(q, p, j)
        /\ Leaves(q, p, i) => p \notin ms

(* The page's viewers are the server's, but for those it asked, in reqs, to  *)
(* go.                                                                       *)
Known(ps, p) == ps[p].life \notin {"none", "gone"}
Dismissed(reqs, p) == \E i \in 1..Len(reqs) : reqs[i] = Ask("disconnect-peer", p)
Viewed(q, ms, ps, reqs) ==
    \A p \in PeerId :
        /\ Known(ps, p) => p \in At(q, ms, 0)
        /\ p \in At(q, ms, 0) /\ ~Known(ps, p) /\ p \in ms => Dismissed(reqs, p)

SessionTyped ==
    /\ ui \in Page /\ peer \in [PeerId -> Viewer] /\ broke \subseteq PeerId
    /\ far \in Far /\ IsFiniteSet(far.members)
    /\ toSharer \in Seq(Heard) /\ toServer \in Seq(Asked)
SessionAgrees ==
    /\ Counts(toSharer, far.members) /\ Shown(toSharer, far.members, ui)
    /\ Moving(toSharer, far.members, peer) /\ Viewed(toSharer, far.members, peer, toServer)
SessionInv == SessionTyped /\ Off /\ Opened /\ SessionAgrees

-----------------------------------------------------------------------------
(* Sequences: what one more entry, or one less, leaves of them. *)

LEMMA Appending ==
    ASSUME NEW S, NEW q \in Seq(S), NEW m \in S
    PROVE  /\ Append(q, m) \in Seq(S)
           /\ Len(q) \in Nat /\ Len(Append(q, m)) = Len(q) + 1
           /\ \A i \in 1..Len(q) : Append(q, m)[i] = q[i] /\ i \in 1..(Len(q) + 1)
           /\ Append(q, m)[Len(q) + 1] = m
           /\ \A i \in 1..(Len(q) + 1) : i \in 1..Len(q) \/ i = Len(q) + 1
  OBVIOUS

LEMMA Reading ==
    ASSUME NEW S, NEW q \in Seq(S), q # <<>>
    PROVE  /\ Tail(q) \in Seq(S) /\ Head(q) \in S /\ Head(q) = q[1]
           /\ Len(q) \in Nat \ {0} /\ Len(Tail(q)) = Len(q) - 1 /\ 1 \in 1..Len(q)
           /\ \A i \in 1..(Len(q) - 1) : Tail(q)[i] = q[i + 1] /\ i + 1 \in 1..Len(q)
           /\ \A i \in 1..Len(q) : i = 1 \/ \E j \in 1..(Len(q) - 1) : i = j + 1
           /\ (Tail(q) = <<>>) <=> (Len(q) = 1)
<1>1. PICK n \in Nat \ {0} : n = Len(q)
  OBVIOUS
<1>2. /\ Tail(q) \in Seq(S) /\ Head(q) \in S /\ Head(q) = q[1] /\ Len(Tail(q)) = n - 1
      /\ \A i \in 1..(n - 1) : Tail(q)[i] = q[i + 1]
  BY <1>1
<1>3. \A i \in 1..n : i = 1 \/ \E j \in 1..(n - 1) : i = j + 1
  <2> SUFFICES ASSUME NEW i \in 1..n, i # 1
               PROVE  \E j \in 1..(n - 1) : i = j + 1
    OBVIOUS
  <2>1. i - 1 \in 1..(n - 1) /\ i = (i - 1) + 1
    OBVIOUS
  <2> QED  BY <2>1
<1>4. (\A i \in 1..(n - 1) : i + 1 \in 1..n) /\ 1 \in 1..n
  OBVIOUS
<1>5. (Tail(q) = <<>>) <=> (n = 1)
  <2> DEFINE t == Tail(q)
  <2>1. t \in Seq(S) /\ Len(t) = n - 1
    BY <1>2
  <2> HIDE DEF t
  <2>2. (t = <<>>) <=> (Len(t) = 0)
    BY <2>1
  <2>3. (t = <<>>) <=> (n = 1)
    BY <2>1, <2>2
  <2> QED  BY <2>3 DEF t
<1> QED  BY <1>1, <1>2, <1>3, <1>4, <1>5

-----------------------------------------------------------------------------
(* The runs and the audio chain. *)

ShareTyped == /\ active \in Run \cup {None} /\ capturing \in Run \cup {None}
              /\ run \in [Run -> RunObject] /\ ops \in Seq(Operation)
ShareInv == ShareTyped /\ Runs /\ Chain

LEMMA Operations ==
    ASSUME NEW q \in Seq(Operation), NEW i \in 1..Len(q)
    PROVE  q[i] \in Operation /\ q[i].run \in Run /\ q[i].op \in {"start", "stop"}
<1>1. q[i] \in Operation
  OBVIOUS
<1> QED  BY <1>1 DEF Operation

(* A step that the start handlers and the audio chain do not see.            *)
Untouched == UNCHANGED <<active, run, ops, capturing>>
LEMMA UntouchedKeeps ==
    ASSUME ShareInv, Untouched
    PROVE  ShareInv'
<1>1. active' = active /\ run' = run /\ ops' = ops /\ capturing' = capturing
  BY DEF Untouched
<1>2. ShareTyped' /\ Runs'
  BY <1>1 DEF ShareInv, ShareTyped, Runs
<1>3. Chain'
  BY <1>1 DEF ShareInv, Chain
<1> QED  BY <1>2, <1>3 DEF ShareInv

(* A step of one run that leaves the active run and the audio chain.         *)
Moves(r, R) ==
    /\ R \in RunObject /\ run' = [run EXCEPT ![r] = R]
    /\ UNCHANGED <<active, ops, capturing>>
    /\ Fits(R, r, active, capturing)
    /\ R.phase # "idle" /\ (run[r].phase = "audio" => R.phase = "audio")
Moved == \E r \in Run, R \in RunObject : Moves(r, R)
LEMMA MovedKeeps ==
    ASSUME ShareInv, Moved
    PROVE  ShareInv'
<1>1. PICK r \in Run, R \in RunObject : Moves(r, R)
  BY DEF Moved
<1>2. /\ active' = active /\ ops' = ops /\ capturing' = capturing
      /\ run' = [run EXCEPT ![r] = R] /\ Fits(R, r, active, capturing)
  BY <1>1 DEF Moves
<1>3. run' \in [Run -> RunObject] /\ run'[r] = R /\ \A q \in Run : q # r => run'[q] = run[q]
  BY <1>2 DEF ShareInv, ShareTyped
<1>4. Runs'
  <2> SUFFICES ASSUME NEW q \in Run PROVE Fits(run'[q], q, active, capturing)
    BY <1>2 DEF Runs
  <2> QED  BY <1>2, <1>3 DEF ShareInv, Runs
<1>5. \A q \in Run : (run[q].phase # "idle" => run'[q].phase # "idle")
                     /\ (run[q].phase = "audio" => run'[q].phase = "audio")
  BY <1>1, <1>3 DEF Moves
<1>6. \A i \in 1..Len(ops) : ops[i].run \in Run
  BY Operations DEF ShareInv, ShareTyped
<1>7. Linked(run', ops, active)
  BY <1>5, <1>6 DEF ShareInv, Chain, Linked, Starting
<1> QED  BY <1>2, <1>3, <1>4, <1>7 DEF ShareInv, ShareTyped, Chain

(* What stop leaves of a run. *)
LEMMA Closing ==
    ASSUME NEW R \in RunObject
    PROVE  /\ Closed(R) \in RunObject /\ Outlived(Closed(R)) /\ Closed(R).phase = R.phase
           /\ R.socket = "none" => Closed(R).socket = "none"
<1>1. PICK s \in {"none", "stopped"} : s = IF R.stream = "none" THEN R.stream ELSE "stopped"
  OBVIOUS
<1>2. PICK c \in {"none", "closed"} : c = IF R.context = "none" THEN R.context ELSE "closed"
  OBVIOUS
<1>3. PICK k \in {"none", "closed"} : k = IF R.socket = "none" THEN R.socket ELSE "closed"
  OBVIOUS
<1>4. Closed(R) = [R EXCEPT !.stream = s, !.context = c, !.socket = k, !.timer = FALSE,
                            !.watchdog = FALSE]
  BY <1>1, <1>2, <1>3 DEF Closed
<1> QED  BY <1>1, <1>2, <1>3, <1>4 DEF RunObject, Outlived

(* stop, called where the runs are rs and the audio chain is q.              *)
Stops(rs, q) ==
    /\ StopFrom(rs, q)
    /\ rs \in [Run -> RunObject] /\ q \in Seq(Operation)
    /\ \A r \in Run : r # active => rs[r] = run[r]
    /\ active # None => rs[active].phase # "idle"
                        /\ (rs[active].phase # "done" => rs[active].socket = "none")
                        /\ (rs[active].phase = "audio" => run[active].phase = "audio")
    /\ Linked(rs, q, active) /\ Followed(q, active, capturing)
LEMMA StopsKeeps ==
    ASSUME ShareInv, NEW rs, NEW q, Stops(rs, q)
    PROVE  ShareInv'
<1>0. /\ active \in Run \cup {None} /\ capturing \in Run \cup {None} /\ run \in [Run -> RunObject]
      /\ rs \in [Run -> RunObject] /\ q \in Seq(Operation)
      /\ Linked(rs, q, active) /\ Followed(q, active, capturing)
      /\ active \in Run => active # None
  BY SharerAssumption DEF ShareInv, ShareTyped, Stops
<1>1. /\ active' = None /\ capturing' = capturing
      /\ run' = [r \in Run |-> IF r = active THEN Closed(rs[r]) ELSE rs[r]]
      /\ ops' = IF StopsAudio THEN Append(q, AudioOp("stop", active)) ELSE q
  BY DEF Stops, StopFrom
<1>2. /\ run' \in [Run -> RunObject]
      /\ \A r \in Run : run'[r].phase = rs[r].phase
      /\ \A r \in Run : r # active => run'[r] = run[r]
      /\ active \in Run => run'[active] = Closed(rs[active])
  BY <1>0, <1>1, Closing DEF Stops
<1>3. Runs'
  <2> SUFFICES ASSUME NEW r \in Run PROVE Fits(run'[r], r, None, capturing)
    BY <1>1 DEF Runs
  <2>1. r # None
    BY SharerAssumption
  <2>2. CASE r = active
    <3>1. rs[r] \in RunObject /\ rs[r].phase # "idle" /\ (rs[r].phase # "done" => rs[r].socket = "none")
      BY <1>0, <2>1, <2>2 DEF Stops
    <3> QED  BY <1>2, <2>1, <2>2, <3>1, Closing DEF Fits
  <2>3. CASE r # active
    <3>1. Fits(run[r], r, active, capturing)
      BY DEF ShareInv, Runs
    <3> QED  BY <1>2, <2>1, <2>3, <3>1 DEF Fits
  <2> QED  BY <2>2, <2>3
<1>4. \A i \in 1..Len(q) : q[i].run \in Run /\ q[i].op \in {"start", "stop"}
  BY <1>0, Operations
<1>5. CASE StopsAudio
  <2> DEFINE m == AudioOp("stop", active)
  <2>1. active \in Run /\ m \in Operation /\ m.op = "stop" /\ m.run = active
    BY <1>0, <1>5 DEF StopsAudio, AudioOp, Operation
  <2> HIDE DEF m
  <2>2. /\ ops' = Append(q, m) /\ ops' \in Seq(Operation) /\ Len(q) \in Nat
        /\ Len(ops') = Len(q) + 1 /\ ops'[Len(q) + 1] = m
        /\ \A i \in 1..Len(q) : ops'[i] = q[i] /\ i \in 1..(Len(q) + 1)
        /\ \A i \in 1..(Len(q) + 1) : i \in 1..Len(q) \/ i = Len(q) + 1
    BY <1>0, <1>1, <1>5, <2>1, Appending DEF m
  <2>3. Linked(run', ops', None)
    <3> SUFFICES ASSUME NEW i \in 1..Len(ops')
                 PROVE  /\ run'[ops'[i].run].phase # "idle"
                        /\ ops'[i].op = "stop" => ops'[i].run # None
                        /\ ops'[i].op = "start" => Starting(run', ops', i, None)
      BY DEF Linked
    <3>1. CASE i = Len(q) + 1
      <4>1. rs[active].phase # "idle"
        BY <1>0, <2>1 DEF Stops
      <4> QED  BY <1>0, <1>2, <2>1, <2>2, <3>1, <4>1
    <3>2. CASE i \in 1..Len(q)
      <4>1. /\ ops'[i] = q[i] /\ q[i].run \in Run /\ rs[q[i].run].phase # "idle"
            /\ q[i].op = "start" => Starting(rs, q, i, active)
        BY <1>0, <1>4, <2>2, <3>2 DEF Linked
      <4>2. ASSUME q[i].op = "start" PROVE Starting(run', ops', i, None)
        <5>1. /\ rs[q[i].run].phase = "audio"
              /\ \A j \in 1..Len(q) : q[j].op = "start" /\ q[j].run = q[i].run => i = j
              /\ \/ i = Len(q) /\ q[i].run = active
                 \/ i < Len(q) /\ q[i + 1].op = "stop" /\ q[i + 1].run = q[i].run
          BY <4>1, <4>2 DEF Starting
        <5>2. run'[ops'[i].run].phase = "audio"
          BY <1>2, <4>1, <5>1
        <5>3. \A j \in 1..Len(ops') : ops'[j].op = "start" /\ ops'[j].run = ops'[i].run => i = j
          BY <2>1, <2>2, <4>1, <5>1
        <5>4. i < Len(ops') /\ ops'[i + 1].op = "stop" /\ ops'[i + 1].run = ops'[i].run
          <6>1. CASE i = Len(q) /\ q[i].run = active
            BY <2>1, <2>2, <4>1, <6>1
          <6>2. CASE i < Len(q) /\ q[i + 1].op = "stop" /\ q[i + 1].run = q[i].run
            <7>1. i + 1 \in 1..Len(q)
              BY <2>2, <3>2, <6>2
            <7> QED  BY <2>2, <4>1, <6>2, <7>1
          <6> QED  BY <5>1, <6>1, <6>2
        <5> QED  BY <5>2, <5>3, <5>4 DEF Starting
      <4>3. q[i].run # None
        BY <4>1, SharerAssumption
      <4> QED  BY <1>2, <4>1, <4>2, <4>3
    <3> QED  BY <2>2, <3>1, <3>2
  <2>4. Followed(ops', None, capturing)
    <3> SUFFICES ASSUME capturing # None
                 PROVE  ops' # <<>> /\ ops'[1].op = "stop" /\ ops'[1].run = capturing
      BY DEF Followed
    <3>1. ops' # <<>>
      BY <2>2
    <3>2. CASE q = <<>> /\ capturing = active
      <4>1. Len(q) = 0
        BY <3>2
      <4> QED  BY <2>1, <2>2, <3>1, <3>2, <4>1
    <3>3. CASE q # <<>> /\ q[1].op = "stop" /\ q[1].run = capturing
      <4>1. 1 \in 1..Len(q)
        BY <1>0, <3>3
      <4> QED  BY <2>2, <3>1, <3>3, <4>1
    <3> QED  BY <1>0, <3>2, <3>3 DEF Followed
  <2> QED  BY <1>0, <1>1, <1>2, <1>3, <2>2, <2>3, <2>4 DEF ShareInv, ShareTyped, Chain
<1>6. CASE ~StopsAudio
  <2>1. active = None \/ run[active].context = "none"
    BY <1>6 DEF StopsAudio
  <2>2. ASSUME NEW i \in 1..Len(q), q[i].op = "start" PROVE q[i].run # active
    <3>1. rs[q[i].run].phase = "audio" /\ q[i].run # None
      BY <1>0, <1>4, <2>2, SharerAssumption DEF Linked, Starting
    <3>2. ASSUME q[i].run = active PROVE FALSE
      <4>1. run[active].phase = "audio" /\ active \in Run
        BY <1>0, <3>1, <3>2 DEF Stops
      <4>2. Holding(run[active], capturing = active)
        BY <4>1 DEF ShareInv, Runs, Fits
      <4> QED  BY <2>1, <3>1, <3>2, <4>1, <4>2 DEF Holding
    <3> QED  BY <3>2
  <2>3. capturing # None => capturing # active
    <3>1. SUFFICES ASSUME active \in Run, capturing = active PROVE FALSE
      BY <1>0
    <3>2. Holding(run[active], capturing = active)
      BY <3>1 DEF ShareInv, Runs, Fits
    <3> QED  BY <1>0, <2>1, <3>1, <3>2 DEF Holding
  <2>4. ops' = q
    BY <1>1, <1>6
  <2>5. Linked(run', ops', None)
    <3> SUFFICES ASSUME NEW i \in 1..Len(q)
                 PROVE  /\ run'[q[i].run].phase # "idle"
                        /\ q[i].op = "stop" => q[i].run # None
                        /\ q[i].op = "start" => Starting(run', q, i, None)
      BY <2>4 DEF Linked
    <3>1. /\ q[i].run \in Run /\ rs[q[i].run].phase # "idle"
          /\ q[i].op = "start" => Starting(rs, q, i, active)
      BY <1>0, <1>4 DEF Linked
    <3>2. q[i].run # None
      BY <3>1, SharerAssumption
    <3> QED  BY <1>2, <2>2, <3>1, <3>2 DEF Starting
  <2>6. Followed(ops', None, capturing)
    BY <1>0, <2>3, <2>4 DEF Followed
  <2> QED  BY <1>0, <1>1, <1>2, <1>3, <2>4, <2>5, <2>6 DEF ShareInv, ShareTyped, Chain
<1> QED  BY <1>5, <1>6

LEMMA StopKeeps ==
    ASSUME ShareInv, Stop
    PROVE  ShareInv'
<1>1. active # None => Holding(run[active], capturing = active)
                       /\ (run[active].phase # "done" => run[active].socket = "none")
  BY DEF ShareInv, ShareTyped, Runs, Fits
<1>2. Stops(run, ops)
  BY <1>1 DEF Stop, Stops, ShareInv, ShareTyped, Chain, Holding
<1> QED  BY <1>2, StopsKeeps

LEMMA StopIfActiveKeeps ==
    ASSUME ShareInv, NEW r, StopIfActive(r)
    PROVE  ShareInv'
<1>1. UNCHANGED vars => Untouched
  BY DEF vars, audio, Untouched
<1> QED  BY <1>1, StopKeeps, UntouchedKeeps DEF StopIfActive

(* The start handler gives up: its run is active and no start of app audio   *)
(* is under way.                                                             *)
LEMMA HandlerStopsKeeps ==
    ASSUME ShareInv, active \in Run, run[active].phase # "audio", NEW R \in RunObject,
           R.phase = "done", NEW rs, rs = [run EXCEPT ![active] = R], StopFrom(rs, ops)
    PROVE  ShareInv'
<1>1. /\ rs \in [Run -> RunObject] /\ rs[active] = R
      /\ \A q \in Run : q # active => rs[q] = run[q]
  BY DEF ShareInv, ShareTyped
<1>2. \A i \in 1..Len(ops) : ops[i].run \in Run
  BY Operations DEF ShareInv, ShareTyped
<1>3. Linked(rs, ops, active)
  <2> SUFFICES ASSUME NEW i \in 1..Len(ops)
               PROVE  /\ rs[ops[i].run].phase # "idle"
                      /\ ops[i].op = "stop" => ops[i].run # active
                      /\ ops[i].op = "start" => Starting(rs, ops, i, active)
    BY DEF Linked
  <2>1. /\ run[ops[i].run].phase # "idle"
        /\ ops[i].op = "stop" => ops[i].run # active
        /\ ops[i].op = "start" => Starting(run, ops, i, active)
    BY DEF ShareInv, Chain, Linked
  <2>2. rs[ops[i].run].phase # "idle"
    BY <1>1, <1>2, <2>1
  <2>3. ops[i].op = "start" => ops[i].run # active
    BY <2>1 DEF Starting
  <2>4. ops[i].op = "start" => rs[ops[i].run] = run[ops[i].run]
    BY <1>1, <1>2, <2>3
  <2> QED  BY <2>1, <2>2, <2>4 DEF Starting
<1>4. Stops(rs, ops)
  BY <1>1, <1>3 DEF Stops, ShareInv, ShareTyped, Chain
<1> QED  BY <1>4, StopsKeeps

(* A run object whose handler went on. *)
LEMMA Going ==
    ASSUME ShareTyped, NEW r \in Run,
           NEW w \in {"idle", "picker", "worklet", "audio", "constraints", "done"}
    PROVE  LET R == [run[r] EXCEPT !.phase = w] IN
           /\ Goto(r, w) = [run EXCEPT ![r] = R]
           /\ R \in RunObject /\ run[r] \in RunObject
           /\ R.phase = w /\ R.stream = run[r].stream /\ R.context = run[r].context
           /\ R.socket = run[r].socket /\ R.timer = run[r].timer /\ R.watchdog = run[r].watchdog
<1>1. run[r] \in RunObject
  BY DEF ShareTyped
<1>2. Goto(r, w) = [run EXCEPT ![r] = [run[r] EXCEPT !.phase = w]]
  BY DEF Goto
<1> QED  BY <1>1, <1>2 DEF RunObject

LEMMA StartClickedKeeps ==
    ASSUME ShareInv, NEW r \in Run, StartClicked(r)
    PROVE  ShareInv'
<1>0. /\ run[r].phase = "idle" /\ active = None /\ active' = r
      /\ ops' = ops /\ capturing' = capturing /\ r # None
      /\ run \in [Run -> RunObject] /\ run[r] \in RunObject
  BY SharerAssumption DEF StartClicked, Returns, audio, ShareInv, ShareTyped
<1>1. PICK c \in {"none", "running"} : run' = [Goto(r, "picker") EXCEPT ![r].context = c]
  BY DEF StartClicked
<1> DEFINE R == [run[r] EXCEPT !.phase = "picker", !.context = c]
<1>2. run' = [run EXCEPT ![r] = R]
  BY <1>0, <1>1 DEF Goto
<1>3. /\ R \in RunObject /\ R.phase = "picker" /\ R.context = c /\ R.stream = run[r].stream
      /\ R.socket = run[r].socket
  BY <1>0 DEF RunObject
<1> HIDE DEF R
<1>4. run' \in [Run -> RunObject] /\ run'[r] = R /\ \A q \in Run : q # r => run'[q] = run[q]
  BY <1>0, <1>2, <1>3
<1>5. \A i \in 1..Len(ops) : ops[i].run \in Run /\ ops[i].run # r
  BY <1>0, Operations DEF ShareInv, ShareTyped, Chain, Linked
<1>6. capturing # r
  <2> SUFFICES ASSUME capturing = r PROVE FALSE
    OBVIOUS
  <2>1. ops # <<>> /\ ops[1].run = r
    BY <1>0 DEF ShareInv, Chain, Followed
  <2>2. 1 \in 1..Len(ops)
    BY <2>1 DEF ShareInv, ShareTyped
  <2> QED  BY <1>5, <2>1, <2>2
<1>7. Runs'
  <2> SUFFICES ASSUME NEW q \in Run PROVE Fits(run'[q], q, r, capturing)
    BY <1>0 DEF Runs
  <2>1. Fits(run[q], q, None, capturing) /\ q # None
    BY <1>0, SharerAssumption DEF ShareInv, Runs
  <2>2. CASE q = r
    BY <1>0, <1>3, <1>4, <1>6, <2>1, <2>2 DEF Fits, Holding
  <2>3. CASE q # r
    BY <1>4, <2>1, <2>3 DEF Fits
  <2> QED  BY <2>2, <2>3
<1>8. Linked(run', ops, r)
  <2> SUFFICES ASSUME NEW i \in 1..Len(ops)
               PROVE  /\ run'[ops[i].run].phase # "idle"
                      /\ ops[i].op = "stop" => ops[i].run # r
                      /\ ops[i].op = "start" => Starting(run', ops, i, r)
    BY DEF Linked
  <2>1. /\ run[ops[i].run].phase # "idle"
        /\ ops[i].op = "start" => Starting(run, ops, i, None)
    BY <1>0 DEF ShareInv, Chain, Linked
  <2>2. run'[ops[i].run] = run[ops[i].run] /\ ops[i].run # None
    BY <1>4, <1>5, SharerAssumption
  <2> QED  BY <1>5, <2>1, <2>2 DEF Starting
<1>9. Followed(ops, r, capturing)
  BY <1>0 DEF ShareInv, Chain, Followed
<1> QED  BY <1>0, <1>4, <1>7, <1>8, <1>9 DEF ShareInv, ShareTyped, Chain

LEMMA HandlerKeeps ==
    ASSUME ShareInv, NEW r \in Run,
           PickerReturns(r) \/ ConstraintsApplied(r) \/ StartFails(r)
    PROVE  ShareInv'
<1>0. /\ ShareTyped /\ run \in [Run -> RunObject] /\ run[r] \in RunObject
      /\ Fits(run[r], r, active, capturing)
  BY DEF ShareInv, ShareTyped, Runs
<1>1. CASE PickerReturns(r)
  <2>0. run[r].phase = "picker"
    BY <1>1 DEF PickerReturns, Returns
  <2>1. CASE TooLate(r) /\ run' = [Goto(r, "done") EXCEPT ![r].stream = "stopped"]
             /\ UNCHANGED <<active, audio>>
    <3> DEFINE R == [run[r] EXCEPT !.phase = "done", !.stream = "stopped"]
    <3>1. run' = [run EXCEPT ![r] = R]
      BY <1>0, <2>1 DEF Goto
    <3>2. R \in RunObject /\ R.phase = "done" /\ R.stream = "stopped" /\ R.context = run[r].context
          /\ R.socket = run[r].socket /\ R.timer = run[r].timer /\ R.watchdog = run[r].watchdog
      BY <1>0 DEF RunObject
    <3> HIDE DEF R
    <3>3. Fits(R, r, active, capturing)
      BY <1>0, <2>1, <3>2 DEF TooLate, Fits, Outlived
    <3>4. Moves(r, R)
      BY <2>0, <2>1, <3>1, <3>2, <3>3 DEF Moves, audio
    <3> QED  BY <3>2, <3>4, MovedKeeps DEF Moved
  <2>2. CASE ~TooLate(r) /\ StopFrom([Goto(r, "done") EXCEPT ![r].stream = "live"], ops)
    <3> DEFINE R == [run[r] EXCEPT !.phase = "done", !.stream = "live"]
    <3>1. [Goto(r, "done") EXCEPT ![r].stream = "live"] = [run EXCEPT ![r] = R]
      BY <1>0 DEF Goto
    <3>2. R \in RunObject /\ R.phase = "done"
      BY <1>0 DEF RunObject
    <3> HIDE DEF R
    <3> QED  BY <2>0, <2>2, <3>1, <3>2, HandlerStopsKeeps DEF TooLate
  <2>3. CASE /\ ~TooLate(r) /\ UNCHANGED <<active, audio>>
             /\ run' = [Goto(r, IF run[r].context = "none" THEN "constraints" ELSE "worklet")
                          EXCEPT ![r].stream = "live"]
    <3>1. PICK w \in {"constraints", "worklet"} :
                w = IF run[r].context = "none" THEN "constraints" ELSE "worklet"
      OBVIOUS
    <3> DEFINE R == [run[r] EXCEPT !.phase = w, !.stream = "live"]
    <3>2. run' = [run EXCEPT ![r] = R]
      BY <1>0, <2>3, <3>1 DEF Goto
    <3>3. R \in RunObject /\ R.phase = w /\ R.context = run[r].context
          /\ R.socket = run[r].socket
      BY <1>0 DEF RunObject
    <3> HIDE DEF R
    <3>4. Fits(R, r, active, capturing)
      BY <1>0, <2>0, <2>3, <3>1, <3>3 DEF TooLate, Fits, Holding
    <3>5. Moves(r, R)
      BY <2>0, <2>3, <3>1, <3>2, <3>3, <3>4 DEF Moves, audio
    <3> QED  BY <3>3, <3>5, MovedKeeps DEF Moved
  <2> QED  BY <1>1, <2>1, <2>2, <2>3 DEF PickerReturns
<1>2. ASSUME run[r].phase \notin {"idle", "audio"}, r # active, run' = Goto(r, "done"),
             UNCHANGED <<active, audio>>
      PROVE  ShareInv'
  <2> DEFINE R == [run[r] EXCEPT !.phase = "done"]
  <2>1. run' = [run EXCEPT ![r] = R] /\ R \in RunObject
        /\ R.phase = "done" /\ R.stream = run[r].stream /\ R.context = run[r].context
        /\ R.socket = run[r].socket /\ R.timer = run[r].timer /\ R.watchdog = run[r].watchdog
    BY <1>0, <1>2, Going
  <2> HIDE DEF R
  <2>2. Fits(R, r, active, capturing)
    BY <1>0, <1>2, <2>1 DEF Fits, Outlived
  <2>3. Moves(r, R)
    BY <1>2, <2>1, <2>2 DEF Moves, audio
  <2> QED  BY <2>1, <2>3, MovedKeeps DEF Moved
<1>3. ASSUME run[r].phase # "audio", r = active, StopFrom(Goto(r, "done"), ops)
      PROVE  ShareInv'
  <2> DEFINE R == [run[r] EXCEPT !.phase = "done"]
  <2>1. Goto(r, "done") = [run EXCEPT ![r] = R] /\ R \in RunObject /\ R.phase = "done"
    BY <1>0, Going
  <2> HIDE DEF R
  <2> QED  BY <1>3, <2>1, HandlerStopsKeeps
<1>4. CASE ConstraintsApplied(r)
  <2>0. run[r].phase = "constraints"
    BY <1>4 DEF ConstraintsApplied, Returns
  <2>1. CASE TooLate(r)
    BY <1>2, <1>4, <2>0, <2>1 DEF ConstraintsApplied, TooLate
  <2>2. CASE ~TooLate(r) /\ ~Live(r)
    BY <1>3, <1>4, <2>0, <2>2 DEF ConstraintsApplied, TooLate
  <2>3. CASE ~TooLate(r) /\ Live(r)
    <3>1. run' = [Goto(r, "done") EXCEPT ![r].socket = "opening", ![r].timer = TRUE]
          /\ UNCHANGED <<active, audio>>
      BY <1>4, <2>3 DEF ConstraintsApplied
    <3> DEFINE R == [run[r] EXCEPT !.phase = "done", !.socket = "opening", !.timer = TRUE]
    <3>2. run' = [run EXCEPT ![r] = R]
      BY <1>0, <3>1 DEF Goto
    <3>3. R \in RunObject /\ R.phase = "done" /\ R.context = run[r].context
          /\ R.stream = run[r].stream
      BY <1>0 DEF RunObject
    <3> HIDE DEF R
    <3>4. Fits(R, r, active, capturing)
      BY <1>0, <2>0, <2>3, <3>3 DEF TooLate, Live, Fits, Holding
    <3>5. Moves(r, R)
      BY <2>0, <3>1, <3>2, <3>3, <3>4 DEF Moves, audio
    <3> QED  BY <3>3, <3>5, MovedKeeps DEF Moved
  <2> QED  BY <2>1, <2>2, <2>3
<1>5. CASE StartFails(r)
  BY <1>2, <1>3, <1>5 DEF StartFails
<1> QED  BY <1>1, <1>4, <1>5

(* The capture or the audio context of a run ends by itself. *)
LEMMA EndsKeeps ==
    ASSUME ShareInv, NEW r \in Run, TrackEnds(r) \/ ContextSuspends(r)
    PROVE  ShareInv'
<1>0. run[r] \in RunObject /\ Fits(run[r], r, active, capturing)
  BY DEF ShareInv, ShareTyped, Runs
<1>1. CASE StopIfActive(r)
  BY <1>1, StopIfActiveKeeps
<1>2. CASE /\ run[r].stream = "live" /\ run[r].phase \notin {"constraints", "done"}
           /\ run' = [run EXCEPT ![r].stream = "ended"] /\ UNCHANGED <<active, audio>>
  <2> DEFINE R == [run[r] EXCEPT !.stream = "ended"]
  <2>1. run' = [run EXCEPT ![r] = R]
    BY <1>2
  <2>2. R \in RunObject /\ R.phase = run[r].phase /\ R.context = run[r].context
        /\ R.socket = run[r].socket
    BY <1>0 DEF RunObject
  <2> HIDE DEF R
  <2>3. r = active /\ run[r].phase # "idle"
    BY <1>0, <1>2 DEF Fits, Outlived
  <2>4. Fits(R, r, active, capturing)
    BY <1>0, <1>2, <2>2, <2>3 DEF Fits, Holding
  <2> QED  BY <1>2, <2>1, <2>2, <2>3, <2>4, MovedKeeps DEF Moved, Moves, audio
<1>3. CASE /\ run[r].context = "running" /\ run[r].phase \notin {"audio", "constraints", "done"}
           /\ run' = [run EXCEPT ![r].context = "suspended"] /\ UNCHANGED <<active, audio>>
  <2> DEFINE R == [run[r] EXCEPT !.context = "suspended"]
  <2>1. run' = [run EXCEPT ![r] = R]
    BY <1>3
  <2>2. R \in RunObject /\ R.phase = run[r].phase /\ R.context = "suspended"
        /\ R.stream = run[r].stream /\ R.socket = run[r].socket
    BY <1>0 DEF RunObject
  <2> HIDE DEF R
  <2>3. r = active /\ run[r].phase # "idle"
    BY <1>0, <1>3 DEF Fits, Outlived
  <2>4. Fits(R, r, active, capturing)
    BY <1>0, <1>3, <2>2, <2>3 DEF Fits, Holding
  <2> QED  BY <1>3, <2>1, <2>2, <2>3, <2>4, MovedKeeps DEF Moved, Moves, audio
<1> QED  BY <1>1, <1>2, <1>3 DEF TrackEnds, ContextSuspends

(* The socket and the timers of the active run. *)
LEMMA TimersKeep ==
    ASSUME ShareInv, NEW r \in Run, r = active, run[r].phase = "done", NEW R \in RunObject,
           /\ R.phase = run[r].phase /\ R.stream = run[r].stream
           /\ R.context = run[r].context,
           run' = [run EXCEPT ![r] = R], UNCHANGED <<active, audio>>
    PROVE  ShareInv'
<1>1. Fits(run[r], r, active, capturing)
  BY DEF ShareInv, Runs
<1>2. Fits(R, r, active, capturing)
  BY <1>1 DEF Fits, Holding
<1> QED  BY <1>2, MovedKeeps DEF Moved, Moves, audio

LEMMA OpensKeeps ==
    ASSUME ShareInv, NEW r \in Run, Opens(r)
    PROVE  ShareInv'
<1>0. /\ run[r] \in RunObject /\ Fits(run[r], r, active, capturing)
      /\ run[r].socket = "opening" /\ UNCHANGED <<active, audio>>
  BY DEF ShareInv, ShareTyped, Runs, Opens
<1> DEFINE R == [run[r] EXCEPT !.socket = "open", !.watchdog = TRUE]
<1>1. run' = [run EXCEPT ![r] = R]
  BY DEF Opens
<1>2. R \in RunObject /\ R.phase = run[r].phase /\ R.stream = run[r].stream
      /\ R.context = run[r].context
  BY <1>0 DEF RunObject
<1> HIDE DEF R
<1>3. r = active /\ run[r].phase = "done"
  BY <1>0 DEF Fits, Outlived
<1> QED  BY <1>0, <1>1, <1>2, <1>3, TimersKeep

Receives == ReceiveStarted \/ ReceiveHeartbeat \/ ReceivePeerError \/ ReceiveLeft
            \/ ReceiveJoined \/ ReceiveNegotiation
LEMMA ReceivesKeep ==
    ASSUME ShareInv, Receives
    PROVE  ShareInv'
<1>0. /\ active # None /\ run[active].socket = "open" /\ UNCHANGED <<active, audio>>
      /\ Watch(run) \/ Watch([run EXCEPT ![active].timer = FALSE])
  BY DEF Receives, ReceiveStarted, ReceiveHeartbeat, ReceivePeerError, ReceiveLeft, ReceiveJoined,
         ReceiveNegotiation, Receive, Arrives
<1>1. active \in Run /\ run[active] \in RunObject /\ run \in [Run -> RunObject]
      /\ Fits(run[active], active, active, capturing)
  BY <1>0 DEF ShareInv, ShareTyped, Runs
<1>2. run[active].phase = "done"
  BY <1>0, <1>1 DEF Fits
<1>3. CASE Watch(run)
  <2> DEFINE R == [run[active] EXCEPT !.watchdog = TRUE]
  <2>1. run' = [run EXCEPT ![active] = R]
    BY <1>3 DEF Watch
  <2>2. R \in RunObject /\ R.phase = run[active].phase /\ R.stream = run[active].stream
        /\ R.context = run[active].context
    BY <1>1 DEF RunObject
  <2> HIDE DEF R
  <2> QED  BY <1>0, <1>1, <1>2, <2>1, <2>2, TimersKeep
<1>4. CASE Watch([run EXCEPT ![active].timer = FALSE])
  <2> DEFINE R == [run[active] EXCEPT !.timer = FALSE, !.watchdog = TRUE]
  <2>1. run' = [run EXCEPT ![active] = R]
    BY <1>1, <1>4 DEF Watch
  <2>2. R \in RunObject /\ R.phase = run[active].phase /\ R.stream = run[active].stream
        /\ R.context = run[active].context
    BY <1>1 DEF RunObject
  <2> HIDE DEF R
  <2> QED  BY <1>0, <1>1, <1>2, <2>1, <2>2, TimersKeep
<1> QED  BY <1>0, <1>3, <1>4

LEMMA WorkletKeeps ==
    ASSUME ShareInv, NEW r \in Run, WorkletReady(r)
    PROVE  ShareInv'
<1>0. /\ ShareTyped /\ run \in [Run -> RunObject] /\ run[r] \in RunObject
      /\ Fits(run[r], r, active, capturing) /\ run[r].phase = "worklet" /\ ops \in Seq(Operation)
  BY DEF ShareInv, ShareTyped, Runs, WorkletReady, Returns
<1>1. CASE TooLate(r) /\ run' = Goto(r, "done") /\ UNCHANGED <<active, audio>>
  <2> DEFINE R == [run[r] EXCEPT !.phase = "done"]
  <2>1. run' = [run EXCEPT ![r] = R] /\ R \in RunObject
        /\ R.phase = "done" /\ R.stream = run[r].stream /\ R.context = run[r].context
        /\ R.socket = run[r].socket /\ R.timer = run[r].timer /\ R.watchdog = run[r].watchdog
    BY <1>0, <1>1, Going
  <2> HIDE DEF R
  <2>2. Fits(R, r, active, capturing)
    BY <1>0, <1>1, <2>1 DEF TooLate, Fits, Outlived
  <2> QED  BY <1>0, <1>1, <2>1, <2>2, MovedKeeps DEF Moved, Moves, audio
<1>2. CASE ~TooLate(r) /\ StopFrom(Goto(r, "done"), ops)
  <2> DEFINE R == [run[r] EXCEPT !.phase = "done"]
  <2>1. Goto(r, "done") = [run EXCEPT ![r] = R] /\ R \in RunObject /\ R.phase = "done"
    BY <1>0, Going
  <2> HIDE DEF R
  <2> QED  BY <1>0, <1>2, <2>1, HandlerStopsKeeps DEF TooLate
<1>3. CASE /\ ~TooLate(r) /\ run[r].context = "running"
           /\ run' = Goto(r, "audio") /\ ops' = Append(ops, AudioOp("start", r))
           /\ active' = active /\ capturing' = capturing
  <2> DEFINE R == [run[r] EXCEPT !.phase = "audio"]
             m == AudioOp("start", r)
  <2>1. run' = [run EXCEPT ![r] = R] /\ R \in RunObject
        /\ R.phase = "audio" /\ R.stream = run[r].stream /\ R.context = run[r].context
        /\ R.socket = run[r].socket
    BY <1>0, <1>3, Going
  <2> HIDE DEF R
  <2>2. m \in Operation /\ m.op = "start" /\ m.run = r
    BY DEF AudioOp, Operation
  <2> HIDE DEF m
  <2>3. r = active /\ r # None
    BY <1>3, SharerAssumption DEF TooLate
  <2>4. run' \in [Run -> RunObject] /\ run'[r] = R /\ \A q \in Run : q # r => run'[q] = run[q]
    BY <1>0, <2>1
  <2>5. Runs'
    <3> SUFFICES ASSUME NEW q \in Run PROVE Fits(run'[q], q, active, capturing)
      BY <1>3 DEF Runs
    <3>1. CASE q = r
      BY <1>0, <1>3, <2>1, <2>3, <2>4, <3>1 DEF Fits, Holding
    <3>2. CASE q # r
      BY <2>4, <3>2 DEF ShareInv, Runs
    <3> QED  BY <3>1, <3>2
  <2>6. /\ ops' \in Seq(Operation) /\ Len(ops) \in Nat
        /\ Len(ops') = Len(ops) + 1 /\ ops'[Len(ops) + 1] = m
        /\ \A i \in 1..Len(ops) : ops'[i] = ops[i] /\ i \in 1..(Len(ops) + 1)
        /\ \A i \in 1..(Len(ops) + 1) : i \in 1..Len(ops) \/ i = Len(ops) + 1
    BY <1>0, <1>3, <2>2, Appending DEF m
  <2>7. \A i \in 1..Len(ops) :
            /\ ops[i].run \in Run /\ run[ops[i].run].phase # "idle"
            /\ ops[i].op = "stop" => ops[i].run # active
            /\ ops[i].op = "start" => Starting(run, ops, i, active) /\ ops[i].run # r
    BY <1>0, Operations DEF ShareInv, Chain, Linked, Starting
  <2>8. Linked(run', ops', active)
    <3> SUFFICES ASSUME NEW i \in 1..Len(ops')
                 PROVE  /\ run'[ops'[i].run].phase # "idle"
                        /\ ops'[i].op = "stop" => ops'[i].run # active
                        /\ ops'[i].op = "start" => Starting(run', ops', i, active)
      BY DEF Linked
    <3>1. CASE i = Len(ops) + 1
      <4>1. \A j \in 1..Len(ops') : ops'[j].op = "start" /\ ops'[j].run = r => j = i
        BY <2>6, <2>7, <3>1
      <4>2. ops'[i].run = r /\ ops'[i].op = "start" /\ i = Len(ops')
        BY <2>2, <2>6, <3>1
      <4> QED  BY <2>1, <2>3, <2>4, <4>1, <4>2 DEF Starting
    <3>2. CASE i \in 1..Len(ops)
      <4>1. ops'[i] = ops[i] /\ ops[i].run \in Run
        BY <2>6, <2>7, <3>2
      <4>2. run'[ops[i].run].phase # "idle"
        BY <2>1, <2>4, <2>7, <3>2
      <4>3. ASSUME ops[i].op = "start" PROVE Starting(run', ops', i, active)
        <5>1. /\ run[ops[i].run].phase = "audio" /\ ops[i].run # r
              /\ \A j \in 1..Len(ops) : ops[j].op = "start" /\ ops[j].run = ops[i].run => i = j
              /\ i < Len(ops) /\ ops[i + 1].op = "stop" /\ ops[i + 1].run = ops[i].run
          BY <2>3, <2>7, <3>2, <4>3 DEF Starting
        <5>2. run'[ops'[i].run].phase = "audio"
          BY <2>4, <4>1, <5>1
        <5>3. \A j \in 1..Len(ops') : ops'[j].op = "start" /\ ops'[j].run = ops'[i].run => i = j
          BY <2>2, <2>6, <4>1, <5>1
        <5>4. i + 1 \in 1..Len(ops)
          BY <2>6, <3>2, <5>1
        <5>5. i < Len(ops') /\ ops'[i + 1].op = "stop" /\ ops'[i + 1].run = ops'[i].run
          BY <2>6, <4>1, <5>1, <5>4
        <5> QED  BY <5>2, <5>3, <5>5 DEF Starting
      <4> QED  BY <2>7, <3>2, <4>1, <4>2, <4>3
    <3> QED  BY <2>6, <3>1, <3>2
  <2>9. Followed(ops', active, capturing)
    <3> SUFFICES ASSUME capturing # None
                 PROVE  ops' # <<>> /\ ops'[1].op = "stop" /\ ops'[1].run = capturing
      BY DEF Followed
    <3>1. capturing # active
      BY <1>0, <2>3 DEF Fits, Holding, ShareInv, Runs
    <3>2. ops # <<>> /\ ops[1].op = "stop" /\ ops[1].run = capturing
      BY <3>1 DEF ShareInv, Chain, Followed
    <3>3. 1 \in 1..Len(ops)
      BY <1>0, <3>2
    <3>4. ops' # <<>>
      BY <2>6
    <3> QED  BY <2>6, <3>2, <3>3, <3>4
  <2> QED  BY <1>3, <2>4, <2>5, <2>6, <2>8, <2>9 DEF ShareInv, ShareTyped, Chain
<1> QED  BY <1>1, <1>2, <1>3 DEF WorkletReady, audio

(* What is left of the chain once its first operation is over. *)
LEMMA TailLinked ==
    ASSUME ShareInv, ops # <<>>, NEW rs,
           \A x \in Run :
              /\ run[x].phase # "idle" => rs[x].phase # "idle"
              /\ run[x].phase = "audio" /\ ~(ops[1].op = "start" /\ x = ops[1].run)
                    => rs[x].phase = "audio"
    PROVE  /\ Tail(ops) \in Seq(Operation) /\ Head(ops) = ops[1]
           /\ 1 \in 1..Len(ops) /\ ops[1].run \in Run /\ ops[1].op \in {"start", "stop"}
           /\ Linked(rs, Tail(ops), active)
<1> DEFINE q == Tail(ops)
<1>1. ops \in Seq(Operation) /\ Linked(run, ops, active)
  BY DEF ShareInv, ShareTyped, Chain
<1>2. /\ q \in Seq(Operation) /\ Head(ops) = ops[1] /\ Len(ops) \in Nat
      /\ Len(q) = Len(ops) - 1 /\ 1 \in 1..Len(ops)
      /\ \A i \in 1..Len(q) : q[i] = ops[i + 1] /\ i + 1 \in 1..Len(ops)
  <2>1. /\ q \in Seq(Operation) /\ Head(ops) = ops[1] /\ Len(ops) \in Nat
        /\ Len(q) = Len(ops) - 1 /\ 1 \in 1..Len(ops)
        /\ \A i \in 1..(Len(ops) - 1) : q[i] = ops[i + 1] /\ i + 1 \in 1..Len(ops)
    BY <1>1, Reading
  <2> QED  BY <2>1
<1> HIDE DEF q
<1>3. ops[1].run \in Run /\ ops[1].op \in {"start", "stop"}
  BY <1>1, <1>2, Operations
<1>4. Linked(rs, q, active)
  <2> SUFFICES ASSUME NEW i \in 1..Len(q)
               PROVE  /\ rs[q[i].run].phase # "idle"
                      /\ q[i].op = "stop" => q[i].run # active
                      /\ q[i].op = "start" => Starting(rs, q, i, active)
    BY DEF Linked
  <2>1. /\ q[i] = ops[i + 1] /\ i + 1 \in 1..Len(ops) /\ q[i].run \in Run
        /\ run[q[i].run].phase # "idle"
        /\ q[i].op = "stop" => q[i].run # active
        /\ q[i].op = "start" => Starting(run, ops, i + 1, active)
    <3>1. q[i] = ops[i + 1] /\ i + 1 \in 1..Len(ops)
      BY <1>2
    <3> QED  BY <1>1, <3>1, Operations DEF Linked
  <2>2. ASSUME q[i].op = "start" PROVE Starting(rs, q, i, active)
    <3>1. /\ run[q[i].run].phase = "audio"
          /\ \A j \in 1..Len(ops) : ops[j].op = "start" /\ ops[j].run = q[i].run => i + 1 = j
          /\ \/ i + 1 = Len(ops) /\ q[i].run = active
             \/ i + 1 < Len(ops) /\ ops[(i + 1) + 1].op = "stop" /\ ops[(i + 1) + 1].run = q[i].run
      BY <2>1, <2>2 DEF Starting
    <3>2. ~(ops[1].op = "start" /\ q[i].run = ops[1].run)
      <4>1. i + 1 # 1
        OBVIOUS
      <4> QED  BY <1>2, <3>1, <4>1
    <3>3. rs[q[i].run].phase = "audio"
      BY <2>1, <3>1, <3>2
    <3>4. ASSUME NEW j \in 1..Len(q), q[j].op = "start", q[j].run = q[i].run PROVE i = j
      <4>1. i + 1 = j + 1
        BY <1>2, <3>1, <3>4
      <4> QED  BY <4>1
    <3>5. \/ i = Len(q) /\ q[i].run = active
          \/ i < Len(q) /\ q[i + 1].op = "stop" /\ q[i + 1].run = q[i].run
      <4>1. CASE i + 1 = Len(ops) /\ q[i].run = active
        BY <1>2, <4>1
      <4>2. CASE i + 1 < Len(ops) /\ ops[(i + 1) + 1].op = "stop" /\ ops[(i + 1) + 1].run = q[i].run
        <5>1. i + 1 \in 1..Len(q)
          BY <1>2, <4>2
        <5> QED  BY <1>2, <4>2, <5>1
      <4> QED  BY <3>1, <4>1, <4>2
    <3> QED  BY <3>3, <3>4, <3>5 DEF Starting
  <2> QED  BY <2>1, <2>2
<1> QED  BY <1>2, <1>3, <1>4 DEF q

(* A start of app audio is over, too late for its run. *)
LEMMA SkipsKeeps ==
    ASSUME ShareInv, ops # <<>>, ops[1].op = "start", ops[1].run # active,
           run' = Goto(ops[1].run, "done"), ops' = Tail(ops), UNCHANGED <<active, capturing>>
    PROVE  ShareInv'
<1> DEFINE r == ops[1].run
           R == [run[r] EXCEPT !.phase = "done"]
<1>1. r \in Run /\ 1 \in 1..Len(ops) /\ run[r].phase = "audio"
  BY TailLinked DEF ShareInv, Chain, Linked, Starting
<1>2. /\ run' = [run EXCEPT ![r] = R] /\ R \in RunObject /\ run \in [Run -> RunObject]
      /\ R.phase = "done" /\ R.stream = run[r].stream /\ R.context = run[r].context
      /\ R.socket = run[r].socket /\ R.timer = run[r].timer /\ R.watchdog = run[r].watchdog
  BY <1>1, Going DEF ShareInv, ShareTyped
<1> HIDE DEF R, r
<1>3. run' \in [Run -> RunObject] /\ run'[r] = R /\ \A x \in Run : x # r => run'[x] = run[x]
  BY <1>1, <1>2
<1>4. r # active /\ active' = active /\ capturing' = capturing
  BY DEF r
<1>5. Runs'
  <2> SUFFICES ASSUME NEW x \in Run PROVE Fits(run'[x], x, active, capturing)
    BY <1>4 DEF Runs
  <2>1. Fits(run[x], x, active, capturing)
    BY DEF ShareInv, Runs
  <2> QED  BY <1>2, <1>3, <1>4, <2>1 DEF Fits, Outlived
<1>6. Tail(ops) \in Seq(Operation) /\ Linked(run', Tail(ops), active)
  BY <1>2, <1>3, TailLinked DEF r
<1>7. Followed(Tail(ops), active, capturing)
  BY DEF ShareInv, Chain, Followed
<1> QED  BY <1>3, <1>4, <1>5, <1>6, <1>7 DEF ShareInv, ShareTyped, Chain

LEMMA AudioKeeps ==
    ASSUME ShareInv, AudioChain
    PROVE  ShareInv'
<1>0. /\ ops # <<>> /\ active \in Run \cup {None} /\ run \in [Run -> RunObject]
      /\ ops \in Seq(Operation) /\ Len(ops) \in Nat
  BY DEF AudioChain, AudioOpBegins, AudioStarts, AudioRefused, AudioStops, AudioCalled,
         ShareInv, ShareTyped
<1>1. /\ Tail(ops) \in Seq(Operation) /\ Head(ops) = ops[1]
      /\ 1 \in 1..Len(ops) /\ ops[1].run \in Run /\ ops[1].op \in {"start", "stop"}
      /\ Linked(run, Tail(ops), active)
  BY <1>0, TailLinked
<1>2. ops[1].op = "start" => /\ run[ops[1].run].phase = "audio" /\ capturing = None
                             /\ Starting(run, ops, 1, active)
  BY <1>0, <1>1 DEF ShareInv, Chain, Linked, Followed, Starting
<1>3. CASE AudioOpBegins
  <2>1. CASE Head(ops).op = "start" /\ active # Head(ops).run
    <3>1. /\ ops' = Tail(ops) /\ run' = Goto(ops[1].run, "done")
          /\ UNCHANGED <<active, capturing>>
      BY <1>1, <1>3, <2>1 DEF AudioOpBegins
    <3> QED  BY <1>0, <1>1, <2>1, <3>1, SkipsKeeps
  <2>2. CASE ~(Head(ops).op = "start" /\ active # Head(ops).run)
    <3>1. ops' = [ops EXCEPT ![1].called = TRUE] /\ UNCHANGED <<active, run, capturing>>
      BY <1>3, <2>2 DEF AudioOpBegins
    <3> DEFINE m == [ops[1] EXCEPT !.called = TRUE]
    <3>2. m \in Operation /\ m.op = ops[1].op /\ m.run = ops[1].run
      <4>1. ops[1] \in Operation
        BY <1>0, <1>1
      <4> QED  BY <4>1 DEF Operation
    <3>3. ops' = [ops EXCEPT ![1] = m]
      BY <3>1
    <3> HIDE DEF m
    <3>4. /\ ops' \in Seq(Operation) /\ Len(ops') = Len(ops) /\ ops' # <<>>
          /\ ops'[1] = m /\ \A i \in 1..Len(ops) : i # 1 => ops'[i] = ops[i]
      BY <1>0, <1>1, <3>2, <3>3
    <3>5. \A i \in 1..Len(ops) : ops'[i].op = ops[i].op /\ ops'[i].run = ops[i].run
      BY <3>2, <3>4
    <3>6. Linked(run, ops', active)
      <4> SUFFICES ASSUME NEW i \in 1..Len(ops)
                   PROVE  /\ run[ops[i].run].phase # "idle"
                          /\ ops[i].op = "stop" => ops[i].run # active
                          /\ ops[i].op = "start" => Starting(run, ops', i, active)
        BY <3>4, <3>5 DEF Linked
      <4>1. /\ run[ops[i].run].phase # "idle"
            /\ ops[i].op = "stop" => ops[i].run # active
            /\ ops[i].op = "start" => Starting(run, ops, i, active)
        BY DEF ShareInv, Chain, Linked
      <4>2. i < Len(ops) => i + 1 \in 1..Len(ops)
        BY <1>0
      <4> QED  BY <3>4, <3>5, <4>1, <4>2 DEF Starting
    <3>7. Followed(ops', active, capturing)
      BY <1>0, <1>1, <3>4, <3>5 DEF ShareInv, Chain, Followed
    <3>8. Runs'
      BY <3>1 DEF ShareInv, Runs
    <3> QED  BY <3>1, <3>4, <3>6, <3>7, <3>8 DEF ShareInv, ShareTyped, Chain
  <2> QED  BY <2>1, <2>2
<1>4. CASE AudioStarts
  <2> DEFINE r == ops[1].run
  <2>1. /\ ops[1].op = "start" /\ capturing' = r /\ ops' = Tail(ops) /\ active' = active
        /\ run' = Goto(r, IF active = r THEN "constraints" ELSE "done")
    BY <1>1, <1>4 DEF AudioStarts, AudioCalled
  <2>2. PICK w \in {"constraints", "done"} : w = IF active = r THEN "constraints" ELSE "done"
    OBVIOUS
  <2> DEFINE R == [run[r] EXCEPT !.phase = w]
  <2>3. /\ run' = [run EXCEPT ![r] = R] /\ R \in RunObject
        /\ R.phase = w /\ R.stream = run[r].stream /\ R.context = run[r].context
        /\ R.socket = run[r].socket /\ R.timer = run[r].timer /\ R.watchdog = run[r].watchdog
    <3>1. run' = Goto(r, w) /\ ShareTyped /\ r \in Run
      BY <1>1, <2>1, <2>2 DEF ShareInv
    <3>2. w \in {"idle", "picker", "worklet", "audio", "constraints", "done"}
      BY <2>2
    <3> HIDE DEF r
    <3>3. /\ Goto(r, w) = [run EXCEPT ![r] = R] /\ R \in RunObject
          /\ R.phase = w /\ R.stream = run[r].stream /\ R.context = run[r].context
          /\ R.socket = run[r].socket /\ R.timer = run[r].timer /\ R.watchdog = run[r].watchdog
      BY <3>1, <3>2, Going
    <3> QED  BY <3>1, <3>3
  <2> HIDE DEF R
  <2>4. r \in Run /\ run[r].phase = "audio" /\ capturing = None /\ r # None
    BY <1>1, <1>2, <2>1, SharerAssumption
  <2>5. run' \in [Run -> RunObject] /\ run'[r] = R /\ \A x \in Run : x # r => run'[x] = run[x]
    BY <1>0, <2>3, <2>4
  <2>6. Runs'
    <3> SUFFICES ASSUME NEW x \in Run PROVE Fits(run'[x], x, active, r)
      BY <2>1 DEF Runs
    <3>1. Fits(run[x], x, active, None) /\ x # None
      BY <2>4, SharerAssumption DEF ShareInv, Runs
    <3>2. CASE x = r
      BY <2>2, <2>3, <2>4, <2>5, <3>1, <3>2 DEF Fits, Holding, Outlived
    <3>3. CASE x # r
      BY <2>5, <3>1, <3>3 DEF Fits, Holding
    <3> QED  BY <3>2, <3>3
  <2>7. Linked(run', Tail(ops), active)
    BY <1>0, <2>1, <2>2, <2>3, <2>4, <2>5, TailLinked
  <2>8. Followed(Tail(ops), active, r)
    <3>1. \/ 1 = Len(ops) /\ r = active
          \/ 1 < Len(ops) /\ ops[1 + 1].op = "stop" /\ ops[1 + 1].run = r
      BY <1>2, <2>1 DEF Starting
    <3>2. CASE 1 = Len(ops) /\ r = active
      <4>1. Tail(ops) = <<>>
        BY <1>0, <3>2, Reading
      <4> QED  BY <3>2, <4>1 DEF Followed
    <3>3. CASE 1 < Len(ops) /\ ops[1 + 1].op = "stop" /\ ops[1 + 1].run = r
      <4>1. /\ 1 \in 1..(Len(ops) - 1) /\ Len(ops) # 1
            /\ \A i \in 1..(Len(ops) - 1) : Tail(ops)[i] = ops[i + 1]
            /\ (Tail(ops) = <<>>) <=> (Len(ops) = 1)
        BY <1>0, <3>3, Reading
      <4>2. Tail(ops)[1] = ops[1 + 1] /\ Tail(ops) # <<>>
        BY <4>1
      <4> QED  BY <3>3, <4>2 DEF Followed
    <3> QED  BY <3>1, <3>2, <3>3
  <2> QED  BY <1>1, <2>1, <2>4, <2>5, <2>6, <2>7, <2>8 DEF ShareInv, ShareTyped, Chain
<1>5. CASE AudioRefused
  <2> DEFINE r == ops[1].run
  <2>1. ops[1].op = "start"
    BY <1>1, <1>5 DEF AudioRefused, AudioCalled
  <2>2. CASE active = r
    <3> DEFINE R == [run[r] EXCEPT !.phase = "done"]
               rs == Goto(r, "done")
    <3>1. /\ rs = [run EXCEPT ![r] = R] /\ R \in RunObject /\ R.phase = "done"
      BY <1>1, Going DEF ShareInv
    <3>2. StopFrom(rs, Tail(ops))
      BY <1>1, <1>5, <2>2 DEF AudioRefused
    <3> HIDE DEF R, rs
    <3>3. rs \in [Run -> RunObject] /\ rs[r] = R /\ \A x \in Run : x # r => rs[x] = run[x]
      BY <1>0, <1>1, <3>1
    <3>4. Linked(rs, Tail(ops), active)
      BY <1>0, <1>1, <2>1, <3>1, <3>3, TailLinked
    <3>5. Followed(Tail(ops), active, capturing)
      BY <1>2, <2>1 DEF Followed
    <3>6. Stops(rs, Tail(ops))
      BY <1>1, <2>2, <3>1, <3>2, <3>3, <3>4, <3>5 DEF Stops
    <3> QED  BY <3>6, StopsKeeps
  <2>3. CASE active # r
    <3>1. /\ ops' = Tail(ops) /\ run' = Goto(r, "done") /\ UNCHANGED <<active, capturing>>
      BY <1>1, <1>5, <2>3 DEF AudioRefused
    <3> QED  BY <1>0, <2>1, <2>3, <3>1, SkipsKeeps
  <2> QED  BY <2>2, <2>3
<1>6. CASE AudioStops
  <2>1. /\ ops[1].op = "stop" /\ capturing' = None /\ ops' = Tail(ops)
        /\ active' = active /\ run' = run
    BY <1>1, <1>6 DEF AudioStops, AudioCalled
  <2>2. ops[1].run # active
    BY <1>1, <2>1 DEF ShareInv, Chain, Linked
  <2>3. active \in Run => capturing # active
    <3>1. active \in Run => active # None
      BY SharerAssumption
    <3> QED  BY <1>0, <2>2, <3>1 DEF ShareInv, Chain, Followed
  <2>4. Runs'
    <3> SUFFICES ASSUME NEW x \in Run PROVE Fits(run[x], x, active, None)
      BY <2>1 DEF Runs
    <3>1. Fits(run[x], x, active, capturing) /\ x # None
      BY SharerAssumption DEF ShareInv, Runs
    <3> QED  BY <2>3, <3>1 DEF Fits, Holding
  <2>5. Followed(Tail(ops), active, None)
    BY DEF Followed
  <2> QED  BY <1>1, <2>1, <2>4, <2>5 DEF ShareInv, ShareTyped, Chain
<1> QED  BY <1>3, <1>4, <1>5, <1>6 DEF AudioChain

LEMMA ShareInit == Init => ShareInv
<1> SUFFICES ASSUME Init PROVE ShareInv
  OBVIOUS
<1>1. ShareTyped
  BY DEF Init, ShareTyped, RunObject
<1>2. Runs
  BY SharerAssumption DEF Init, Runs, Fits, Outlived
<1>3. Chain
  BY DEF Init, Chain, Linked, Followed
<1> QED  BY <1>1, <1>2, <1>3 DEF ShareInv

LEMMA ShareStep == ShareInv /\ [Next]_vars => ShareInv'
<1> SUFFICES ASSUME ShareInv, [Next]_vars PROVE ShareInv'
  OBVIOUS
<1>1. CASE UNCHANGED vars
  BY <1>1, UntouchedKeeps DEF vars, audio, Untouched
<1>2. CASE StopClicked \/ PageHides \/ AudioFails
  BY <1>2, StopKeeps, StopIfActiveKeeps DEF StopClicked, PageHides, AudioFails
<1>3. CASE AudioChain
  BY <1>3, AudioKeeps
<1>4. ASSUME NEW r \in Run,
             \/ StartClicked(r) \/ PickerReturns(r) \/ StartFails(r) \/ WorkletReady(r)
             \/ ConstraintsApplied(r) \/ TrackEnds(r) \/ ContextSuspends(r) \/ Opens(r)
             \/ SocketCloses(r) \/ TimerFires(r) \/ WatchdogFires(r) \/ StartedRefused(r)
      PROVE  ShareInv'
  <2>1. CASE SocketCloses(r) \/ TimerFires(r) \/ WatchdogFires(r) \/ StartedRefused(r)
    BY <2>1, StopIfActiveKeeps DEF SocketCloses, TimerFires, WatchdogFires, StartedRefused
  <2> QED  BY <1>4, <2>1, StartClickedKeeps, HandlerKeeps, WorkletKeeps, EndsKeeps, OpensKeeps
<1>5. CASE Receives
  BY <1>5, ReceivesKeep
<1>6. ASSUME NEW p \in PeerId,
             \/ OfferCreated(p) \/ OfferSet(p) \/ Microtask(p) \/ AnswerSet(p)
             \/ CandidateAdded(p) \/ NegotiationFails(p) \/ PeerConnects(p)
             \/ PeerFails(p) \/ LocalCandidate(p)
      PROVE  ShareInv'
  <2>1. UNCHANGED fixed
    BY <1>6 DEF OfferCreated, OfferSet, Microtask, AnswerSet, CandidateAdded, NegotiationFails,
                PeerConnects, PeerFails, LocalCandidate, Becomes
  <2> QED  BY <2>1, UntouchedKeeps DEF fixed, audio, Untouched
<1>7. ASSUME NEW p \in PeerId,
             ViewerJoins(p) \/ ViewerLeaves(p) \/ ViewerAnswers(p) \/ ViewerTrickles(p)
      PROVE  ShareInv'
  BY <1>7, UntouchedKeeps DEF ViewerJoins, ViewerLeaves, ViewerAnswers, ViewerTrickles, ours,
                              audio, Untouched
<1>8. CASE ServerReceives \/ ServerBeats \/ LinkDies
  BY <1>8, UntouchedKeeps DEF ServerReceives, ServerBeats, LinkDies, ours, audio, Untouched
<1> QED  BY <1>1, <1>2, <1>3, <1>4, <1>5, <1>6, <1>7, <1>8 DEF Next, Receives

LEMMA ShareHolds == Spec => []ShareInv
  BY ShareInit, ShareStep, PTL DEF Spec

(* What is offered to viewers is a capture that is alive, with the audio of  *)
(* the app that was selected (web/sharer/sharer.js, the start handler).      *)
THEOREM OfferedIsLive == Spec => []SharedIsLive
<1>1. ShareInv => SharedIsLive
  <2> SUFFICES ASSUME ShareInv, active # None, run[active].socket # "none"
               PROVE  /\ run[active].stream = "live"
                      /\ run[active].context \in {"none", "running"}
                      /\ run[active].context = "running" => capturing = active
    BY DEF SharedIsLive
  <2>1. run[active] \in RunObject /\ Fits(run[active], active, active, capturing)
    BY DEF ShareInv, ShareTyped, Runs
  <2> QED  BY <2>1 DEF Fits, Holding, RunObject
<1> QED  BY <1>1, ShareHolds, PTL

(* App audio is stopped in its run's own place in the chain, and StartAudio  *)
(* never finds a capture that the page has forgotten (audioOperation).       *)
THEOREM AudioIsClean == Spec => []AudioChainClean
<1>1. ShareInv => AudioChainClean
  <2> SUFFICES ASSUME ShareInv PROVE AudioChainClean
    OBVIOUS
  <2>1. ops \in Seq(Operation) /\ Linked(run, ops, active) /\ Followed(ops, active, capturing)
    BY DEF ShareInv, ShareTyped, Chain
  <2>2. ops # <<>> => 1 \in 1..Len(ops) /\ Head(ops) = ops[1]
    BY <2>1, Reading
  <2>3. ASSUME capturing \notin {None, active}
        PROVE  \E i \in 1..Len(ops) : ops[i].op = "stop" /\ ops[i].run = capturing
    BY <2>1, <2>2, <2>3 DEF Followed
  <2>4. ASSUME AudioCalled("start"), capturing # None PROVE FALSE
    BY <2>1, <2>2, <2>4 DEF AudioCalled, Followed
  <2> QED  BY <2>3, <2>4 DEF AudioChainClean
<1> QED  BY <1>1, ShareHolds, PTL

-----------------------------------------------------------------------------
(* The viewers the server had at a message: what one more message of its,    *)
(* or one that the page has read, changes of it.                             *)

LEMMA AtEnd ==
    ASSUME NEW q \in Seq(Heard), NEW ms \in SUBSET PeerId
    PROVE  At(q, ms, Len(q)) = ms
<1>1. Later(q, Len(q)) = {}
  BY DEF Later
<1> QED  BY <1>1 DEF At

(* What a message m of the server says of its members, ms before it and ms2  *)
(* after it, with q on their way already.                                    *)
Brings(q, m, ms, ms2) ==
    \/ /\ m.type \notin {"viewer-joined", "viewer-left"} /\ ms2 = ms
       /\ m.type = "started" => m.n = 0 /\ ms = {}
    \/ /\ m.type = "viewer-joined" /\ ms2 = ms \cup {m.peer} /\ m.peer \notin ms
       /\ m.peer \in PeerId /\ m.n = Cardinality(ms2)
       /\ \A i \in 1..Len(q) : q[i].peer # m.peer
    \/ /\ m.type = "viewer-left" /\ ms2 = ms \ {m.peer} /\ m.peer \in ms
       /\ m.n = Cardinality(ms2)

LEMMA BringsAt ==
    ASSUME NEW q \in Seq(Heard), NEW m \in Heard, NEW ms \in SUBSET PeerId,
           NEW ms2 \in SUBSET PeerId, Brings(q, m, ms, ms2)
    PROVE  /\ \A i \in 0..Len(q) : At(Append(q, m), ms2, i) = At(q, ms, i)
           /\ At(Append(q, m), ms2, Len(q) + 1) = ms2
<1> DEFINE Q == Append(q, m)
<1>1. /\ Q \in Seq(Heard) /\ Len(q) \in Nat /\ Len(Q) = Len(q) + 1
      /\ \A i \in 1..Len(q) : Q[i] = q[i] /\ i \in 1..(Len(q) + 1)
      /\ Q[Len(q) + 1] = m
      /\ \A i \in 1..(Len(q) + 1) : i \in 1..Len(q) \/ i = Len(q) + 1
  BY Appending
<1> HIDE DEF Q
<1>2. ASSUME NEW i \in 0..Len(q) PROVE At(Q, ms2, i) = At(q, ms, i)
  <2>1. Later(Q, i) = Later(q, i) \cup {Len(q) + 1}
    BY <1>1 DEF Later
  <2>2. \A j \in Later(q, i) : Q[j] = q[j] /\ j \in 1..Len(q)
    BY <1>1 DEF Later
  <2>3. ASSUME NEW p \in PeerId PROVE p \in At(Q, ms2, i) <=> p \in At(q, ms, i)
    <3>1. /\ (\E j \in Later(Q, i) : Leaves(Q, p, j)) <=>
                 (\E j \in Later(q, i) : Leaves(q, p, j)) \/ (m.type = "viewer-left" /\ m.peer = p)
          /\ (\A j \in Later(Q, i) : ~Joins(Q, p, j)) <=>
                 (\A j \in Later(q, i) : ~Joins(q, p, j)) /\ ~(m.type = "viewer-joined" /\ m.peer = p)
      BY <1>1, <2>1, <2>2 DEF Leaves, Joins
    <3>2. m.type = "viewer-joined" /\ m.peer = p =>
              p \notin ms /\ ~\E j \in Later(q, i) : Leaves(q, p, j)
      BY <2>2 DEF Brings, Leaves
    <3>3. m.type = "viewer-left" /\ m.peer = p => p \in ms
      BY DEF Brings
    <3>4. ~(m.type \in {"viewer-joined", "viewer-left"} /\ m.peer = p) => (p \in ms2 <=> p \in ms)
      BY DEF Brings
    <3>5. m.type = "viewer-joined" /\ m.type = "viewer-left" => FALSE
      OBVIOUS
    <3> QED  BY <3>1, <3>2, <3>3, <3>4, <3>5 DEF At
  <2> QED  BY <2>3 DEF At
<1>3. At(Q, ms2, Len(q) + 1) = ms2
  BY <1>1, AtEnd
<1> QED  BY <1>2, <1>3 DEF Q

LEMMA BringsCounts ==
    ASSUME NEW q \in Seq(Heard), NEW m \in Heard, NEW ms \in SUBSET PeerId,
           NEW ms2 \in SUBSET PeerId, Brings(q, m, ms, ms2), Counts(q, ms), NEW u,
           Shown(q, ms, u)
    PROVE  Counts(Append(q, m), ms2) /\ Shown(Append(q, m), ms2, u)
<1> DEFINE Q == Append(q, m)
<1>1. /\ Len(q) \in Nat /\ Len(Q) = Len(q) + 1
      /\ \A i \in 1..Len(q) : Q[i] = q[i]
      /\ Q[Len(q) + 1] = m
      /\ \A i \in 1..(Len(q) + 1) : i \in 1..Len(q) \/ i = Len(q) + 1
  BY Appending
<1>2. /\ \A i \in 0..Len(q) : At(Q, ms2, i) = At(q, ms, i)
      /\ At(Q, ms2, Len(q) + 1) = ms2
  BY BringsAt
<1> HIDE DEF Q
<1>3. Shown(Q, ms2, u)
  BY <1>1, <1>2 DEF Shown
<1>4. Counts(Q, ms2)
  <2> SUFFICES ASSUME NEW i \in 1..Len(Q)
               PROVE  /\ Q[i].type \in {"viewer-joined", "viewer-left"}
                             => Q[i].n = Cardinality(At(Q, ms2, i))
                      /\ Q[i].type = "started" => Q[i].n = 0 /\ At(Q, ms2, i) = {}
    BY DEF Counts
  <2>1. CASE i \in 1..Len(q)
    <3>1. At(Q, ms2, i) = At(q, ms, i)
      BY <1>1, <1>2, <2>1
    <3> QED  BY <1>1, <2>1, <3>1 DEF Counts
  <2>2. CASE i = Len(q) + 1
    BY <1>1, <1>2, <2>2 DEF Brings
  <2> QED  BY <1>1, <2>1, <2>2
<1> QED  BY <1>3, <1>4 DEF Q

LEMMA BringsMoving ==
    ASSUME NEW q \in Seq(Heard), NEW m \in Heard, NEW ms \in SUBSET PeerId,
           NEW ms2 \in SUBSET PeerId, Brings(q, m, ms, ms2), NEW ps, Moving(q, ms, ps),
           m.type = "viewer-joined" => ps[m.peer].life = "none"
    PROVE  Moving(Append(q, m), ms2, ps)
<1> DEFINE Q == Append(q, m)
<1>1. /\ Len(q) \in Nat /\ Len(Q) = Len(q) + 1
      /\ \A i \in 1..Len(q) : Q[i] = q[i] /\ i \in 1..(Len(q) + 1)
      /\ Q[Len(q) + 1] = m
      /\ \A i \in 1..(Len(q) + 1) : i \in 1..Len(q) \/ i = Len(q) + 1
  BY Appending
<1> HIDE DEF Q
<1> SUFFICES ASSUME NEW p \in PeerId, NEW i \in 1..Len(Q)
             PROVE  /\ Joins(Q, p, i) =>
                          /\ ps[p].life = "none"
                          /\ \A j \in 1..Len(Q) : Joins(Q, p, j) => i = j
                          /\ p \in ms2 \/ \E j \in Later(Q, i) : Leaves(Q, p, j)
                    /\ Leaves(Q, p, i) => p \notin ms2
  BY DEF Moving, Q
<1>2. CASE i \in 1..Len(q)
  <2>1. Q[i] = q[i]
    BY <1>1, <1>2
  <2>2. ASSUME Joins(Q, p, i)
        PROVE  /\ ps[p].life = "none"
               /\ \A j \in 1..Len(Q) : Joins(Q, p, j) => i = j
               /\ p \in ms2 \/ \E j \in Later(Q, i) : Leaves(Q, p, j)
    <3>1. /\ ps[p].life = "none"
          /\ \A j \in 1..Len(q) : Joins(q, p, j) => i = j
          /\ p \in ms \/ \E j \in Later(q, i) : Leaves(q, p, j)
      BY <1>2, <2>1, <2>2 DEF Moving, Joins
    <3>2. ~(m.type = "viewer-joined" /\ m.peer = p)
      BY <1>2, <2>1, <2>2 DEF Brings, Joins
    <3>3. \A j \in 1..Len(Q) : Joins(Q, p, j) => i = j
      BY <1>1, <3>1, <3>2 DEF Joins
    <3>4. p \in ms2 \/ \E j \in Later(Q, i) : Leaves(Q, p, j)
      <4>1. ASSUME NEW j \in Later(q, i), Leaves(q, p, j) PROVE j \in Later(Q, i) /\ Leaves(Q, p, j)
        BY <1>1, <4>1 DEF Later, Leaves
      <4>2. CASE m.type = "viewer-left" /\ m.peer = p
        <5>1. Len(q) + 1 \in Later(Q, i) /\ Leaves(Q, p, Len(q) + 1)
          BY <1>1, <1>2, <4>2 DEF Later, Leaves
        <5> QED  BY <5>1
      <4>3. CASE ~(m.type = "viewer-left" /\ m.peer = p)
        <5>1. p \in ms => p \in ms2
          BY <4>3 DEF Brings
        <5> QED  BY <3>1, <4>1, <5>1
      <4> QED  BY <4>2, <4>3
    <3> QED  BY <3>1, <3>3, <3>4
  <2>3. ASSUME Leaves(Q, p, i) PROVE p \notin ms2
    <3>1. p \notin ms
      BY <1>2, <2>1, <2>3 DEF Moving, Leaves
    <3>2. ~(m.type = "viewer-joined" /\ m.peer = p)
      BY <1>2, <2>1, <2>3 DEF Brings, Leaves
    <3> QED  BY <3>1, <3>2 DEF Brings
  <2> QED  BY <2>2, <2>3
<1>3. CASE i = Len(q) + 1
  <2>1. Q[i] = m
    BY <1>1, <1>3
  <2>2. ASSUME Joins(Q, p, i)
        PROVE  /\ ps[p].life = "none" /\ p \in ms2
               /\ \A j \in 1..Len(Q) : Joins(Q, p, j) => i = j
    <3>1. m.type = "viewer-joined" /\ m.peer = p
      BY <2>1, <2>2 DEF Joins
    <3>2. p \in ms2 /\ \A j \in 1..Len(q) : q[j].peer # p
      BY <3>1 DEF Brings
    <3> QED  BY <1>1, <1>3, <3>1, <3>2 DEF Joins
  <2>3. ASSUME Leaves(Q, p, i) PROVE p \notin ms2
    BY <2>1, <2>3 DEF Leaves, Brings
  <2> QED  BY <2>2, <2>3
<1> QED  BY <1>1, <1>2, <1>3

LEMMA BringsViews ==
    ASSUME NEW q \in Seq(Heard), NEW m \in Heard, NEW ms \in SUBSET PeerId,
           NEW ms2 \in SUBSET PeerId, Brings(q, m, ms, ms2), NEW ps, NEW reqs, NEW reqs2,
           Viewed(q, ms, ps, reqs),
           \A p \in PeerId : Dismissed(reqs, p) /\ p \in ms2 => Dismissed(reqs2, p)
    PROVE  Viewed(Append(q, m), ms2, ps, reqs2)
<1>1. At(Append(q, m), ms2, 0) = At(q, ms, 0) /\ Len(q) \in Nat
  BY BringsAt
<1>2. ASSUME NEW p \in PeerId, p \in ms2, p \notin ms PROVE p \notin At(q, ms, 0)
  <2>1. \A j \in 1..Len(q) : q[j].peer # p
    BY <1>2 DEF Brings
  <2> QED  BY <1>2, <2>1 DEF At, Leaves, Later
<1> QED  BY <1>1, <1>2 DEF Viewed

LEMMA PopAt ==
    ASSUME NEW q \in Seq(Heard), q # <<>>, NEW ms \in SUBSET PeerId
    PROVE  /\ \A i \in 0..(Len(q) - 1) : At(Tail(q), ms, i) = At(q, ms, i + 1)
           /\ At(Tail(q), ms, 0) = At(q, ms, 1)
           /\ q[1].type \notin {"viewer-joined", "viewer-left"} => At(q, ms, 0) = At(q, ms, 1)
<1> DEFINE t == Tail(q)
<1>1. /\ t \in Seq(Heard) /\ Len(q) \in Nat \ {0} /\ Len(t) = Len(q) - 1 /\ 1 \in 1..Len(q)
      /\ \A i \in 1..(Len(q) - 1) : t[i] = q[i + 1] /\ i + 1 \in 1..Len(q)
      /\ \A i \in 1..Len(q) : i = 1 \/ \E j \in 1..(Len(q) - 1) : i = j + 1
  BY Reading
<1> HIDE DEF t
<1>2. ASSUME NEW i \in 0..(Len(q) - 1) PROVE At(t, ms, i) = At(q, ms, i + 1)
  <2>1. ASSUME NEW j \in Later(t, i) PROVE j + 1 \in Later(q, i + 1) /\ t[j] = q[j + 1]
    BY <1>1 DEF Later
  <2>2. ASSUME NEW k \in Later(q, i + 1) PROVE \E j \in Later(t, i) : k = j + 1
    <3>1. k \in 1..Len(q) /\ i + 1 < k
      BY DEF Later
    <3>2. PICK j \in 1..(Len(q) - 1) : k = j + 1
      BY <1>1, <3>1
    <3> QED  BY <1>1, <3>1, <3>2 DEF Later
  <2>3. ASSUME NEW p \in PeerId PROVE p \in At(t, ms, i) <=> p \in At(q, ms, i + 1)
    <3>1. (\E j \in Later(t, i) : Leaves(t, p, j)) <=> \E k \in Later(q, i + 1) : Leaves(q, p, k)
      BY <2>1, <2>2 DEF Leaves
    <3>2. (\A j \in Later(t, i) : ~Joins(t, p, j)) <=> \A k \in Later(q, i + 1) : ~Joins(q, p, k)
      BY <2>1, <2>2 DEF Joins
    <3> QED  BY <3>1, <3>2 DEF At
  <2> QED  BY <2>3 DEF At
<1>3. At(t, ms, 0) = At(q, ms, 1)
  <2>1. 0 \in 0..(Len(q) - 1) /\ 0 + 1 = 1
    BY <1>1
  <2> QED  BY <1>2, <2>1
<1>4. ASSUME q[1].type \notin {"viewer-joined", "viewer-left"} PROVE At(q, ms, 0) = At(q, ms, 1)
  <2>1. Later(q, 0) = Later(q, 1) \cup {1}
    BY <1>1 DEF Later
  <2>2. \A p : ~Joins(q, p, 1) /\ ~Leaves(q, p, 1)
    BY <1>4 DEF Joins, Leaves
  <2> QED  BY <2>1, <2>2 DEF At
<1> QED  BY <1>2, <1>3, <1>4 DEF t

LEMMA PopCounts ==
    ASSUME NEW q \in Seq(Heard), q # <<>>, NEW ms \in SUBSET PeerId, Counts(q, ms)
    PROVE  Counts(Tail(q), ms)
<1> DEFINE t == Tail(q)
<1>1. /\ Len(t) = Len(q) - 1 /\ Len(q) \in Nat \ {0}
      /\ \A i \in 1..(Len(q) - 1) : t[i] = q[i + 1] /\ i + 1 \in 1..Len(q)
      /\ \A i \in 0..(Len(q) - 1) : At(t, ms, i) = At(q, ms, i + 1)
  BY Reading, PopAt
<1> HIDE DEF t
<1> SUFFICES ASSUME NEW i \in 1..Len(t)
             PROVE  /\ t[i].type \in {"viewer-joined", "viewer-left"}
                           => t[i].n = Cardinality(At(t, ms, i))
                    /\ t[i].type = "started" => t[i].n = 0 /\ At(t, ms, i) = {}
  BY DEF Counts, t
<1>2. t[i] = q[i + 1] /\ i + 1 \in 1..Len(q) /\ At(t, ms, i) = At(q, ms, i + 1)
  BY <1>1
<1> QED  BY <1>2 DEF Counts

LEMMA PopMoving ==
    ASSUME NEW q \in Seq(Heard), q # <<>>, NEW ms, NEW ps, NEW ps2, Moving(q, ms, ps),
           \A p \in PeerId : ps[p].life = "none" /\ ~Joins(q, p, 1) => ps2[p].life = "none"
    PROVE  Moving(Tail(q), ms, ps2)
<1> DEFINE t == Tail(q)
<1>1. /\ Len(t) = Len(q) - 1 /\ Len(q) \in Nat \ {0} /\ 1 \in 1..Len(q)
      /\ \A i \in 1..(Len(q) - 1) : t[i] = q[i + 1] /\ i + 1 \in 1..Len(q)
      /\ \A i \in 1..Len(q) : i = 1 \/ \E j \in 1..(Len(q) - 1) : i = j + 1
  BY Reading
<1> HIDE DEF t
<1> SUFFICES ASSUME NEW p \in PeerId, NEW i \in 1..Len(t)
             PROVE  /\ Joins(t, p, i) =>
                          /\ ps2[p].life = "none"
                          /\ \A j \in 1..Len(t) : Joins(t, p, j) => i = j
                          /\ p \in ms \/ \E j \in Later(t, i) : Leaves(t, p, j)
                    /\ Leaves(t, p, i) => p \notin ms
  BY DEF Moving, t
<1>2. t[i] = q[i + 1] /\ i + 1 \in 1..Len(q) /\ i + 1 # 1
  BY <1>1
<1>3. ASSUME Joins(t, p, i)
      PROVE  /\ ps2[p].life = "none"
             /\ \A j \in 1..Len(t) : Joins(t, p, j) => i = j
             /\ p \in ms \/ \E j \in Later(t, i) : Leaves(t, p, j)
  <2>1. /\ ps[p].life = "none"
        /\ \A j \in 1..Len(q) : Joins(q, p, j) => i + 1 = j
        /\ p \in ms \/ \E j \in Later(q, i + 1) : Leaves(q, p, j)
    BY <1>2, <1>3 DEF Moving, Joins
  <2>2. ~Joins(q, p, 1)
    BY <1>1, <1>2, <2>1
  <2>3. ASSUME NEW j \in 1..Len(t), Joins(t, p, j) PROVE i = j
    <3>1. t[j] = q[j + 1] /\ j + 1 \in 1..Len(q)
      BY <1>1
    <3>2. i + 1 = j + 1
      BY <2>1, <2>3, <3>1 DEF Joins
    <3> QED  BY <3>2
  <2>4. ASSUME NEW k \in Later(q, i + 1), Leaves(q, p, k)
        PROVE  \E j \in Later(t, i) : Leaves(t, p, j)
    <3>1. k \in 1..Len(q) /\ i + 1 < k
      BY DEF Later
    <3>2. PICK j \in 1..(Len(q) - 1) : k = j + 1
      BY <1>1, <3>1
    <3>3. j \in Later(t, i) /\ t[j] = q[k]
      BY <1>1, <3>1, <3>2 DEF Later
    <3> QED  BY <2>4, <3>3 DEF Leaves
  <2> QED  BY <2>1, <2>2, <2>3, <2>4
<1>4. ASSUME Leaves(t, p, i) PROVE p \notin ms
  BY <1>2, <1>4 DEF Moving, Leaves
<1> QED  BY <1>3, <1>4

LEMMA PopViews ==
    ASSUME NEW q \in Seq(Heard), q # <<>>, NEW ms \in SUBSET PeerId, NEW ps, NEW ps2,
           NEW reqs, NEW reqs2, Moving(q, ms, ps), Viewed(q, ms, ps, reqs),
           \A p \in PeerId :
              /\ Dismissed(reqs, p) => Dismissed(reqs2, p)
              /\ Known(ps2, p) => (Known(ps, p) /\ ~Leaves(q, p, 1)) \/ Joins(q, p, 1)
              /\ Joins(q, p, 1) => Known(ps2, p)
              /\ Known(ps, p) /\ ~Known(ps2, p) => Dismissed(reqs2, p) \/ Leaves(q, p, 1)
    PROVE  Viewed(Tail(q), ms, ps2, reqs2)
<1>1. At(Tail(q), ms, 0) = At(q, ms, 1) /\ Len(q) \in Nat \ {0} /\ 1 \in 1..Len(q)
  BY PopAt, Reading
<1>2. Later(q, 0) = Later(q, 1) \cup {1} /\ \A j \in Later(q, 1) : j \in 1..Len(q) /\ j # 1
  BY <1>1 DEF Later
<1> SUFFICES ASSUME NEW p \in PeerId
             PROVE  /\ Known(ps2, p) => p \in At(q, ms, 1)
                    /\ p \in At(q, ms, 1) /\ ~Known(ps2, p) /\ p \in ms => Dismissed(reqs2, p)
  BY <1>1 DEF Viewed
<1>3. /\ p \in At(q, ms, 0) /\ ~Leaves(q, p, 1) => p \in At(q, ms, 1)
      /\ p \in At(q, ms, 1) /\ ~Joins(q, p, 1) => p \in At(q, ms, 0)
  BY <1>2 DEF At
<1>4. Joins(q, p, 1) => p \in At(q, ms, 1)
  <2> SUFFICES ASSUME Joins(q, p, 1) PROVE p \in At(q, ms, 1)
    OBVIOUS
  <2>1. /\ \A j \in 1..Len(q) : Joins(q, p, j) => 1 = j
        /\ p \in ms \/ \E j \in Later(q, 1) : Leaves(q, p, j)
    BY <1>1 DEF Moving
  <2> QED  BY <1>2, <2>1 DEF At
<1>5. Leaves(q, p, 1) => p \notin ms
  BY <1>1 DEF Moving
<1>6. /\ Known(ps, p) => p \in At(q, ms, 0)
      /\ p \in At(q, ms, 0) /\ ~Known(ps, p) /\ p \in ms => Dismissed(reqs, p)
  BY DEF Viewed
<1> QED  BY <1>3, <1>4, <1>5, <1>6

-----------------------------------------------------------------------------
(* The session: the steps of the page, of its viewers and of the server.     *)

LEMMA Removing ==
    ASSUME NEW P \in Viewer
    PROVE  /\ Removed(P) \in Viewer /\ Removed(P).life \in {"none", "gone"}
           /\ Removed(P).timer = FALSE /\ (Removed(P).life = "none" <=> P.life = "none")
           /\ P.life \notin {"none", "gone"} => Removed(P).life = "gone"
<1>1. PICK w \in {"none", "gone"} : w = IF P.life = "none" THEN P.life ELSE "gone"
  OBVIOUS
<1>2. Removed(P) = [P EXCEPT !.life = w, !.timer = FALSE]
  BY <1>1 DEF Removed
<1> QED  BY <1>1, <1>2 DEF Viewer, ViewerRecord

LEMMA Requests ==
    ASSUME NEW reqs \in Seq(Asked), NEW m \in Asked, NEW p
    PROVE  /\ Append(reqs, m) \in Seq(Asked)
           /\ Dismissed(reqs, p) => Dismissed(Append(reqs, m), p)
           /\ m = Ask("disconnect-peer", p) => Dismissed(Append(reqs, m), p)
<1> DEFINE Q == Append(reqs, m)
<1>1. /\ Q \in Seq(Asked) /\ Len(reqs) \in Nat /\ Len(Q) = Len(reqs) + 1
      /\ \A i \in 1..Len(reqs) : Q[i] = reqs[i] /\ i \in 1..(Len(reqs) + 1)
      /\ Q[Len(reqs) + 1] = m
  BY Appending
<1>2. Len(reqs) + 1 \in 1..(Len(reqs) + 1)
  BY <1>1
<1> HIDE DEF Q
<1>3. Dismissed(reqs, p) => Dismissed(Q, p)
  BY <1>1 DEF Dismissed
<1>4. m = Ask("disconnect-peer", p) => Dismissed(Q, p)
  BY <1>1, <1>2 DEF Dismissed
<1> QED  BY <1>1, <1>3, <1>4 DEF Q

(* The start of the session is the first request, and comes before all else. *)
Fresh(reqs, open) == \A i \in 1..Len(reqs) : reqs[i].type = "start" => i = 1 /\ ~open
LEMMA RequestsFresh ==
    ASSUME NEW reqs \in Seq(Asked), NEW m \in Asked, m.type # "start", NEW open, Fresh(reqs, open)
    PROVE  Fresh(Append(reqs, m), open)
<1> DEFINE Q == Append(reqs, m)
<1>1. /\ Len(Q) = Len(reqs) + 1 /\ Q[Len(reqs) + 1] = m
      /\ \A i \in 1..Len(reqs) : Q[i] = reqs[i]
      /\ \A i \in 1..(Len(reqs) + 1) : i \in 1..Len(reqs) \/ i = Len(reqs) + 1
  BY Appending
<1> HIDE DEF Q
<1> SUFFICES ASSUME NEW i \in 1..Len(Q), Q[i].type = "start" PROVE i = 1 /\ ~open
  BY DEF Fresh, Q
<1> QED  BY <1>1 DEF Fresh

LEMMA RequestsGrow ==
    ASSUME NEW reqs \in Seq(Asked), NEW reqs2, NEW open,
           \/ reqs2 = reqs
           \/ \E m \in Asked : m.type # "start" /\ reqs2 = Append(reqs, m)
    PROVE  /\ reqs2 \in Seq(Asked) /\ (Fresh(reqs, open) => Fresh(reqs2, open))
           /\ \A p : Dismissed(reqs, p) => Dismissed(reqs2, p)
<1>1. CASE reqs2 = reqs
  BY <1>1
<1>2. ASSUME NEW m \in Asked, m.type # "start", reqs2 = Append(reqs, m)
      PROVE  /\ reqs2 \in Seq(Asked) /\ (Fresh(reqs, open) => Fresh(reqs2, open))
             /\ \A p : Dismissed(reqs, p) => Dismissed(reqs2, p)
  <2>1. reqs2 \in Seq(Asked) /\ \A p : Dismissed(reqs, p) => Dismissed(reqs2, p)
    BY <1>2, Requests
  <2>2. Fresh(reqs, open) => Fresh(reqs2, open)
    BY <1>2, RequestsFresh
  <2> QED  BY <2>1, <2>2
<1> QED  BY <1>1, <1>2

LEMMA StopSession ==
    ASSUME SessionInv, NEW rs, NEW q, StopFrom(rs, q)
    PROVE  SessionInv'
<1>1. /\ active' = None /\ far' = NoShare /\ toSharer' = <<>> /\ toServer' = <<>>
      /\ peer' = [p \in PeerId |-> Removed(peer[p])] /\ broke' = broke
      /\ ui'.screen = "STOPPED" /\ ui' \in Page
  BY DEF StopFrom, Page
<1>2. peer \in [PeerId -> Viewer] /\ broke \subseteq PeerId
  BY DEF SessionInv, SessionTyped
<1>3. /\ peer' \in [PeerId -> Viewer]
      /\ \A p \in PeerId : peer'[p].life \in {"none", "gone"} /\ peer'[p].timer = FALSE
  BY <1>1, <1>2, Removing
<1>4. NoShare \in Far /\ NoShare.members = {} /\ ~NoShare.open
  BY SharerAssumption DEF NoShare, Far
<1>5. SessionTyped'
  BY <1>1, <1>2, <1>3, <1>4, FS_EmptySet DEF SessionTyped
<1>6. Off'
  BY <1>1, <1>3 DEF Off, Current
<1>7. Opened'
  BY <1>1, <1>4 DEF Opened
<1>8. SessionAgrees'
  <2>1. Counts(<<>>, {}) /\ Moving(<<>>, {}, peer') /\ Shown(<<>>, {}, ui')
    BY <1>1 DEF Counts, Moving, Shown
  <2>2. Viewed(<<>>, {}, peer', <<>>)
    BY <1>3 DEF Viewed, Known
  <2> QED  BY <1>1, <1>4, <2>1, <2>2 DEF SessionAgrees
<1> QED  BY <1>5, <1>6, <1>7, <1>8 DEF SessionInv

(* A step of the page that neither the server nor the viewers see, or one    *)
(* of the link.                                                              *)
Waiting == active # None /\ run[active].socket \in {"none", "opening"}
Kept ==
    /\ UNCHANGED <<peer, toSharer, toServer, broke>>
    /\ ui' \in Page /\ (ui'.screen = "SHARING" => ui.screen = "SHARING" /\ ui'.count = ui.count)
    /\ far' \in Far /\ far'.members = far.members /\ far'.open = far.open
    /\ active = None => far' = far
    /\ active' = None => active = None /\ ui'.screen = ui.screen
    /\ Waiting' => active = None \/ Waiting
LEMMA KeptSession ==
    ASSUME SessionInv, Kept
    PROVE  SessionInv'
<1>1. /\ peer' = peer /\ toSharer' = toSharer /\ toServer' = toServer /\ broke' = broke
      /\ ui' \in Page /\ far' \in Far /\ far'.members = far.members /\ far'.open = far.open
  BY DEF Kept
<1>2. SessionTyped'
  BY <1>1 DEF SessionInv, SessionTyped
<1>3. Off'
  BY <1>1 DEF Kept, SessionInv, Off, Current
<1>4. Opened'
  <2>1. Waiting' => ~far.open /\ toServer = <<>> /\ toSharer = <<>>
    <3>1. active = None => ~far.open /\ toServer = <<>> /\ toSharer = <<>>
      BY DEF SessionInv, Off, NoShare
    <3>2. Waiting => ~far.open /\ toServer = <<>> /\ toSharer = <<>>
      BY DEF SessionInv, Opened, Waiting
    <3> QED  BY <3>1, <3>2 DEF Kept
  <2> QED  BY <1>1, <2>1 DEF SessionInv, Opened, Waiting
<1>5. SessionAgrees'
  BY <1>1 DEF Kept, SessionInv, SessionAgrees, Shown
<1> QED  BY <1>2, <1>3, <1>4, <1>5 DEF SessionInv

LEMMA OpensSession ==
    ASSUME ShareInv, SessionInv, NEW r \in Run, Opens(r)
    PROVE  SessionInv'
<1>1. /\ run[r].socket = "opening" /\ run' = [run EXCEPT ![r].socket = "open", ![r].watchdog = TRUE]
      /\ toServer' = Append(toServer, Ask("start", None))
      /\ active' = active /\ ui' = ui /\ peer' = peer /\ far' = far /\ toSharer' = toSharer
      /\ broke' = broke
  BY DEF Opens, Send
<1>2. /\ run[r] \in RunObject /\ r = active /\ active # None /\ run'[r].socket = "open"
  <2>1. run[r] \in RunObject /\ Fits(run[r], r, active, capturing) /\ run \in [Run -> RunObject]
    BY DEF ShareInv, ShareTyped, Runs
  <2>2. r = active
    BY <1>1, <2>1 DEF Fits, Outlived
  <2>3. run'[r].socket = "open"
    BY <1>1, <2>1 DEF RunObject
  <2> QED  BY <2>1, <2>2, <2>3, SharerAssumption
<1>3. ~far.open /\ toServer = <<>> /\ toSharer = <<>>
  BY <1>1, <1>2 DEF SessionInv, Opened
<1> DEFINE m == Ask("start", None)
<1>4. m \in Asked /\ m.type = "start"
  BY DEF Ask, Asked, ToServer
<1>5. toServer \in Seq(Asked) /\ Len(toServer) = 0
  BY <1>3 DEF SessionInv, SessionTyped
<1> HIDE DEF m
<1>6. toServer' \in Seq(Asked) /\ Len(toServer') = 1
  BY <1>1, <1>4, <1>5 DEF m
<1>7. SessionTyped'
  BY <1>1, <1>6 DEF SessionInv, SessionTyped
<1>8. Off'
  BY <1>1, <1>2 DEF Off
<1>9. Opened'
  BY <1>1, <1>2, <1>3, <1>6 DEF SessionInv, Opened
<1>10. SessionAgrees'
  <2>1. \A p \in PeerId : Dismissed(toServer, p) => Dismissed(toServer', p)
    BY <1>1, <1>4, <1>5, Requests DEF m
  <2> QED  BY <1>1, <2>1 DEF SessionInv, SessionAgrees, Viewed
<1> QED  BY <1>7, <1>8, <1>9, <1>10 DEF SessionInv

(* A step of viewer p's negotiation, which leaves P of its entry.            *)
Negotiated(p, P) ==
    /\ UNCHANGED fixed /\ broke' \subseteq PeerId
    /\ P \in Viewer /\ peer' = [peer EXCEPT ![p] = P]
    /\ P.timer => peer[p].timer
    /\ P.life \notin {"none", "gone"} => Current(p)
    /\ P.life = "none" <=> peer[p].life = "none"
    /\ \/ toServer' = toServer /\ (Current(p) => P.life \notin {"none", "gone"})
       \/ \E m \in Asked :
             /\ m.type # "start" /\ Current(p) /\ toServer' = Append(toServer, m)
             /\ P.life \in {"none", "gone"} => m = Ask("disconnect-peer", p)
LEMMA NegotiatedSession ==
    ASSUME SessionInv, NEW p \in PeerId, NEW P, Negotiated(p, P)
    PROVE  SessionInv'
<1>1. /\ active' = active /\ ui' = ui /\ run' = run /\ far' = far /\ toSharer' = toSharer
      /\ broke' \subseteq PeerId /\ P \in Viewer /\ peer' = [peer EXCEPT ![p] = P]
      /\ P.timer => peer[p].timer
      /\ P.life \notin {"none", "gone"} => Current(p)
      /\ P.life = "none" <=> peer[p].life = "none"
  BY DEF Negotiated, fixed
<1>2. /\ peer' \in [PeerId -> Viewer] /\ peer'[p] = P
      /\ \A x \in PeerId : x # p => peer'[x] = peer[x]
      /\ toServer \in Seq(Asked) /\ toSharer \in Seq(Heard)
  BY <1>1 DEF SessionInv, SessionTyped
<1>3. \/ toServer' = toServer
      \/ \E m \in Asked : m.type # "start" /\ Current(p) /\ toServer' = Append(toServer, m)
  BY DEF Negotiated
<1>4. /\ toServer' \in Seq(Asked)
      /\ \A x \in PeerId : Dismissed(toServer, x) => Dismissed(toServer', x)
      /\ Fresh(toServer, far.open) => Fresh(toServer', far.open)
  BY <1>2, <1>3, RequestsGrow
<1>5. SessionTyped'
  BY <1>1, <1>2, <1>4 DEF SessionInv, SessionTyped
<1>6. Off'
  BY <1>1, <1>2, <1>3 DEF SessionInv, Off, Current
<1>7. Waiting => ~Current(p)
  <2> SUFFICES ASSUME Waiting, Current(p) PROVE FALSE
    OBVIOUS
  <2>1. ~far.open /\ toSharer = <<>> /\ far.members = {}
    BY DEF Waiting, SessionInv, Opened
  <2>2. p \in At(toSharer, far.members, 0)
    BY DEF SessionInv, SessionAgrees, Viewed, Known, Current
  <2>3. Later(toSharer, 0) = {}
    BY <2>1 DEF Later
  <2> QED  BY <2>1, <2>2, <2>3 DEF At
<1>8. Opened'
  <2>1. Waiting' = Waiting
    BY <1>1 DEF Waiting
  <2>2. Waiting => toServer' = toServer
    BY <1>3, <1>7
  <2> QED  BY <1>1, <1>4, <2>1, <2>2 DEF SessionInv, Opened, Waiting, Fresh
<1>9. SessionAgrees'
  <2>1. Moving(toSharer, far.members, peer')
    <3>1. \A x \in PeerId : peer'[x].life = "none" <=> peer[x].life = "none"
      BY <1>1, <1>2
    <3> QED  BY <3>1 DEF SessionInv, SessionAgrees, Moving
  <2>2. ASSUME Known(peer, p), ~Known(peer', p) PROVE Dismissed(toServer', p)
    <3>1. PICK m \in Asked : toServer' = Append(toServer, m) /\ m = Ask("disconnect-peer", p)
      BY <1>2, <2>2 DEF Negotiated, Known, Current
    <3> QED  BY <1>2, <3>1, Requests
  <2>3. \A x \in PeerId : /\ Known(peer', x) => Known(peer, x)
                          /\ Known(peer, x) /\ ~Known(peer', x) => Dismissed(toServer', x)
    BY <1>1, <1>2, <2>2 DEF Known, Current
  <2>4. Viewed(toSharer, far.members, peer', toServer')
    BY <1>4, <2>3 DEF SessionInv, SessionAgrees, Viewed
  <2> QED  BY <1>1, <2>1, <2>4 DEF SessionInv, SessionAgrees
<1> QED  BY <1>5, <1>6, <1>8, <1>9 DEF SessionInv

(* The page has read a message of the server. *)
Got ==
    /\ active # None /\ active' = active /\ run'[active].socket = "open"
    /\ far' = far /\ toSharer # <<>> /\ toSharer' = Tail(toSharer)
    /\ ui' \in Page /\ peer' \in [PeerId -> Viewer] /\ broke' \subseteq PeerId
    /\ \/ toServer' = toServer
       \/ \E m \in Asked : m.type # "start" /\ toServer' = Append(toServer, m)
    /\ Shown(toSharer', far.members, ui')
    /\ \A p \in PeerId :
          /\ peer[p].life = "none" /\ ~Joins(toSharer, p, 1) => peer'[p].life = "none"
          /\ Known(peer', p) =>
                (Known(peer, p) /\ ~Leaves(toSharer, p, 1)) \/ Joins(toSharer, p, 1)
          /\ Joins(toSharer, p, 1) => Known(peer', p)
          /\ Known(peer, p) /\ ~Known(peer', p) =>
                Dismissed(toServer', p) \/ Leaves(toSharer, p, 1)
LEMMA GotSession ==
    ASSUME SessionInv, Got
    PROVE  SessionInv'
<1>1. /\ toSharer \in Seq(Heard) /\ toSharer # <<>> /\ toSharer' = Tail(toSharer)
      /\ far.members \in SUBSET PeerId /\ far' = far /\ toServer \in Seq(Asked)
      /\ active # None /\ active' = active /\ run'[active].socket = "open"
  BY DEF Got, SessionInv, SessionTyped, Far
<1>2. \/ toServer' = toServer
      \/ \E m \in Asked : m.type # "start" /\ toServer' = Append(toServer, m)
  BY DEF Got
<1>3. /\ toServer' \in Seq(Asked)
      /\ \A x \in PeerId : Dismissed(toServer, x) => Dismissed(toServer', x)
      /\ Fresh(toServer, far.open) => Fresh(toServer', far.open)
  BY <1>1, <1>2, RequestsGrow
<1>4. Tail(toSharer) \in Seq(Heard)
  BY <1>1, Reading
<1>5. SessionTyped'
  BY <1>1, <1>3, <1>4 DEF Got, SessionInv, SessionTyped
<1>6. Off'
  BY <1>1 DEF Off
<1>7. Opened'
  <2>1. far.open
    BY <1>1 DEF SessionInv, Opened
  <2> QED  BY <1>1, <1>3, <2>1 DEF SessionInv, Opened, Fresh
<1>8. SessionAgrees'
  <2>1. Counts(Tail(toSharer), far.members)
    BY <1>1, PopCounts DEF SessionInv, SessionAgrees
  <2>2. Moving(Tail(toSharer), far.members, peer')
    BY <1>1, PopMoving DEF Got, SessionInv, SessionAgrees
  <2>3. Viewed(Tail(toSharer), far.members, peer', toServer')
    BY <1>1, <1>3, PopViews DEF Got, SessionInv, SessionAgrees
  <2> QED  BY <1>1, <2>1, <2>2, <2>3 DEF Got, SessionAgrees
<1> QED  BY <1>5, <1>6, <1>7, <1>8 DEF SessionInv

(* The server has told the page something, perhaps at the page's request.    *)
Answers ==
    /\ toServer # <<>> /\ toServer' = Tail(toServer)
    /\ Head(toServer).type = "disconnect-peer" => Head(toServer).peer \notin far'.members
Said(m) ==
    /\ UNCHANGED ours /\ broke' \subseteq PeerId
    /\ far' \in Far /\ IsFiniteSet(far'.members) /\ far'.open
    /\ m \in Heard /\ toSharer' = Append(toSharer, m)
    /\ Brings(toSharer, m, far.members, far'.members)
    /\ m.type = "viewer-joined" => peer[m.peer].life = "none"
    /\ \/ far.open /\ toServer' = toServer
       \/ Answers

LEMMA RequestHandled ==
    ASSUME SessionInv, Answers
    PROVE  /\ toServer' \in Seq(Asked) /\ \A open : Fresh(toServer', open)
           /\ \A p \in PeerId : Dismissed(toServer, p) /\ p \in far'.members
                                => Dismissed(toServer', p)
           /\ active # None /\ ~Waiting
           /\ Head(toServer).type # "start" => Fresh(toServer, far.open)
<1> DEFINE t == Tail(toServer)
<1>1. /\ t \in Seq(Asked) /\ Head(toServer) = toServer[1] /\ toServer' = t
      /\ Len(toServer) \in Nat \ {0} /\ Len(t) = Len(toServer) - 1
      /\ \A i \in 1..(Len(toServer) - 1) : t[i] = toServer[i + 1] /\ i + 1 \in 1..Len(toServer)
      /\ \A i \in 1..Len(toServer) : i = 1 \/ \E j \in 1..(Len(toServer) - 1) : i = j + 1
  BY Reading DEF Answers, SessionInv, SessionTyped
<1> HIDE DEF t
<1>2. \A i \in 1..Len(t) : t[i].type # "start"
  <2> SUFFICES ASSUME NEW i \in 1..Len(t), t[i].type = "start" PROVE FALSE
    OBVIOUS
  <2>1. t[i] = toServer[i + 1] /\ i + 1 \in 1..Len(toServer) /\ i + 1 # 1
    BY <1>1
  <2> QED  BY <2>1 DEF SessionInv, Opened
<1>3. ASSUME NEW p \in PeerId, Dismissed(toServer, p), p \in far'.members PROVE Dismissed(t, p)
  <2>1. PICK i \in 1..Len(toServer) : toServer[i] = Ask("disconnect-peer", p)
    BY <1>3 DEF Dismissed
  <2>2. toServer[i].type = "disconnect-peer" /\ toServer[i].peer = p
    BY <2>1 DEF Ask
  <2>3. i # 1
    BY <1>1, <1>3, <2>2 DEF Answers
  <2>4. PICK j \in 1..(Len(toServer) - 1) : i = j + 1
    BY <1>1, <2>3
  <2>5. j \in 1..Len(t) /\ t[j] = toServer[i]
    BY <1>1, <2>4
  <2> QED  BY <2>1, <2>5 DEF Dismissed
<1>4. active # None /\ ~Waiting
  BY DEF Answers, Waiting, SessionInv, Off, Opened
<1>5. Fresh(toServer, far.open)
  BY DEF SessionInv, Opened, Fresh
<1> QED  BY <1>1, <1>2, <1>3, <1>4, <1>5 DEF Fresh

LEMMA SaidSession ==
    ASSUME SessionInv, NEW m, Said(m)
    PROVE  SessionInv'
<1>1. /\ active' = active /\ ui' = ui /\ run' = run /\ peer' = peer
      /\ toSharer \in Seq(Heard) /\ m \in Heard /\ toSharer' = Append(toSharer, m)
      /\ far.members \in SUBSET PeerId /\ far'.members \in SUBSET PeerId /\ far'.open
      /\ Brings(toSharer, m, far.members, far'.members)
      /\ toServer \in Seq(Asked)
  BY DEF Said, ours, SessionInv, SessionTyped, Far
<1>2. /\ toServer' \in Seq(Asked) /\ Fresh(toServer', TRUE)
      /\ \A p \in PeerId : Dismissed(toServer, p) /\ p \in far'.members => Dismissed(toServer', p)
      /\ active # None /\ ~Waiting
  <2>1. CASE Answers
    BY <2>1, RequestHandled
  <2>2. CASE far.open /\ toServer' = toServer
    <3>1. active # None /\ ~Waiting
      BY <2>2 DEF Waiting, SessionInv, Off, Opened, NoShare
    <3> QED  BY <1>1, <2>2, <3>1 DEF SessionInv, Opened, Fresh
  <2> QED  BY <2>1, <2>2 DEF Said
<1>3. toSharer' \in Seq(Heard)
  BY <1>1, Appending
<1>4. SessionTyped'
  BY <1>1, <1>2, <1>3 DEF Said, SessionInv, SessionTyped
<1>5. Off'
  BY <1>1, <1>2 DEF Off
<1>6. Opened'
  BY <1>1, <1>2 DEF Opened, Waiting, Fresh
<1>7. SessionAgrees'
  <2>1. Counts(toSharer', far'.members) /\ Shown(toSharer', far'.members, ui)
    BY <1>1, BringsCounts DEF SessionInv, SessionAgrees
  <2>2. Moving(toSharer', far'.members, peer)
    BY <1>1, BringsMoving DEF Said, SessionInv, SessionAgrees
  <2>3. Viewed(toSharer', far'.members, peer, toServer')
    BY <1>1, <1>2, BringsViews DEF SessionInv, SessionAgrees
  <2> QED  BY <1>1, <2>1, <2>2, <2>3 DEF SessionAgrees
<1> QED  BY <1>4, <1>5, <1>6, <1>7 DEF SessionInv

(* The server has handled a request without a word to the page. *)
Taken ==
    /\ UNCHANGED <<ours, toSharer, broke>> /\ Answers /\ Head(toServer).type # "start"
    /\ far' \in Far /\ far'.members = far.members /\ far'.open = far.open
LEMMA TakenSession ==
    ASSUME SessionInv, Taken
    PROVE  SessionInv'
<1>1. /\ active' = active /\ ui' = ui /\ run' = run /\ peer' = peer /\ toSharer' = toSharer
      /\ broke' = broke /\ far' \in Far /\ far'.members = far.members /\ far'.open = far.open
      /\ Answers
  BY DEF Taken, ours
<1>2. /\ toServer' \in Seq(Asked) /\ \A open : Fresh(toServer', open)
      /\ \A p \in PeerId : Dismissed(toServer, p) /\ p \in far.members => Dismissed(toServer', p)
      /\ active # None /\ ~Waiting
  BY <1>1, RequestHandled
<1>3. SessionTyped'
  BY <1>1, <1>2 DEF SessionInv, SessionTyped
<1>4. Off'
  BY <1>1, <1>2 DEF Off
<1>5. Opened'
  BY <1>1, <1>2 DEF SessionInv, Opened, Waiting, Fresh
<1>6. SessionAgrees'
  BY <1>1, <1>2 DEF SessionInv, SessionAgrees, Viewed
<1> QED  BY <1>3, <1>4, <1>5, <1>6 DEF SessionInv

-----------------------------------------------------------------------------
(* The steps, one by one. *)

(* A step of a start handler, of the capture or of the audio chain that      *)
(* leaves the share running.                                                 *)
Handles ==
    /\ UNCHANGED <<active, share>> /\ ui' \in Page
    /\ \/ ui'.screen = ui.screen /\ ui'.count = ui.count
       \/ ui'.screen \in {"CHOOSING", "CONNECTING"} /\ active # None
    /\ \A x \in Run : run'[x].socket = run[x].socket \/ run[x].socket = "none"
LEMMA HandlesSession ==
    ASSUME ShareInv, SessionInv, Handles
    PROVE  SessionInv'
<1>1. /\ active' = active /\ peer' = peer /\ far' = far /\ toSharer' = toSharer
      /\ toServer' = toServer /\ broke' = broke
  BY DEF Handles, share
<1>2. Waiting' => Waiting
  <2> SUFFICES ASSUME Waiting' PROVE Waiting
    OBVIOUS
  <2>1. active \in Run /\ active # None /\ run'[active].socket \in {"none", "opening"}
    BY <1>1 DEF Waiting, ShareInv, ShareTyped
  <2> QED  BY <2>1 DEF Handles, Waiting
<1>3. far \in Far
  BY DEF SessionInv, SessionTyped
<1>4. Kept
  BY <1>1, <1>2, <1>3 DEF Handles, Kept
<1> QED  BY <1>4, KeptSession

LEMMA GotoSocket ==
    ASSUME ShareTyped, NEW r, NEW where, NEW x \in Run
    PROVE  Goto(r, where)[x].socket = run[x].socket
<1>1. run[x] \in RunObject /\ run \in [Run -> RunObject]
  BY DEF ShareTyped
<1>2. CASE r = x
  <2>1. Goto(r, where)[x] = [run[x] EXCEPT !.phase = where]
    BY <1>1, <1>2 DEF Goto
  <2> QED  BY <1>1, <2>1 DEF RunObject
<1>3. CASE r # x
  BY <1>1, <1>3 DEF Goto
<1> QED  BY <1>2, <1>3

LEMMA StopIfActiveSession ==
    ASSUME SessionInv, NEW r, StopIfActive(r)
    PROVE  SessionInv'
<1>1. CASE Stop
  BY <1>1, StopSession DEF Stop
<1>2. CASE UNCHANGED vars
  <2>1. Kept
    BY <1>2 DEF vars, audio, share, Kept, Waiting, SessionInv, SessionTyped
  <2> QED  BY <2>1, KeptSession
<1> QED  BY <1>1, <1>2 DEF StopIfActive

LEMMA StartClickedSession ==
    ASSUME ShareInv, SessionInv, NEW r \in Run, StartClicked(r)
    PROVE  SessionInv'
<1>1. /\ active = None /\ active' = r /\ r # None
      /\ ui' = [ui EXCEPT !.startable = FALSE, !.screen = "CHOOSING"]
      /\ UNCHANGED <<peer, far, toSharer, toServer, broke>> /\ ui \in Page /\ far \in Far
  BY SharerAssumption DEF StartClicked, share, SessionInv, SessionTyped
<1>2. ui' \in Page /\ ui'.screen = "CHOOSING"
  BY <1>1 DEF Page
<1>3. Kept
  BY <1>1, <1>2 DEF Kept
<1> QED  BY <1>3, KeptSession

LEMMA HandlerSession ==
    ASSUME ShareInv, SessionInv, NEW r \in Run,
           PickerReturns(r) \/ WorkletReady(r) \/ ConstraintsApplied(r) \/ StartFails(r)
    PROVE  SessionInv'
<1>0. /\ ShareTyped /\ run \in [Run -> RunObject] /\ ui \in Page
      /\ \A x \in Run : run[x] \in RunObject /\ Fits(run[x], x, active, capturing)
  BY DEF ShareInv, ShareTyped, Runs, SessionInv, SessionTyped
<1>1. CASE \E rs, q : StopFrom(rs, q)
  BY <1>1, StopSession
<1>2. CASE UNCHANGED <<active, ui, share>> /\ \E where : run' = Goto(r, where)
  BY <1>0, <1>2, GotoSocket, HandlesSession DEF Handles
<1>3. CASE UNCHANGED <<active, ui, share>>
           /\ \E where, what : run' = [Goto(r, where) EXCEPT ![r].stream = what]
  <2>1. PICK where, what : run' = [Goto(r, where) EXCEPT ![r].stream = what]
    BY <1>3
  <2>2. run' = [run EXCEPT ![r] = [run[r] EXCEPT !.phase = where, !.stream = what]]
    BY <1>0, <2>1 DEF Goto
  <2>3. \A x \in Run : run'[x].socket = run[x].socket
    BY <1>0, <2>2 DEF RunObject
  <2> QED  BY <1>0, <1>3, <2>3, HandlesSession DEF Handles
<1>4. CASE /\ run[r].phase = "constraints" /\ active = r
           /\ ui' = [ui EXCEPT !.screen = "CONNECTING"]
           /\ run' = [Goto(r, "done") EXCEPT ![r].socket = "opening", ![r].timer = TRUE]
           /\ UNCHANGED <<active, share>>
  <2>1. run[r].socket = "none"
    BY <1>0, <1>4 DEF Fits
  <2>2. \A x \in Run : x # r => run'[x] = run[x]
    BY <1>0, <1>4 DEF Goto
  <2>3. ui' \in Page /\ ui'.screen = "CONNECTING" /\ active # None
    BY <1>0, <1>4, SharerAssumption DEF Page
  <2> QED  BY <1>4, <2>1, <2>2, <2>3, HandlesSession DEF Handles
<1>5. CASE PickerReturns(r)
  BY <1>1, <1>2, <1>3, <1>5 DEF PickerReturns
<1>6. CASE WorkletReady(r)
  BY <1>1, <1>2, <1>6 DEF WorkletReady
<1>7. CASE ConstraintsApplied(r)
  BY <1>1, <1>2, <1>4, <1>7 DEF ConstraintsApplied, Returns, TooLate
<1>8. CASE StartFails(r)
  BY <1>1, <1>2, <1>8 DEF StartFails
<1> QED  BY <1>5, <1>6, <1>7, <1>8

LEMMA EndsSession ==
    ASSUME ShareInv, SessionInv, NEW r \in Run, TrackEnds(r) \/ ContextSuspends(r)
    PROVE  SessionInv'
<1>0. run \in [Run -> RunObject] /\ ui \in Page /\ \A x \in Run : run[x] \in RunObject
  BY DEF ShareInv, ShareTyped, SessionInv, SessionTyped
<1>1. CASE StopIfActive(r)
  BY <1>1, StopIfActiveSession
<1>2. CASE UNCHANGED <<active, ui, share>>
           /\ \/ run' = [run EXCEPT ![r].stream = "ended"]
              \/ run' = [run EXCEPT ![r].context = "suspended"]
  <2>1. \A x \in Run : run'[x].socket = run[x].socket
    BY <1>0, <1>2 DEF RunObject
  <2> QED  BY <1>0, <1>2, <2>1, HandlesSession DEF Handles
<1> QED  BY <1>1, <1>2 DEF TrackEnds, ContextSuspends

LEMMA AudioSession ==
    ASSUME ShareInv, SessionInv, AudioChain
    PROVE  SessionInv'
<1>0. ShareTyped /\ ui \in Page
  BY DEF ShareInv, SessionInv, SessionTyped
<1>1. CASE UNCHANGED <<active, ui, share>> /\ (run' = run \/ \E r, where : run' = Goto(r, where))
  BY <1>0, <1>1, GotoSocket, HandlesSession DEF Handles
<1>2. CASE \E rs, q : StopFrom(rs, q)
  BY <1>2, StopSession
<1>3. CASE AudioStops
  <2>1. ui' = [ui EXCEPT !.startable = Reenabled] /\ Reenabled \in BOOLEAN
    BY <1>0, <1>3 DEF AudioStops, Reenabled, Page
  <2>2. ui' \in Page /\ ui'.screen = ui.screen /\ ui'.count = ui.count
    BY <1>0, <2>1 DEF Page
  <2> QED  BY <1>3, <2>2, HandlesSession DEF AudioStops, Handles
<1>4. CASE AudioOpBegins
  BY <1>1, <1>4 DEF AudioOpBegins
<1>5. CASE AudioStarts
  BY <1>1, <1>5 DEF AudioStarts
<1>6. CASE AudioRefused
  BY <1>1, <1>2, <1>6 DEF AudioRefused
<1> QED  BY <1>3, <1>4, <1>5, <1>6 DEF AudioChain

(* The entries that the negotiation's steps leave. *)
Same(P, Q) == Q.life = P.life /\ Q.timer = P.timer
LEMMA Entries ==
    ASSUME NEW P \in Viewer
    PROVE  /\ P.queue \in Seq(Heard) /\ P.ice \in Seq(Nat) /\ P.adding \in Seq(Nat)
           /\ P.added \in Seq(Nat)
           /\ \A w \in {"creating", "local", "offered", "answered", "connected"} :
                 [P EXCEPT !.life = w] \in Viewer
           /\ [P EXCEPT !.iced = TRUE] \in Viewer
           /\ \A b \in BOOLEAN : [P EXCEPT !.timer = b] \in Viewer
           /\ \A q \in Seq(Heard) : [P EXCEPT !.queue = q] \in Viewer
           /\ \A q \in Seq(Nat) : /\ [P EXCEPT !.ice = q] \in Viewer
                                  /\ [P EXCEPT !.added = q] \in Viewer
                                  /\ q # <<>> => [P EXCEPT !.step = "late", !.adding = q] \in Viewer
           /\ [P EXCEPT !.step = "answer"] \in Viewer
           /\ Abandon(P) \in Viewer
           /\ \A rest \in Seq(Nat) : NextCandidate(P, rest) \in Viewer
<1>1. <<>> \in Numbered
  BY DEF Numbered
<1>2. \A rest \in Numbered : NextCandidate(P, rest) \in Viewer
  <2> SUFFICES ASSUME NEW rest \in Numbered PROVE NextCandidate(P, rest) \in Viewer
    OBVIOUS
  <2>1. PICK w \in {"idle", "early"} : w = IF rest = <<>> THEN "idle" ELSE "early"
    OBVIOUS
  <2>2. NextCandidate(P, rest) = [P EXCEPT !.adding = rest, !.step = w]
    BY <2>1 DEF NextCandidate
  <2> QED  BY <2>1, <2>2 DEF Viewer, ViewerRecord
<1>3. Abandon(P) \in Viewer
  BY <1>1 DEF Abandon, Viewer, ViewerRecord
<1>4. /\ P.queue \in Queues /\ P.ice \in Numbered /\ P.adding \in Numbered
      /\ P.added \in Numbered
  BY DEF Viewer, ViewerRecord
<1>5. /\ \A w \in {"creating", "local", "offered", "answered", "connected"} :
             [P EXCEPT !.life = w] \in Viewer
      /\ [P EXCEPT !.iced = TRUE] \in Viewer
      /\ \A b \in BOOLEAN : [P EXCEPT !.timer = b] \in Viewer
      /\ \A q \in Queues : [P EXCEPT !.queue = q] \in Viewer
      /\ [P EXCEPT !.step = "answer"] \in Viewer
  BY DEF Viewer, ViewerRecord
<1>6. \A q \in Numbered : /\ [P EXCEPT !.ice = q] \in Viewer
                          /\ [P EXCEPT !.added = q] \in Viewer
                          /\ q # <<>> => [P EXCEPT !.step = "late", !.adding = q] \in Viewer
  BY DEF Viewer, ViewerRecord
<1> QED  BY <1>2, <1>3, <1>4, <1>5, <1>6 DEF Queues, Numbered

(* A step that leaves whether viewer p is the page's, and asks for nothing   *)
(* or for something else than its end.                                       *)
LEMMA BecomesSession ==
    ASSUME SessionInv, NEW p \in PeerId, NEW P, P \in Viewer, Becomes(p, P),
           P.timer => peer[p].timer,
           \/ P.life = peer[p].life
           \/ Current(p) /\ P.life \notin {"none", "gone"},
           \/ toServer' = toServer
           \/ Current(p) /\ \E t \in {"offer", "ice"} : Send(Ask(t, p))
    PROVE  SessionInv'
<1>1. \A t \in {"offer", "ice"} : Ask(t, p) \in Asked /\ Ask(t, p).type # "start"
  BY DEF Ask, Asked, ToServer
<1>2. /\ UNCHANGED fixed /\ broke' = broke /\ peer' = [peer EXCEPT ![p] = P]
      /\ broke \subseteq PeerId
  BY DEF Becomes, SessionInv, SessionTyped
<1>3. /\ P.life \notin {"none", "gone"} <=> Current(p)
      /\ P.life = "none" <=> peer[p].life = "none"
  BY DEF Current
<1>4. \/ toServer' = toServer
      \/ \E m \in Asked : m.type # "start" /\ Current(p) /\ toServer' = Append(toServer, m)
  BY <1>1 DEF Send
<1>5. Negotiated(p, P)
  BY <1>2, <1>3, <1>4 DEF Negotiated
<1> QED  BY <1>5, NegotiatedSession

LEMMA FailSession ==
    ASSUME SessionInv, NEW p \in PeerId, NEW P \in Viewer, P.life = peer[p].life, Current(p),
           FailPeer(p, P), UNCHANGED fixed
    PROVE  SessionInv'
<1> DEFINE m == Ask("disconnect-peer", p)
<1>1. m \in Asked /\ m.type # "start"
  BY DEF Ask, Asked, ToServer
<1>2. /\ peer' = [peer EXCEPT ![p] = Removed(P)] /\ toServer' = Append(toServer, m)
      /\ broke' \subseteq PeerId
  BY DEF FailPeer, Send, SessionInv, SessionTyped
<1> HIDE DEF m
<1>3. /\ Removed(P) \in Viewer /\ Removed(P).life = "gone" /\ Removed(P).timer = FALSE
      /\ P.life # "none"
  BY Removing DEF Current
<1>4. Negotiated(p, Removed(P))
  BY <1>1, <1>2, <1>3 DEF Negotiated, Current, m
<1> QED  BY <1>4, NegotiatedSession

LEMMA NegotiationSession ==
    ASSUME SessionInv, NEW p \in PeerId,
           \/ OfferCreated(p) \/ OfferSet(p) \/ PeerConnects(p) \/ LocalCandidate(p)
           \/ AnswerSet(p) \/ CandidateAdded(p) \/ NegotiationFails(p) \/ PeerFails(p)
    PROVE  SessionInv'
<1>0. peer[p] \in Viewer /\ peer[p] \in ViewerRecord
  BY DEF SessionInv, SessionTyped, Viewer
<1>1. CASE OfferCreated(p)
  <2> DEFINE P == [peer[p] EXCEPT !.life = "local"]
  <2>1. P \in Viewer /\ P.life = "local" /\ P.timer = peer[p].timer
    BY <1>0, Entries DEF ViewerRecord
  <2>2. Current(p) /\ Becomes(p, P) /\ toServer' = toServer
    BY <1>1 DEF OfferCreated, Current
  <2> HIDE DEF P
  <2> QED  BY <2>1, <2>2, BecomesSession
<1>2. CASE OfferSet(p)
  <2> DEFINE P == [peer[p] EXCEPT !.life = "offered"]
  <2>1. P \in Viewer /\ P.life = "offered" /\ P.timer = peer[p].timer
    BY <1>0, Entries DEF ViewerRecord
  <2>2. Current(p) /\ Becomes(p, P) /\ Send(Ask("offer", p))
    BY <1>2 DEF OfferSet, Current
  <2> HIDE DEF P
  <2> QED  BY <2>1, <2>2, BecomesSession
<1>3. CASE PeerConnects(p)
  <2> DEFINE P == [peer[p] EXCEPT !.life = "connected", !.timer = FALSE]
  <2>1. P \in Viewer /\ P.life = "connected" /\ P.timer = FALSE
    BY <1>0 DEF Viewer, ViewerRecord
  <2>2. Current(p) /\ Becomes(p, P) /\ toServer' = toServer
    BY <1>3 DEF PeerConnects, Current
  <2> HIDE DEF P
  <2> QED  BY <2>1, <2>2, BecomesSession
<1>4. CASE LocalCandidate(p)
  <2> DEFINE P == [peer[p] EXCEPT !.iced = TRUE]
  <2>1. P \in Viewer /\ P.life = peer[p].life /\ P.timer = peer[p].timer
    BY <1>0, Entries DEF ViewerRecord
  <2>2. Current(p) /\ Becomes(p, P) /\ Send(Ask("ice", p))
    BY <1>4 DEF LocalCandidate, Current, RemoteSet
  <2> HIDE DEF P
  <2> QED  BY <2>1, <2>2, BecomesSession
<1>5. Abandon(peer[p]) \in Viewer /\ Same(peer[p], Abandon(peer[p]))
  BY <1>0, Entries DEF Abandon, ViewerRecord, Same
<1>6. CASE AnswerSet(p)
  <2>1. toServer' = toServer
    BY <1>6 DEF AnswerSet
  <2>2. CASE Current(p)
    <3> DEFINE N == NextCandidate(peer[p], peer[p].ice)
               P == [N EXCEPT !.life = "answered", !.ice = <<>>]
    <3>1. N \in Viewer /\ N.timer = peer[p].timer
      BY <1>0, Entries DEF NextCandidate, ViewerRecord
    <3>2. Becomes(p, P)
      BY <1>6, <2>2 DEF AnswerSet, Answered
    <3> HIDE DEF N
    <3>3. <<>> \in Numbered
      BY DEF Numbered
    <3>4. P \in Viewer /\ P.life = "answered" /\ P.timer = N.timer
      BY <3>1, <3>3 DEF Viewer, ViewerRecord
    <3> HIDE DEF P
    <3> QED  BY <2>1, <2>2, <3>1, <3>2, <3>4, BecomesSession
  <2>3. CASE ~Current(p)
    <3>1. Becomes(p, Abandon(peer[p]))
      BY <1>6, <2>3 DEF AnswerSet
    <3> QED  BY <1>5, <2>1, <3>1, BecomesSession DEF Same
  <2> QED  BY <2>2, <2>3
<1>7. CASE CandidateAdded(p)
  <2> DEFINE q == Append(peer[p].added, Head(peer[p].adding))
             P == [peer[p] EXCEPT !.added = q]
  <2>1. toServer' = toServer /\ peer[p].step \in {"early", "late"}
    BY <1>7 DEF CandidateAdded
  <2>2. peer[p].adding \in Seq(Nat) /\ peer[p].adding # <<>> /\ peer[p].added \in Seq(Nat)
    BY <1>0, <2>1, Entries DEF Viewer
  <2>3. q \in Seq(Nat) /\ Tail(peer[p].adding) \in Seq(Nat)
    BY <2>2, Reading, Appending
  <2>4. Becomes(p, IF Current(p) THEN NextCandidate(P, Tail(P.adding)) ELSE Abandon(P))
    BY <1>7 DEF CandidateAdded
  <2> HIDE DEF q
  <2>5. P \in Viewer /\ Same(peer[p], P) /\ P.adding = peer[p].adding
    BY <1>0, <2>3, Entries DEF Same, ViewerRecord
  <2> HIDE DEF P
  <2>6. /\ Abandon(P) \in Viewer /\ NextCandidate(P, Tail(P.adding)) \in Viewer
        /\ Same(P, Abandon(P)) /\ Same(P, NextCandidate(P, Tail(P.adding)))
    <3>1. P \in ViewerRecord /\ Tail(P.adding) \in Seq(Nat)
      BY <2>3, <2>5 DEF Viewer
    <3>2. Abandon(P) \in Viewer /\ NextCandidate(P, Tail(P.adding)) \in Viewer
      BY <2>5, <3>1, Entries
    <3>3. Same(P, Abandon(P)) /\ Same(P, NextCandidate(P, Tail(P.adding)))
      BY <3>1 DEF Same, Abandon, NextCandidate, ViewerRecord
    <3> QED  BY <3>2, <3>3
  <2>7. CASE Current(p)
    <3>1. Becomes(p, NextCandidate(P, Tail(P.adding)))
      BY <2>4, <2>7
    <3> QED  BY <2>1, <2>5, <2>6, <3>1, BecomesSession DEF Same
  <2>8. CASE ~Current(p)
    <3>1. Becomes(p, Abandon(P))
      BY <2>4, <2>8
    <3> QED  BY <2>1, <2>5, <2>6, <3>1, BecomesSession DEF Same
  <2> QED  BY <2>7, <2>8
<1>8. CASE NegotiationFails(p)
  <2> DEFINE A == Abandon(peer[p])
             P == [A EXCEPT !.queue = <<>>]
  <2>1. <<>> \in Seq(Heard)
    OBVIOUS
  <2>2. A \in Viewer /\ Same(peer[p], A)
    BY <1>5
  <2>3. IF Current(p) THEN FailPeer(p, P) /\ UNCHANGED fixed
        ELSE Becomes(p, P) /\ toServer' = toServer
    BY <1>8 DEF NegotiationFails
  <2> HIDE DEF A
  <2>4. P \in Viewer /\ Same(A, P)
    <3>1. A \in ViewerRecord
      BY <2>2 DEF Viewer
    <3>2. P \in Viewer
      BY <2>1, <2>2, Entries
    <3>3. Same(A, P)
      BY <3>1 DEF Same, ViewerRecord
    <3> QED  BY <3>2, <3>3
  <2> HIDE DEF P
  <2>5. CASE Current(p)
    BY <2>2, <2>3, <2>4, <2>5, FailSession DEF Same
  <2>6. CASE ~Current(p)
    BY <2>2, <2>3, <2>4, <2>6, BecomesSession DEF Same
  <2> QED  BY <2>5, <2>6
<1>9. CASE PeerFails(p)
  BY <1>0, <1>9, FailSession DEF PeerFails
<1> QED  BY <1>1, <1>2, <1>3, <1>4, <1>6, <1>7, <1>8, <1>9

LEMMA MicrotaskSession ==
    ASSUME SessionInv, NEW p \in PeerId, Microtask(p)
    PROVE  SessionInv'
<1>0. peer[p] \in Viewer /\ peer[p] \in ViewerRecord
  BY DEF SessionInv, SessionTyped, Viewer
<1> DEFINE m == Head(peer[p].queue)
           q == Tail(peer[p].queue)
           P == [peer[p] EXCEPT !.queue = q]
<1>1. peer[p].queue # <<>> /\ peer[p].step = "idle" /\ toServer' = toServer
  BY DEF Microtask, Ready
<1>2. q \in Seq(Heard) /\ m \in Heard
  BY <1>0, <1>1, Entries, Reading
<1>3. m.n \in Nat
  BY <1>2 DEF Heard, ToSharer
<1>4. \/ Becomes(p, P)
      \/ Current(p) /\ Becomes(p, [P EXCEPT !.step = IF P.life = "offered" THEN "answer" ELSE @])
      \/ Becomes(p, [P EXCEPT !.step = "late", !.adding = <<m.n>>])
      \/ Becomes(p, [P EXCEPT !.ice = Append(@, m.n)])
  BY DEF Microtask
<1> HIDE DEF q, m
<1>5. P \in Viewer /\ Same(peer[p], P)
  BY <1>0, <1>2, Entries DEF Same, ViewerRecord
<1> HIDE DEF P
<1>6. P \in ViewerRecord /\ P.ice \in Seq(Nat)
  BY <1>5, Entries DEF Viewer
<1>7. ASSUME NEW Q \in Viewer, Same(P, Q), Becomes(p, Q) PROVE SessionInv'
  BY <1>1, <1>5, <1>7, BecomesSession DEF Same
<1>8. CASE Becomes(p, P)
  BY <1>5, <1>7, <1>8 DEF Same
<1>9. CASE Becomes(p, [P EXCEPT !.step = IF P.life = "offered" THEN "answer" ELSE @])
  <2>1. CASE P.life = "offered"
    <3>1. /\ Becomes(p, [P EXCEPT !.step = "answer"])
          /\ [P EXCEPT !.step = "answer"] \in Viewer /\ Same(P, [P EXCEPT !.step = "answer"])
      BY <1>5, <1>6, <1>9, <2>1, Entries DEF Same, ViewerRecord
    <3> QED  BY <1>7, <3>1
  <2>2. CASE P.life # "offered"
    <3>1. [P EXCEPT !.step = IF P.life = "offered" THEN "answer" ELSE @] = P
      BY <1>6, <2>2 DEF ViewerRecord
    <3> QED  BY <1>8, <1>9, <3>1
  <2> QED  BY <2>1, <2>2
<1>10. CASE Becomes(p, [P EXCEPT !.step = "late", !.adding = <<m.n>>])
  <2> DEFINE Q == [P EXCEPT !.step = "late", !.adding = <<m.n>>]
  <2>1. <<m.n>> \in Seq(Nat) /\ <<m.n>> # <<>>
    BY <1>3
  <2>2. Q \in Viewer
    BY <1>5, <2>1, Entries
  <2>3. Same(P, Q)
    BY <1>6 DEF Same, ViewerRecord
  <2> QED  BY <1>7, <1>10, <2>2, <2>3
<1>11. CASE Becomes(p, [P EXCEPT !.ice = Append(@, m.n)])
  <2> DEFINE s == Append(P.ice, m.n)
             Q == [P EXCEPT !.ice = s]
  <2>1. s \in Seq(Nat)
    BY <1>3, <1>6
  <2> HIDE DEF s
  <2>2. Q \in Viewer /\ Same(P, Q)
    BY <1>5, <1>6, <2>1, Entries DEF Same, ViewerRecord
  <2>3. Becomes(p, Q)
    BY <1>11 DEF s
  <2> QED  BY <1>7, <2>2, <2>3
<1> QED  BY <1>4, <1>8, <1>9, <1>10, <1>11

(* What the server says, read by the page. *)
LEMMA ReceiveBasics ==
    ASSUME ShareInv, SessionInv, Receives
    PROVE  /\ active # None /\ active' = active /\ run'[active].socket = "open"
           /\ far' = far /\ far.members \in SUBSET PeerId
           /\ toSharer \in Seq(Heard) /\ toSharer # <<>> /\ toSharer' = Tail(toSharer)
           /\ Head(toSharer) = toSharer[1] /\ toSharer[1] \in Heard
           /\ toSharer[1].n \in Nat /\ toSharer[1].peer \in PeerId \cup {None}
           /\ toSharer[1].type \in {"viewer-joined", "viewer-left", "answer", "ice"}
                 => toSharer[1].peer \in PeerId
           /\ 1 \in 1..Len(toSharer)
           /\ ui \in Page /\ peer \in [PeerId -> Viewer] /\ broke \subseteq PeerId
<1>1. /\ active # None /\ active' = active /\ run[active].socket = "open"
      /\ far' = far /\ toSharer # <<>> /\ toSharer' = Tail(toSharer)
      /\ Watch(run) \/ Watch([run EXCEPT ![active].timer = FALSE])
  BY DEF Receives, ReceiveStarted, ReceiveHeartbeat, ReceivePeerError, ReceiveLeft, ReceiveJoined,
         ReceiveNegotiation, Receive, Arrives
<1>2. active \in Run /\ run[active] \in RunObject /\ run \in [Run -> RunObject]
  BY <1>1 DEF ShareInv, ShareTyped
<1>3. run'[active].socket = "open"
  <2>1. CASE Watch(run)
    BY <1>1, <1>2, <2>1 DEF Watch, RunObject
  <2>2. CASE Watch([run EXCEPT ![active].timer = FALSE])
    <3>1. run' = [run EXCEPT ![active] = [run[active] EXCEPT !.timer = FALSE, !.watchdog = TRUE]]
      BY <1>2, <2>2 DEF Watch
    <3> QED  BY <1>1, <1>2, <3>1 DEF RunObject
  <2> QED  BY <1>1, <2>1, <2>2
<1>4. /\ toSharer \in Seq(Heard) /\ far.members \in SUBSET PeerId
      /\ ui \in Page /\ peer \in [PeerId -> Viewer] /\ broke \subseteq PeerId
  BY DEF SessionInv, SessionTyped, Far
<1>5. Head(toSharer) = toSharer[1] /\ toSharer[1] \in Heard /\ 1 \in 1..Len(toSharer)
  BY <1>1, <1>4, Reading
<1> QED  BY <1>1, <1>3, <1>4, <1>5 DEF Heard, ToSharer

(* A message that neither joins nor leaves a viewer and is not the first. *)
LEMMA NeutralSession ==
    ASSUME ShareInv, SessionInv, Receives,
           toSharer[1].type \notin {"viewer-joined", "viewer-left"}, ui' = ui,
           peer' \in [PeerId -> Viewer], broke' \subseteq PeerId,
           \/ toServer' = toServer
           \/ \E m \in Asked : m.type # "start" /\ toServer' = Append(toServer, m),
           \A p \in PeerId :
              /\ peer[p].life = "none" => peer'[p].life = "none"
              /\ Known(peer', p) => Known(peer, p)
              /\ Known(peer, p) /\ ~Known(peer', p) => Dismissed(toServer', p)
    PROVE  SessionInv'
<1>1. /\ active # None /\ active' = active /\ run'[active].socket = "open"
      /\ far' = far /\ toSharer # <<>> /\ toSharer' = Tail(toSharer) /\ ui \in Page
      /\ toSharer \in Seq(Heard) /\ far.members \in SUBSET PeerId
  BY ReceiveBasics
<1>2. Shown(toSharer', far.members, ui')
  <2>1. At(Tail(toSharer), far.members, 0) = At(toSharer, far.members, 0)
    BY <1>1, PopAt
  <2> QED  BY <1>1, <2>1 DEF SessionInv, SessionAgrees, Shown
<1>3. \A p : ~Joins(toSharer, p, 1) /\ ~Leaves(toSharer, p, 1)
  BY DEF Joins, Leaves
<1>4. Got
  BY <1>1, <1>2, <1>3 DEF Got
<1> QED  BY <1>4, GotSession

LEMMA ReceivesSession ==
    ASSUME ShareInv, SessionInv, Receives
    PROVE  SessionInv'
<1> DEFINE m == toSharer[1]
<1>0. /\ active # None /\ active' = active /\ run'[active].socket = "open"
      /\ far' = far /\ far.members \in SUBSET PeerId
      /\ toSharer \in Seq(Heard) /\ toSharer # <<>> /\ toSharer' = Tail(toSharer)
      /\ Head(toSharer) = m /\ m \in Heard
      /\ m.n \in Nat /\ m.peer \in PeerId \cup {None}
      /\ m.type \in {"viewer-joined", "viewer-left", "answer", "ice"} => m.peer \in PeerId
      /\ 1 \in 1..Len(toSharer)
      /\ ui \in Page /\ peer \in [PeerId -> Viewer] /\ broke \subseteq PeerId
  BY ReceiveBasics
<1>1. /\ m.type \in {"viewer-joined", "viewer-left"}
             => m.n = Cardinality(At(Tail(toSharer), far.members, 0))
      /\ m.type = "started" => m.n = 0 /\ At(Tail(toSharer), far.members, 0) = {}
  <2>1. At(Tail(toSharer), far.members, 0) = At(toSharer, far.members, 1)
    BY <1>0, PopAt
  <2> QED  BY <1>0, <2>1 DEF SessionInv, SessionAgrees, Counts
<1>2. \A p \in PeerId : /\ Joins(toSharer, p, 1) <=> m.type = "viewer-joined" /\ m.peer = p
                        /\ Leaves(toSharer, p, 1) <=> m.type = "viewer-left" /\ m.peer = p
  BY DEF Joins, Leaves
<1>3. \A p \in PeerId : Joins(toSharer, p, 1) => peer[p].life = "none"
  BY <1>0 DEF SessionInv, SessionAgrees, Moving
<1> HIDE DEF m
<1>4. CASE ReceiveStarted
  <2>1. /\ m.type = "started" /\ ui' = [ui EXCEPT !.screen = "SHARING", !.count = m.n]
        /\ peer' = peer /\ toServer' = toServer /\ broke' = broke
    BY <1>0, <1>4 DEF ReceiveStarted, Receive, Arrives
  <2>2. ui' \in Page /\ ui'.count = 0
    BY <1>0, <1>1, <2>1 DEF Page
  <2>3. Shown(toSharer', far.members, ui')
    BY <1>0, <1>1, <2>1, <2>2, FS_EmptySet DEF Shown
  <2>4. Got
    BY <1>0, <1>2, <2>1, <2>2, <2>3 DEF Got
  <2> QED  BY <2>4, GotSession
<1>5. CASE ReceiveHeartbeat
  <2>1. m.type = "heartbeat" /\ ui' = ui /\ peer' = peer /\ toServer' = toServer /\ broke' = broke
    BY <1>0, <1>5 DEF ReceiveHeartbeat, Receive, Arrives
  <2> QED  BY <1>0, <2>1, NeutralSession DEF m
<1>6. CASE ReceivePeerError
  <2>1. /\ m.type = "error" /\ m.peer \in PeerId /\ ui' = ui
        /\ IF Current(m.peer) THEN FailPeer(m.peer, peer[m.peer])
           ELSE UNCHANGED <<peer, toServer, broke>>
    BY <1>0, <1>6 DEF ReceivePeerError, Receive, Arrives
  <2>2. CASE ~Current(m.peer)
    BY <1>0, <2>1, <2>2, NeutralSession DEF m
  <2>3. CASE Current(m.peer)
    <3> DEFINE a == Ask("disconnect-peer", m.peer)
               R == Removed(peer[m.peer])
    <3>1. /\ peer' = [peer EXCEPT ![m.peer] = R] /\ toServer' = Append(toServer, a)
          /\ broke' \subseteq PeerId /\ toServer \in Seq(Asked)
      BY <1>0, <2>1, <2>3 DEF FailPeer, Send, SessionInv, SessionTyped
    <3>2. a \in Asked /\ a.type # "start"
      BY <2>1 DEF Ask, Asked, ToServer
    <3>3. R \in Viewer /\ R.life = "gone" /\ peer[m.peer].life # "none"
      BY <1>0, <2>1, <2>3, Removing DEF Current
    <3>4. Dismissed(toServer', m.peer)
      BY <3>1, <3>2, Requests
    <3> HIDE DEF a, R
    <3>5. /\ peer' \in [PeerId -> Viewer] /\ peer'[m.peer] = R
          /\ \A x \in PeerId : x # m.peer => peer'[x] = peer[x]
      BY <1>0, <2>1, <3>1, <3>3
    <3>6. \A p \in PeerId :
              /\ peer[p].life = "none" => peer'[p].life = "none"
              /\ Known(peer', p) => Known(peer, p)
              /\ Known(peer, p) /\ ~Known(peer', p) => Dismissed(toServer', p)
      BY <3>3, <3>4, <3>5 DEF Known
    <3> QED  BY <1>0, <2>1, <3>1, <3>2, <3>5, <3>6, NeutralSession DEF m
  <2> QED  BY <2>2, <2>3
<1>7. CASE ReceiveLeft
  <2>1. /\ m.type = "viewer-left" /\ m.peer \in PeerId
        /\ peer' = [peer EXCEPT ![m.peer] = Removed(peer[m.peer])]
        /\ ui' = [ui EXCEPT !.count = m.n] /\ toServer' = toServer /\ broke' = broke
    BY <1>0, <1>7 DEF ReceiveLeft, Receive, Arrives, CountLeft
  <2>2. ui' \in Page /\ ui'.count = m.n
    BY <1>0, <2>1 DEF Page
  <2>3. Shown(toSharer', far.members, ui')
    BY <1>0, <1>1, <2>1, <2>2 DEF Shown
  <2>4. /\ peer' \in [PeerId -> Viewer] /\ ~Known(peer', m.peer)
        /\ peer[m.peer].life = "none" => peer'[m.peer].life = "none"
        /\ \A x \in PeerId : x # m.peer => peer'[x] = peer[x]
    BY <1>0, <2>1, Removing DEF Known
  <2>5. Got
    BY <1>0, <1>2, <2>1, <2>2, <2>3, <2>4 DEF Got, Known
  <2> QED  BY <2>5, GotSession
<1>8. CASE ReceiveJoined
  <2>1. /\ m.type = "viewer-joined" /\ m.peer \in PeerId /\ toServer' = toServer /\ broke' = broke
    BY <1>0, <1>8 DEF ReceiveJoined, Receive, Arrives
  <2>2. peer[m.peer].life = "none"
    BY <1>2, <1>3, <2>1
  <2> DEFINE P == [peer[m.peer] EXCEPT !.life = "creating", !.timer = TRUE]
  <2>3. /\ peer' = [peer EXCEPT ![m.peer] = P] /\ ui' = [ui EXCEPT !.count = m.n]
    BY <1>0, <1>8, <2>1, <2>2 DEF ReceiveJoined, Current
  <2>4. P \in Viewer /\ P.life = "creating"
    BY <1>0, <2>1 DEF Viewer, ViewerRecord
  <2> HIDE DEF P
  <2>5. ui' \in Page /\ ui'.count = m.n
    BY <1>0, <2>3 DEF Page
  <2>6. Shown(toSharer', far.members, ui')
    BY <1>0, <1>1, <2>1, <2>5 DEF Shown
  <2>7. /\ peer' \in [PeerId -> Viewer] /\ Known(peer', m.peer)
        /\ \A x \in PeerId : x # m.peer => peer'[x] = peer[x]
    BY <1>0, <2>1, <2>3, <2>4 DEF Known
  <2>8. Got
    BY <1>0, <1>2, <2>1, <2>5, <2>6, <2>7 DEF Got, Known
  <2> QED  BY <2>8, GotSession
<1>9. CASE ReceiveNegotiation
  <2>1. /\ m.type \in {"answer", "ice"} /\ m.peer \in PeerId
        /\ peer' = IF Current(m.peer) THEN [peer EXCEPT ![m.peer].queue = Append(@, m)] ELSE peer
        /\ ui' = ui /\ toServer' = toServer /\ broke' = broke
    BY <1>0, <1>9 DEF ReceiveNegotiation, Receive, Arrives
  <2> DEFINE q == Append(peer[m.peer].queue, m)
             P == [peer[m.peer] EXCEPT !.queue = q]
  <2>2. peer' = [peer EXCEPT ![m.peer] = P] \/ peer' = peer
    BY <2>1
  <2>3. q \in Seq(Heard)
    BY <1>0, <2>1, Entries, Appending
  <2> HIDE DEF q
  <2>4. P \in Viewer /\ P.life = peer[m.peer].life
    <3>1. peer[m.peer] \in Viewer /\ peer[m.peer] \in ViewerRecord
      BY <1>0, <2>1 DEF Viewer
    <3>2. P \in Viewer
      BY <2>3, <3>1, Entries
    <3> QED  BY <3>1, <3>2 DEF ViewerRecord
  <2> HIDE DEF P
  <2>5. peer' \in [PeerId -> Viewer] /\ \A x \in PeerId : peer'[x].life = peer[x].life
    BY <1>0, <2>1, <2>2, <2>4
  <2> QED  BY <1>0, <2>1, <2>5, NeutralSession DEF m, Known
<1> QED  BY <1>4, <1>5, <1>6, <1>7, <1>8, <1>9 DEF Receives

(* The server's side. *)
LEMMA Telling ==
    ASSUME NEW t \in {"started", "viewer-joined", "viewer-left", "answer", "ice", "error",
                      "heartbeat"},
           NEW p \in PeerId \cup {None}, NEW n \in Nat, p \in PeerId \/ t \in {"started", "heartbeat"}
    PROVE  LET m == Told(t, p, n) IN m \in Heard /\ m.type = t /\ m.peer = p /\ m.n = n
  BY DEF Told, Heard, ToSharer

LEMMA FarSteps ==
    ASSUME SessionInv
    PROVE  /\ far \in Far /\ IsFiniteSet(far.members) /\ far.members \in SUBSET PeerId
           /\ Cardinality(far.members) \in Nat
           /\ \A ms \in SUBSET PeerId : LET F == [far EXCEPT !.members = ms] IN
                 F \in Far /\ F.members = ms /\ F.open = far.open
           /\ \A p \in PeerId : LET F == [far EXCEPT !.answered = @ \cup {p}] IN
                 F \in Far /\ F.members = far.members /\ F.open = far.open
           /\ \A p \in PeerId : LET F == [far EXCEPT !.offered = @ \cup {p}] IN
                 F \in Far /\ F.members = far.members /\ F.open = far.open
           /\ LET F == [far EXCEPT !.open = TRUE] IN
                 F \in Far /\ F.members = far.members /\ F.open
           /\ LET F == [far EXCEPT !.silent = TRUE] IN
                 F \in Far /\ F.members = far.members /\ F.open = far.open
<1>1. far \in Far /\ IsFiniteSet(far.members) /\ far.members \in SUBSET PeerId
  BY DEF SessionInv, SessionTyped, Far
<1>2. Cardinality(far.members) \in Nat
  BY <1>1, FS_CardinalityType
<1>3. \A ms \in SUBSET PeerId : LET F == [far EXCEPT !.members = ms] IN
         F \in Far /\ F.members = ms /\ F.open = far.open
  BY <1>1 DEF Far
<1>4. \A p \in PeerId : LET F == [far EXCEPT !.answered = @ \cup {p}] IN
         F \in Far /\ F.members = far.members /\ F.open = far.open
  BY <1>1 DEF Far
<1>5. \A p \in PeerId : LET F == [far EXCEPT !.offered = @ \cup {p}] IN
         F \in Far /\ F.members = far.members /\ F.open = far.open
  BY <1>1 DEF Far
<1>6. LET F == [far EXCEPT !.open = TRUE] IN F \in Far /\ F.members = far.members /\ F.open
  BY <1>1 DEF Far
<1>7. LET F == [far EXCEPT !.silent = TRUE] IN
         F \in Far /\ F.members = far.members /\ F.open = far.open
  BY <1>1 DEF Far
<1> QED  BY <1>1, <1>2, <1>3, <1>4, <1>5, <1>6, <1>7

LEMMA LeftSession ==
    ASSUME SessionInv, NEW p \in PeerId, p \in far.members, Left(p), UNCHANGED ours,
           broke' \subseteq PeerId, Notify(Told("viewer-left", p, Cardinality(far.members) - 1)),
           (far.open /\ toServer' = toServer) \/ Answers
    PROVE  SessionInv'
<1> DEFINE ms == far.members \ {p}
           c == Cardinality(far.members) - 1
           m == Told("viewer-left", p, c)
<1>1. /\ far' \in Far /\ far'.members = ms /\ far'.open = far.open /\ ms \in SUBSET PeerId
      /\ IsFiniteSet(far.members) /\ Cardinality(far.members) \in Nat
  <2>1. ms \in SUBSET PeerId /\ far' = [far EXCEPT !.members = ms]
    BY FarSteps DEF Left
  <2> HIDE DEF ms
  <2> QED  BY <2>1, FarSteps
<1>2. IsFiniteSet(ms) /\ Cardinality(ms) = c /\ c \in Nat
  <2>1. IsFiniteSet(ms) /\ Cardinality(ms) = c
    BY <1>1, FS_RemoveElement
  <2> QED  BY <2>1, FS_CardinalityType
<1> HIDE DEF c
<1>3. m \in Heard /\ m.type = "viewer-left" /\ m.peer = p /\ m.n = c /\ toSharer' = Append(toSharer, m)
  BY <1>2, Telling DEF Notify, c
<1>4. far.open
  BY DEF SessionInv, Opened
<1> HIDE DEF m
<1>5. Said(m)
  BY <1>1, <1>2, <1>3, <1>4 DEF Said, Brings
<1> QED  BY <1>5, SaidSession

LEMMA ViewerSession ==
    ASSUME SessionInv, NEW p \in PeerId,
           ViewerJoins(p) \/ ViewerLeaves(p) \/ ViewerAnswers(p) \/ ViewerTrickles(p)
    PROVE  SessionInv'
<1>0. /\ far \in Far /\ IsFiniteSet(far.members) /\ far.members \in SUBSET PeerId
      /\ Cardinality(far.members) \in Nat /\ broke \subseteq PeerId
      /\ far.open /\ UNCHANGED ours /\ toServer' = toServer
  BY FarSteps DEF ViewerJoins, ViewerLeaves, ViewerAnswers, ViewerTrickles, Serving, SessionInv,
                  SessionTyped
<1>1. CASE ViewerJoins(p)
  <2> DEFINE ms == far.members \cup {p}
             c == Cardinality(far.members) + 1
             m == Told("viewer-joined", p, c)
  <2>1. far' \in Far /\ far'.members = ms /\ far'.open = far.open
    <3>1. ms \in SUBSET PeerId /\ far' = [far EXCEPT !.members = ms]
      BY <1>0, <1>1 DEF ViewerJoins, Joined
    <3> HIDE DEF ms
    <3> QED  BY <3>1, FarSteps
  <2>2. /\ p \notin far.members /\ toSharer' = Append(toSharer, m) /\ broke' = broke
        /\ peer[p].life = "none" /\ \A i \in 1..Len(toSharer) : toSharer[i].peer # p
    BY <1>1 DEF ViewerJoins, Notify
  <2>3. IsFiniteSet(ms) /\ Cardinality(ms) = c /\ c \in Nat
    <3>1. IsFiniteSet(ms) /\ Cardinality(ms) = c
      BY <1>0, <2>2, FS_AddElement
    <3> QED  BY <1>0, <3>1
  <2> HIDE DEF c
  <2>4. m \in Heard /\ m.type = "viewer-joined" /\ m.peer = p /\ m.n = c
    BY <2>3, Telling
  <2> HIDE DEF m
  <2>5. Said(m)
    BY <1>0, <2>1, <2>2, <2>3, <2>4 DEF Said, Brings
  <2> QED  BY <2>5, SaidSession
<1>2. CASE ViewerLeaves(p)
  <2>1. broke' \subseteq PeerId /\ p \in far.members
    BY <1>0, <1>2 DEF ViewerLeaves
  <2> QED  BY <1>0, <1>2, <2>1, LeftSession DEF ViewerLeaves
<1>3. CASE ViewerAnswers(p)
  <2> DEFINE m == Told("answer", p, 0)
  <2>1. /\ far' \in Far /\ far'.members = far.members /\ far'.open = far.open
        /\ toSharer' = Append(toSharer, m) /\ broke' = broke
    BY <1>3, FarSteps DEF ViewerAnswers, Notify
  <2>2. m \in Heard /\ m.type = "answer"
    BY Telling
  <2> HIDE DEF m
  <2>3. Said(m)
    BY <1>0, <2>1, <2>2 DEF Said, Brings
  <2> QED  BY <2>3, SaidSession
<1>4. CASE ViewerTrickles(p)
  <2> DEFINE n == far.trickled[p] + 1
             m == Told("ice", p, n)
  <2>1. /\ far' = [far EXCEPT !.trickled[p] = @ + 1] /\ far.trickled[p] < Candidates
        /\ toSharer' = Append(toSharer, m) /\ broke' = broke
    BY <1>4 DEF ViewerTrickles, Notify
  <2>2. far.trickled \in [PeerId -> 0..Candidates]
    BY <1>0 DEF Far
  <2>3. n \in 0..Candidates /\ n \in Nat
    BY <2>1, <2>2, SharerAssumption
  <2> HIDE DEF n
  <2> DEFINE tr == [far.trickled EXCEPT ![p] = n]
  <2>4. far' = [far EXCEPT !.trickled = tr]
    BY <2>1 DEF n
  <2>5. tr \in [PeerId -> 0..Candidates]
    BY <2>2, <2>3
  <2> HIDE DEF tr
  <2>6. far' \in Far /\ far'.members = far.members /\ far'.open = far.open
    BY <1>0, <2>4, <2>5 DEF Far
  <2>7. m \in Heard /\ m.type = "ice"
    BY <2>3, Telling
  <2> HIDE DEF m
  <2>8. Said(m)
    BY <1>0, <2>1, <2>6, <2>7 DEF Said, Brings
  <2> QED  BY <2>8, SaidSession
<1> QED  BY <1>1, <1>2, <1>3, <1>4

LEMMA ServerSession ==
    ASSUME SessionInv, ServerReceives \/ ServerBeats \/ LinkDies
    PROVE  SessionInv'
<1>0. /\ far \in Far /\ IsFiniteSet(far.members) /\ far.members \in SUBSET PeerId
      /\ broke \subseteq PeerId /\ UNCHANGED ours
  BY FarSteps DEF ServerReceives, ServerBeats, LinkDies, SessionInv, SessionTyped
<1>1. CASE ServerBeats
  <2> DEFINE m == Told("heartbeat", None, 0)
  <2>1. /\ far' = far /\ toServer' = toServer /\ broke' = broke /\ far.open
        /\ toSharer' = Append(toSharer, m)
    BY <1>1 DEF ServerBeats, Serving, Notify
  <2>2. m \in Heard /\ m.type = "heartbeat"
    BY Telling
  <2> HIDE DEF m
  <2>3. Said(m)
    BY <1>0, <2>1, <2>2 DEF Said, Brings
  <2> QED  BY <2>3, SaidSession
<1>2. CASE LinkDies
  <2>1. /\ far' = [far EXCEPT !.silent = TRUE] /\ active # None
        /\ toSharer' = toSharer /\ toServer' = toServer /\ broke' = broke
    BY <1>2 DEF LinkDies
  <2>2. far' \in Far /\ far'.members = far.members /\ far'.open = far.open
    BY <2>1, FarSteps
  <2>3. ui \in Page
    BY DEF SessionInv, SessionTyped
  <2>4. Kept
    BY <1>0, <2>1, <2>2, <2>3 DEF Kept, ours, Waiting
  <2> QED  BY <2>4, KeptSession
<1>3. CASE ServerReceives
  <2> DEFINE r == Head(toServer)
             p == r.peer
  <2>1. /\ toServer # <<>> /\ toServer' = Tail(toServer) /\ r \in Asked
        /\ r.type \in {"start", "offer", "ice", "disconnect-peer"}
        /\ r.type # "start" => p \in PeerId
    <3>1. toServer # <<>> /\ toServer' = Tail(toServer) /\ toServer \in Seq(Asked)
      BY <1>3 DEF ServerReceives, SessionInv, SessionTyped
    <3>2. r \in Asked
      BY <3>1, Reading
    <3> QED  BY <3>1, <3>2 DEF Asked, ToServer
  <2>2. CASE /\ r.type = "start" /\ far' = [far EXCEPT !.open = TRUE]
             /\ Notify(Told("started", None, 0)) /\ broke' = broke
    <3> DEFINE m == Told("started", None, 0)
    <3>1. far' \in Far /\ far'.members = far.members /\ far'.open
      BY <2>2, FarSteps
    <3>2. m \in Heard /\ m.type = "started" /\ m.n = 0 /\ toSharer' = Append(toSharer, m)
      <4>1. m \in Heard /\ m.type = "started" /\ m.n = 0
        BY Telling
      <4>2. toSharer' = Append(toSharer, m)
        BY <2>2 DEF Notify
      <4> QED  BY <4>1, <4>2
    <3>3. far.members = {}
      <4>1. 1 \in 1..Len(toServer) /\ toServer[1].type = "start"
        <5>1. toServer \in Seq(Asked)
          BY DEF SessionInv, SessionTyped
        <5>2. 1 \in 1..Len(toServer) /\ r = toServer[1]
          BY <2>1, <5>1, Reading
        <5> QED  BY <2>2, <5>2
      <4> QED  BY <4>1 DEF SessionInv, Opened
    <3>4. Answers
      BY <2>1, <2>2 DEF Answers
    <3> HIDE DEF m
    <3>5. Said(m)
      BY <1>0, <2>2, <3>1, <3>2, <3>3, <3>4 DEF Said, Brings
    <3> QED  BY <3>5, SaidSession
  <2>3. CASE r.type # "start" /\ p \notin far.members /\ UNCHANGED <<far, toSharer, broke>>
    <3>1. Answers
      BY <2>1, <2>3 DEF Answers
    <3> QED  BY <1>0, <2>3, <3>1, TakenSession DEF Taken
  <2>4. CASE /\ r.type = "disconnect-peer" /\ p \in far.members /\ Left(p) /\ broke' = broke
             /\ Notify(Told("viewer-left", p, Cardinality(far.members) - 1))
    <3>1. far'.members = far.members \ {p}
      BY <1>0, <2>4 DEF Left, Far
    <3>2. Answers
      BY <2>1, <3>1 DEF Answers
    <3> QED  BY <1>0, <2>1, <2>4, <3>2, LeftSession
  <2>5. CASE /\ r.type \in {"offer", "ice"} /\ UNCHANGED <<toSharer, broke>>
             /\ far' = IF r.type = "offer" THEN [far EXCEPT !.offered = @ \cup {p}] ELSE far
    <3>1. far' \in Far /\ far'.members = far.members /\ far'.open = far.open
      BY <1>0, <2>1, <2>5, FarSteps
    <3>2. Answers
      BY <2>1, <2>5 DEF Answers
    <3> QED  BY <1>0, <2>5, <3>1, <3>2, TakenSession DEF Taken
  <2>6. CASE /\ r.type \in {"offer", "ice"} /\ p \in far.members /\ far' = far
             /\ Notify(Told("error", p, 0)) /\ broke' = broke \cup {p}
    <3> DEFINE m == Told("error", p, 0)
    <3>1. m \in Heard /\ m.type = "error" /\ toSharer' = Append(toSharer, m)
      BY <2>1, <2>6, Telling DEF Notify
    <3>2. Answers /\ far.open
      BY <2>1, <2>6 DEF Answers, SessionInv, Opened
    <3>3. broke' \subseteq PeerId
      BY <1>0, <2>1, <2>6
    <3> HIDE DEF m
    <3>4. Said(m)
      BY <1>0, <2>6, <3>1, <3>2, <3>3 DEF Said, Brings
    <3> QED  BY <3>4, SaidSession
  <2> QED  BY <1>3, <2>2, <2>3, <2>4, <2>5, <2>6 DEF ServerReceives
<1> QED  BY <1>1, <1>2, <1>3

-----------------------------------------------------------------------------
(* The invariant of the specification. *)

PageInv == ShareInv /\ SessionInv

LEMMA PageInit == Init => PageInv
<1> SUFFICES ASSUME Init PROVE SessionInv
  BY ShareInit DEF PageInv
<1>1. NoShare \in Far /\ NoShare.members = {} /\ ~NoShare.open
  BY SharerAssumption DEF NoShare, Far
<1>2. <<>> \in Numbered /\ <<>> \in Queues
  BY DEF Numbered, Queues
<1>3. /\ peer \in [PeerId -> Viewer]
      /\ \A p \in PeerId : peer[p].life = "none" /\ peer[p].timer = FALSE
  BY <1>2 DEF Init, Viewer, ViewerRecord
<1>4. SessionTyped
  BY <1>1, <1>3, FS_EmptySet DEF Init, SessionTyped, Page
<1>5. Off
  BY <1>3 DEF Init, Off, Current
<1>6. Opened
  BY <1>1 DEF Init, Opened
<1>7. SessionAgrees
  <2>1. Counts(<<>>, {}) /\ Moving(<<>>, {}, peer) /\ Shown(<<>>, {}, ui)
    BY DEF Init, Counts, Moving, Shown
  <2>2. Viewed(<<>>, {}, peer, <<>>)
    BY <1>3 DEF Viewed, Known
  <2> QED  BY <1>1, <2>1, <2>2 DEF Init, SessionAgrees
<1> QED  BY <1>4, <1>5, <1>6, <1>7 DEF SessionInv

LEMMA SessionStep == PageInv /\ [Next]_vars => SessionInv'
<1> SUFFICES ASSUME ShareInv, SessionInv, [Next]_vars PROVE SessionInv'
  BY DEF PageInv
<1>1. CASE UNCHANGED vars
  <2>1. Kept
    BY <1>1 DEF vars, audio, share, Kept, Waiting, SessionInv, SessionTyped
  <2> QED  BY <2>1, KeptSession
<1>2. CASE StopClicked \/ PageHides \/ AudioFails
  BY <1>2, StopSession, StopIfActiveSession DEF StopClicked, PageHides, AudioFails, Stop
<1>3. CASE AudioChain
  BY <1>3, AudioSession
<1>4. ASSUME NEW r \in Run,
             \/ StartClicked(r) \/ PickerReturns(r) \/ StartFails(r) \/ WorkletReady(r)
             \/ ConstraintsApplied(r) \/ TrackEnds(r) \/ ContextSuspends(r) \/ Opens(r)
             \/ SocketCloses(r) \/ TimerFires(r) \/ WatchdogFires(r) \/ StartedRefused(r)
      PROVE  SessionInv'
  <2>1. CASE SocketCloses(r) \/ TimerFires(r) \/ WatchdogFires(r) \/ StartedRefused(r)
    BY <2>1, StopIfActiveSession DEF SocketCloses, TimerFires, WatchdogFires, StartedRefused
  <2> QED  BY <1>4, <2>1, StartClickedSession, HandlerSession, EndsSession, OpensSession
<1>5. CASE Receives
  BY <1>5, ReceivesSession
<1>6. ASSUME NEW p \in PeerId,
             \/ OfferCreated(p) \/ OfferSet(p) \/ Microtask(p) \/ AnswerSet(p)
             \/ CandidateAdded(p) \/ NegotiationFails(p) \/ PeerConnects(p)
             \/ PeerFails(p) \/ LocalCandidate(p)
      PROVE  SessionInv'
  BY <1>6, NegotiationSession, MicrotaskSession
<1>7. ASSUME NEW p \in PeerId,
             ViewerJoins(p) \/ ViewerLeaves(p) \/ ViewerAnswers(p) \/ ViewerTrickles(p)
      PROVE  SessionInv'
  BY <1>7, ViewerSession
<1>8. CASE ServerReceives \/ ServerBeats \/ LinkDies
  BY <1>8, ServerSession
<1> QED  BY <1>1, <1>2, <1>3, <1>4, <1>5, <1>6, <1>7, <1>8 DEF Next, Receives

(* The invariant holds in every state of the specification. *)
THEOREM Invariant == Spec => []PageInv
<1>1. PageInv /\ [Next]_vars => PageInv'
  BY ShareStep, SessionStep DEF PageInv
<1> QED  BY <1>1, PageInit, PTL DEF Spec

(* The page's state keeps its types.                                         *)
THEOREM TypeCorrect == Spec => []TypeOK
<1>1. PageInv => TypeOK
  <2> SUFFICES ASSUME PageInv PROVE TypeOK
    OBVIOUS
  <2>1. /\ ShareTyped /\ SessionTyped /\ Heard \subseteq ToSharer /\ Asked \subseteq ToServer
    BY DEF PageInv, ShareInv, SessionInv, Heard, Asked
  <2>2. toSharer \in Seq(ToSharer) /\ toServer \in Seq(ToServer) /\ Queues \subseteq Seq(ToSharer)
    BY <2>1 DEF SessionTyped, Queues
  <2>3. peer \in [PeerId -> PeerObject]
    <3>1. ASSUME NEW p \in PeerId PROVE peer[p] \in PeerObject
      <4>1. peer[p] \in ViewerRecord
        BY <2>1 DEF SessionTyped, Viewer
      <4>2. PeerObject = [life : {"none", "creating", "local", "offered", "answered", "connected",
                                  "gone"},
                          timer : BOOLEAN, iced : BOOLEAN, queue : Seq(ToSharer),
                          step : {"idle", "answer", "early", "late"}, ice : Numbered,
                          adding : Numbered, added : Numbered]
        BY DEF PeerObject, Numbered
      <4> QED  BY <2>2, <4>1, <4>2 DEF ViewerRecord
    <3> QED  BY <2>1, <3>1 DEF SessionTyped
  <2> QED  BY <2>1, <2>2, <2>3 DEF TypeOK, ShareTyped, SessionTyped, Operation
<1> QED  BY <1>1, Invariant, PTL

(* Nothing of a share outlives it: no capture, audio context, socket or      *)
(* timer of a run that is not the active one, and no viewer without a run    *)
(* (stop, and the awaits that compare active after it).                      *)
THEOREM NothingOutlives == Spec => []NothingOutlivesRun
<1>1. PageInv => NothingOutlivesRun
  BY DEF PageInv, ShareInv, SessionInv, Runs, Fits, Outlived, Off, NothingOutlivesRun
<1> QED  BY <1>1, Invariant, PTL

(* With nothing on its way, the page's viewers and the count it shows are    *)
(* the server's (onmessage and the session it talks to).                     *)
THEOREM ViewersAgree == Spec => []PeersAgree
<1>1. PageInv => PeersAgree
  <2> SUFFICES ASSUME PageInv, ui.screen = "SHARING", toSharer = <<>>,
                      \A i \in 1..Len(toServer) : toServer[i].type # "disconnect-peer"
               PROVE  Peers = far.members /\ ui.count = Cardinality(far.members)
    BY DEF PeersAgree
  <2>1. /\ far.members \in SUBSET PeerId /\ Shown(toSharer, far.members, ui)
        /\ Viewed(toSharer, far.members, peer, toServer)
    BY DEF PageInv, SessionInv, SessionTyped, SessionAgrees, Far
  <2>2. At(toSharer, far.members, 0) = far.members
    BY <2>1 DEF At, Later
  <2>3. \A p \in PeerId : ~Dismissed(toServer, p)
    BY DEF Dismissed, Ask
  <2> QED  BY <2>1, <2>2, <2>3 DEF Shown, Viewed, Known, Peers, Current
<1> QED  BY <1>1, Invariant, PTL

-----------------------------------------------------------------------------
(* The order of the candidates. *)

(* What of viewer p has come over the session: those that its peer          *)
(* connection has or a handler holds, one after the other, and then those in *)
(* its queue and behind it; while a handler awaits something, where they may *)
(* be.                                                                       *)
Count(P) == Len(P.added) + Len(P.adding) + Len(P.ice)
Lined(P) == /\ Counted(P.added, 0) /\ Counted(P.adding, Len(P.added))
            /\ Counted(P.ice, Len(P.added) + Len(P.adding))
Awaiting(P) ==
    /\ P.step \in {"idle", "answer"} => P.adding = <<>>
    /\ P.step = "answer" => P.life = "offered"
    /\ P.step \in {"early", "late"} => P.life \in {"answered", "connected"}
    /\ P.life \in {"answered", "connected"} => P.ice = <<>>
Ordered(P, p, q, n) ==
    /\ Awaiting(P) /\ Lined(P) /\ InTurn(P.queue \o q, p, Count(P), n)
    /\ \A i \in 1..Len(P.queue) : P.queue[i].peer = p

(* A viewer that the page has not heard of was offered nothing, so that it   *)
(* has no candidates to send.                                                *)
Asks(reqs, p) == \E i \in 1..Len(reqs) : reqs[i].type = "offer" /\ reqs[i].peer = p
IceOf(q, p) == {i \in 1..Len(q) : q[i].type = "ice" /\ q[i].peer = p}
Unknown(P, p, q, reqs, f) ==
    /\ P.added = <<>> /\ P.adding = <<>> /\ P.ice = <<>> /\ P.queue = <<>> /\ P.step = "idle"
    /\ p \notin f.offered /\ ~Asks(reqs, p) /\ f.trickled[p] = 0 /\ IceOf(q, p) = {}

Line(P, p, q, reqs, f) ==
    /\ P.life = "none" => Unknown(P, p, q, reqs, f)
    /\ P.life \notin {"none", "gone"} => Ordered(P, p, q, f.trickled[p])
OrderInv == \A p \in PeerId : Line(peer[p], p, toSharer, toServer, far)

-----------------------------------------------------------------------------
LEMMA InTurnIs ==
    ASSUME NEW s, NEW p, NEW low, NEW top
    PROVE  InTurn(s, p, low, top) <=> Turn(s, IceOf(s, p), low, top)
  BY DEF InTurn, IceOf, Turn

LEMMA SkipTurn ==
    ASSUME NEW s \in Seq(Heard), NEW t \in Seq(Heard), NEW k \in 1..Len(s), NEW p,
           Len(t) = Len(s) - 1,
           \A i \in 1..Len(t) : t[i] = IF i < k THEN s[i] ELSE s[i + 1],
           ~(s[k].type = "ice" /\ s[k].peer = p),
           NEW low \in Nat, NEW top \in Nat, InTurn(s, p, low, top)
    PROVE  InTurn(t, p, low, top)
<1>1. IceOf(s, p) \in SUBSET (1..Len(s)) /\ k \notin IceOf(s, p)
      /\ IceOf(t, p) \in SUBSET (1..Len(t))
  BY DEF IceOf
<1>2. \A i \in 1..Len(t) : i \in IceOf(t, p) <=> (IF i < k THEN i ELSE i + 1) \in IceOf(s, p)
  <2> SUFFICES ASSUME NEW i \in 1..Len(t)
               PROVE  i \in IceOf(t, p) <=> (IF i < k THEN i ELSE i + 1) \in IceOf(s, p)
    OBVIOUS
  <2>1. i \in 1..Len(s) /\ i + 1 \in 1..Len(s) /\ t[i] = IF i < k THEN s[i] ELSE s[i + 1]
    OBVIOUS
  <2> QED  BY <2>1 DEF IceOf
<1>3. Turn(s, IceOf(s, p), low, top)
  BY InTurnIs
<1>4. Turn(t, IceOf(t, p), low, top)
  BY <1>1, <1>2, <1>3, TurnSkips
<1> QED  BY <1>4, InTurnIs

LEMMA TakeTurn ==
    ASSUME NEW s \in Seq(Heard), s # <<>>, NEW p, Head(s).type = "ice", Head(s).peer = p,
           NEW low \in Nat, NEW top \in Nat, InTurn(s, p, low, top)
    PROVE  Head(s).n = low + 1 /\ InTurn(Tail(s), p, low + 1, top)
<1> DEFINE t == Tail(s)
<1>1. /\ Len(s) \in Nat \ {0} /\ Head(s) = s[1] /\ t \in Seq(Heard) /\ Len(t) = Len(s) - 1
      /\ \A i \in 1..Len(t) : t[i] = s[i + 1] /\ i + 1 \in 1..Len(s)
  OBVIOUS
<1>2. 1 \in IceOf(s, p) /\ IceOf(s, p) \in SUBSET (1..Len(s))
  BY <1>1 DEF IceOf
<1>3. /\ IceOf(t, p) \in SUBSET (1..Len(t))
      /\ \A i \in 1..Len(t) : i \in IceOf(t, p) <=> i + 1 \in IceOf(s, p)
  <2> HIDE DEF t
  <2> QED  BY <1>1 DEF IceOf
<1>4. Turn(s, IceOf(s, p), low, top)
  BY InTurnIs
<1>5. Head(s).n = low + 1 /\ Turn(t, IceOf(t, p), low + 1, top)
  BY <1>2, <1>3, <1>4, TurnTakes
<1> QED  BY <1>5, InTurnIs

LEMMA MoreTurn ==
    ASSUME NEW s \in Seq(Heard), NEW m \in Heard, NEW p,
           NEW low \in Nat, NEW top \in Nat, NEW next \in Nat, InTurn(s, p, low, top),
           IF m.type = "ice" /\ m.peer = p THEN m.n = top + 1 /\ next = top + 1
                                           ELSE next = top
    PROVE  InTurn(Append(s, m), p, low, next)
<1> DEFINE t == Append(s, m)
           e == Len(s) + 1
<1>1. /\ Len(s) \in Nat /\ Len(t) = e /\ t[e] = m /\ \A i \in 1..Len(s) : t[i] = s[i]
      /\ \A i \in 1..e : i = e \/ i \in 1..Len(s)
      /\ e \in 1..e /\ \A i \in 1..Len(s) : i \in 1..e
  OBVIOUS
<1>2. IceOf(s, p) \in SUBSET (1..Len(s))
  BY DEF IceOf
<1> HIDE DEF t, e
<1>3. IceOf(t, p) = IF m.type = "ice" /\ m.peer = p THEN IceOf(s, p) \cup {e} ELSE IceOf(s, p)
  BY <1>1 DEF IceOf
<1>4. Turn(s, IceOf(s, p), low, top)
  BY InTurnIs
<1>5. \/ IceOf(t, p) = IceOf(s, p) /\ next = top
      \/ IceOf(t, p) = IceOf(s, p) \cup {Len(s) + 1} /\ next = top + 1 /\ m.n = top + 1
  BY <1>3 DEF e
<1>6. Turn(t, IceOf(t, p), low, next)
  BY <1>2, <1>4, <1>5, TurnGrows DEF t
<1> QED  BY <1>6, InTurnIs DEF t

LEMMA NoTurn ==
    ASSUME NEW s, NEW p, IceOf(s, p) = {}
    PROVE  InTurn(s, p, 0, 0)
  BY InTurnIs DEF Turn

(* What else comes, or is asked, leaves viewer p its turn.                   *)
LEMMA Sized ==
    ASSUME NEW P \in Viewer
    PROVE  /\ P.queue \in Seq(Heard) /\ P.added \in Seq(Nat) /\ P.adding \in Seq(Nat)
           /\ P.ice \in Seq(Nat)
           /\ Len(P.added) \in Nat /\ Len(P.adding) \in Nat /\ Len(P.ice) \in Nat
           /\ Count(P) \in Nat
<1>1. /\ P.queue \in Seq(Heard) /\ P.added \in Seq(Nat) /\ P.adding \in Seq(Nat)
      /\ P.ice \in Seq(Nat)
  BY Entries
<1> DEFINE a == Len(P.added)
           b == Len(P.adding)
           c == Len(P.ice)
<1>2. a \in Nat /\ b \in Nat /\ c \in Nat
  BY <1>1
<1>3. Count(P) = a + b + c
  BY DEF Count
<1> HIDE DEF a, b, c
<1>4. Count(P) \in Nat
  BY <1>2, <1>3
<1> QED  BY <1>1, <1>2, <1>4 DEF a, b, c

LEMMA PopLine ==
    ASSUME NEW P \in Viewer, NEW p \in PeerId, NEW q \in Seq(Heard), q # <<>>, NEW reqs,
           NEW f \in Far, Line(P, p, q, reqs, f),
           P.life \in {"none", "gone"} \/ ~(q[1].type = "ice" /\ q[1].peer = p)
    PROVE  Line(P, p, Tail(q), reqs, f)
<1>1. /\ Tail(q) \in Seq(Heard) /\ Len(q) \in Nat \ {0} /\ Len(Tail(q)) = Len(q) - 1
      /\ \A i \in 1..Len(Tail(q)) : Tail(q)[i] = q[i + 1] /\ i + 1 \in 1..Len(q)
  OBVIOUS
<1>2. P.life = "none" => Unknown(P, p, Tail(q), reqs, f)
  <2>1. IceOf(q, p) = {} => IceOf(Tail(q), p) = {}
    <3> DEFINE t == Tail(q)
    <3> HIDE DEF t
    <3> QED  BY <1>1 DEF IceOf, t
  <2> QED  BY <2>1 DEF Line, Unknown
<1>3. ASSUME P.life \notin {"none", "gone"} PROVE Ordered(P, p, Tail(q), f.trickled[p])
  <2> DEFINE w == P.queue
  <2>1. /\ Awaiting(P) /\ Lined(P) /\ InTurn(w \o q, p, Count(P), f.trickled[p])
        /\ \A i \in 1..Len(P.queue) : P.queue[i].peer = p
    BY <1>3 DEF Line, Ordered
  <2>2. w \in Seq(Heard) /\ Count(P) \in Nat /\ f.trickled[p] \in Nat
    BY Sized, SharerAssumption DEF Far
  <2> HIDE DEF w
  <2> DEFINE s == w \o q
             t == w \o Tail(q)
             k == Len(w) + 1
  <2>3. /\ s \in Seq(Heard) /\ t \in Seq(Heard) /\ k \in 1..Len(s) /\ s[k] = Head(q)
        /\ Len(t) = Len(s) - 1
        /\ \A i \in 1..Len(t) : t[i] = IF i < k THEN s[i] ELSE s[i + 1]
    BY <2>2, Dropping
  <2>4. ~(s[k].type = "ice" /\ s[k].peer = p)
    BY <1>3, <2>3
  <2> HIDE DEF s, t, k
  <2>5. InTurn(s, p, Count(P), f.trickled[p])
    BY <2>1 DEF s
  <2>6. InTurn(t, p, Count(P), f.trickled[p])
    BY <2>2, <2>3, <2>4, <2>5, SkipTurn
  <2> QED  BY <2>1, <2>6 DEF Ordered, t, w
<1> QED  BY <1>2, <1>3 DEF Line

LEMMA MoreLine ==
    ASSUME NEW P \in Viewer, NEW p \in PeerId, NEW q \in Seq(Heard), NEW m \in Heard, NEW reqs,
           NEW f \in Far, Line(P, p, q, reqs, f), NEW r2, NEW g \in Far,
           ~Asks(reqs, p) => ~Asks(r2, p),
           p \notin f.offered /\ ~Asks(reqs, p) => p \notin g.offered,
           \/ ~(m.type = "ice" /\ m.peer = p) /\ g.trickled[p] = f.trickled[p]
           \/ p \in f.offered /\ m.n = f.trickled[p] + 1 /\ g.trickled[p] = f.trickled[p] + 1
                 /\ m.type = "ice" /\ m.peer = p
    PROVE  Line(P, p, Append(q, m), r2, g)
<1>1. ASSUME P.life = "none" PROVE Unknown(P, p, Append(q, m), r2, g)
  <2>1. Unknown(P, p, q, reqs, f)
    BY <1>1 DEF Line
  <2>2. ~(m.type = "ice" /\ m.peer = p) /\ g.trickled[p] = f.trickled[p]
    BY <2>1 DEF Unknown
  <2> DEFINE t == Append(q, m)
  <2>3. Len(t) = Len(q) + 1 /\ t[Len(q) + 1] = m /\ Len(q) \in Nat
        /\ \A i \in 1..Len(q) : t[i] = q[i]
    OBVIOUS
  <2> HIDE DEF t
  <2>4. IceOf(q, p) = {} => IceOf(t, p) = {}
    BY <2>2, <2>3 DEF IceOf
  <2> QED  BY <2>1, <2>2, <2>4 DEF Unknown, t
<1>2. ASSUME P.life \notin {"none", "gone"} PROVE Ordered(P, p, Append(q, m), g.trickled[p])
  <2> DEFINE w == P.queue
  <2>1. /\ Awaiting(P) /\ Lined(P) /\ InTurn(w \o q, p, Count(P), f.trickled[p])
        /\ \A i \in 1..Len(P.queue) : P.queue[i].peer = p
    BY <1>2 DEF Line, Ordered
  <2>2. w \in Seq(Heard) /\ Count(P) \in Nat /\ f.trickled[p] \in Nat /\ g.trickled[p] \in Nat
    BY Sized, SharerAssumption DEF Far
  <2> HIDE DEF w
  <2>3. w \o q \in Seq(Heard) /\ w \o Append(q, m) = Append(w \o q, m)
    BY <2>2, Adding
  <2>4. InTurn(Append(w \o q, m), p, Count(P), g.trickled[p])
    BY <2>1, <2>2, <2>3, MoreTurn
  <2> QED  BY <2>1, <2>3, <2>4 DEF Ordered, w
<1> QED  BY <1>1, <1>2 DEF Line

LEMMA KeepsLine ==
    ASSUME NEW P, NEW p, NEW q, NEW reqs, NEW f, Line(P, p, q, reqs, f), NEW r2, NEW g,
           ~Asks(reqs, p) => ~Asks(r2, p),
           p \notin f.offered /\ ~Asks(reqs, p) => p \notin g.offered,
           g.trickled[p] = f.trickled[p]
    PROVE  Line(P, p, q, r2, g)
  BY DEF Line, Unknown

-----------------------------------------------------------------------------
(* What a viewer's own steps leave of its line. *)

LEMMA Totals ==
    ASSUME NEW P, NEW a \in Nat, NEW b \in Nat, NEW c \in Nat,
           Len(P.added) = a, Len(P.adding) = b, Len(P.ice) = c
    PROVE  Count(P) = a + b + c
  BY DEF Count

LEMMA RemovedLine ==
    ASSUME NEW P \in Viewer, NEW p, NEW q, NEW reqs, NEW f, Line(P, p, q, reqs, f)
    PROVE  Line(Removed(P), p, q, reqs, f)
<1>1. PICK w \in {"none", "gone"} : w = IF P.life = "none" THEN P.life ELSE "gone"
  OBVIOUS
<1>2. Removed(P) = [P EXCEPT !.life = w, !.timer = FALSE]
  BY <1>1 DEF Removed
<1> DEFINE Q == Removed(P)
<1>3. /\ Q.life = w /\ Q.added = P.added /\ Q.adding = P.adding /\ Q.ice = P.ice
      /\ Q.queue = P.queue /\ Q.step = P.step
  BY <1>2 DEF Viewer, ViewerRecord
<1>4. (w = "none") => Unknown(P, p, q, reqs, f)
  BY <1>1 DEF Line
<1> HIDE DEF Q
<1>5. Q.life = "none" => Unknown(Q, p, q, reqs, f)
  BY <1>3, <1>4 DEF Unknown
<1>6. Q.life \in {"none", "gone"}
  BY <1>3
<1> QED  BY <1>5, <1>6 DEF Line, Q

(* The candidate whose turn it is goes to the handler, or is held.           *)
LEMMA HandledOrder ==
    ASSUME NEW P \in Viewer, NEW Q \in Viewer, NEW p, NEW q \in Seq(Heard), NEW n \in Nat,
           Ordered(P, p, q, n), P.queue # <<>>, P.step = "idle", Q.queue = Tail(P.queue),
           Q.added = P.added, Q.life = P.life,
           LET m == Head(P.queue) IN
           \/ /\ m.type = "answer" /\ Q.step = IF P.life = "offered" THEN "answer" ELSE "idle"
              /\ Q.ice = P.ice /\ Q.adding = P.adding
           \/ /\ m.type = "ice" /\ P.life \in {"answered", "connected"} /\ Q.step = "late"
              /\ Q.adding = <<m.n>> /\ Q.ice = P.ice
           \/ /\ m.type = "ice" /\ P.life \notin {"answered", "connected"} /\ Q.step = "idle"
              /\ Q.adding = P.adding /\ Q.ice = Append(P.ice, m.n)
    PROVE  Ordered(Q, p, q, n)
<1> DEFINE w == P.queue
           m == Head(w)
           s == w \o q
<1>1. /\ w \in Seq(Heard) /\ w # <<>> /\ P.added \in Seq(Nat) /\ P.ice \in Seq(Nat)
      /\ Len(P.added) \in Nat /\ Len(P.ice) \in Nat /\ Count(P) \in Nat
  BY Sized
<1>2. /\ Awaiting(P) /\ Lined(P) /\ InTurn(s, p, Count(P), n)
      /\ \A i \in 1..Len(w) : w[i].peer = p
  BY DEF Ordered
<1>3. P.adding = <<>> /\ (P.life \in {"answered", "connected"} => P.ice = <<>>)
  BY <1>2 DEF Awaiting
<1>4. /\ \/ /\ m.type = "answer" /\ Q.step = IF P.life = "offered" THEN "answer" ELSE "idle"
            /\ Q.ice = P.ice /\ Q.adding = P.adding
         \/ /\ m.type = "ice" /\ P.life \in {"answered", "connected"} /\ Q.step = "late"
            /\ Q.adding = <<m.n>> /\ Q.ice = P.ice
         \/ /\ m.type = "ice" /\ P.life \notin {"answered", "connected"} /\ Q.step = "idle"
            /\ Q.adding = P.adding /\ Q.ice = Append(P.ice, m.n)
      /\ Q.queue = Tail(w)
  OBVIOUS
<1> HIDE DEF w
<1>5. /\ s \in Seq(Heard) /\ s # <<>> /\ Head(s) = m /\ Tail(s) = Q.queue \o q
  <2>1. /\ w \o q \in Seq(Heard) /\ w \o q # <<>>
        /\ Head(w \o q) = Head(w) /\ Tail(w \o q) = Tail(w) \o q
    BY <1>1, Taking
  <2> QED  BY <1>4, <2>1
<1>6. /\ m \in Heard /\ m.peer = p /\ m.n \in Nat /\ Len(w) \in Nat \ {0}
      /\ \A i \in 1..Len(Q.queue) : Q.queue[i].peer = p
  <2>1. /\ Len(w) \in Nat \ {0} /\ Head(w) = w[1] /\ Head(w) \in Heard /\ Tail(w) \in Seq(Heard)
        /\ Len(Tail(w)) = Len(w) - 1 /\ \A i \in 1..Len(Tail(w)) : Tail(w)[i] = w[i + 1]
    BY <1>1, FirstAndRest
  <2>2. \A i \in 1..Len(Tail(w)) : i + 1 \in 1..Len(w)
    BY <2>1
  <2>3. 1 \in 1..Len(w)
    BY <2>1
  <2>4. Head(w).n \in Nat
    BY <2>1 DEF Heard, ToSharer
  <2>5. \A i \in 1..Len(Tail(w)) : Tail(w)[i].peer = p
    BY <1>2, <2>1, <2>2
  <2>6. w[1].peer = p
    BY <1>2, <2>3
  <2> QED  BY <1>4, <2>1, <2>4, <2>5, <2>6
<1> DEFINE a == Len(P.added)
           c == Len(P.ice)
<1>7. a \in Nat /\ c \in Nat /\ Len(P.adding) = 0 /\ Len(<<>>) = 0 /\ Count(P) = a + c
  <2>1. a \in Nat /\ c \in Nat /\ 0 \in Nat /\ Len(P.adding) = 0 /\ Len(<<>>) = 0
    BY <1>1, <1>3
  <2>2. Count(P) = a + 0 + c
    BY <2>1, Totals
  <2> HIDE DEF a, c
  <2> QED  BY <2>1, <2>2
<1> HIDE DEF s
<1>8. CASE m.type = "answer"
  <2>1. /\ Q.ice = P.ice /\ Q.adding = P.adding
        /\ Q.step = IF P.life = "offered" THEN "answer" ELSE "idle"
    BY <1>4, <1>8
  <2>2. Awaiting(Q) /\ Lined(Q) /\ Count(Q) = Count(P)
    BY <1>2, <1>3, <2>1 DEF Awaiting, Lined, Count
  <2>3. /\ Tail(s) \in Seq(Heard) /\ Len(Tail(s)) = Len(s) - 1 /\ 1 \in 1..Len(s)
        /\ s[1] = m /\ \A i \in 1..Len(Tail(s)) : ~(i < 1) /\ Tail(s)[i] = s[i + 1]
    BY <1>5
  <2>4. InTurn(Tail(s), p, Count(P), n)
    <3>1. \A i \in 1..Len(Tail(s)) : Tail(s)[i] = IF i < 1 THEN s[i] ELSE s[i + 1]
      BY <2>3
    <3>2. ~(s[1].type = "ice" /\ s[1].peer = p)
      BY <1>8, <2>3
    <3> HIDE DEF m
    <3> QED  BY <1>1, <1>2, <1>5, <2>3, <3>1, <3>2, SkipTurn
  <2> QED  BY <1>5, <1>6, <2>2, <2>4 DEF Ordered
<1>9. CASE m.type = "ice"
  <2>1. m.n = Count(P) + 1 /\ InTurn(Tail(s), p, Count(P) + 1, n)
    <3> HIDE DEF m
    <3> QED  BY <1>1, <1>2, <1>5, <1>6, <1>9, TakeTurn
  <2>2. CASE P.life \in {"answered", "connected"}
    <3>1. Q.step = "late" /\ Q.adding = <<m.n>> /\ Q.ice = <<>> /\ c = 0
      BY <1>3, <1>4, <1>7, <1>9, <2>2
    <3>2. Len(Q.adding) = 1 /\ Q.adding[1] = m.n
      BY <3>1
    <3>3. Awaiting(Q)
      BY <2>2, <3>1 DEF Awaiting
    <3>4. /\ Len(Q.added) = a /\ Len(Q.ice) = 0 /\ Count(P) = a
      <4>1. Len(Q.added) = a /\ Len(Q.ice) = 0
        BY <1>7, <3>1
      <4> HIDE DEF a, c
      <4> QED  BY <1>7, <3>1, <4>1
    <3>5. Lined(Q)
      BY <1>2, <2>1, <3>1, <3>2, <3>4, <1>7 DEF Lined, Counted
    <3>6. Count(Q) = Count(P) + 1
      <4> HIDE DEF a, c
      <4>1. a \in Nat /\ 1 \in Nat /\ 0 \in Nat
        BY <1>7
      <4>2. Len(Q.added) = a /\ Len(Q.adding) = 1 /\ Len(Q.ice) = 0
        BY <3>2, <3>4
      <4>3. Count(Q) = a + 1 + 0
        BY ONLY <4>1, <4>2, Totals
      <4> QED  BY <3>4, <4>1, <4>3
    <3> QED  BY <1>5, <1>6, <2>1, <3>3, <3>5, <3>6 DEF Ordered
  <2>3. CASE P.life \notin {"answered", "connected"}
    <3>1. Q.step = "idle" /\ Q.adding = <<>> /\ Q.ice = Append(P.ice, m.n)
      BY <1>3, <1>4, <1>9, <2>3
    <3>2. /\ Len(Q.ice) = c + 1 /\ Q.ice[c + 1] = m.n
          /\ \A i \in 1..c : Q.ice[i] = P.ice[i]
      BY <1>1, <1>6, <3>1
    <3>3. Awaiting(Q)
      BY <2>3, <3>1 DEF Awaiting
    <3>4. Len(Q.added) = a /\ Len(Q.adding) = 0
      BY <1>7, <3>1
    <3>5. \A i \in 1..c : P.ice[i] = a + i
      <4>1. \A i \in 1..c : P.ice[i] = (Len(P.added) + Len(P.adding)) + i
        BY <1>2 DEF Lined, Counted
      <4>2. Len(P.added) + Len(P.adding) = a
        BY <1>7
      <4> QED  BY <4>1, <4>2
    <3>6. Counted(Q.ice, a)
      <4> HIDE DEF a, c
      <4>1. ASSUME NEW i \in 1..(c + 1) PROVE Q.ice[i] = a + i
        <5>1. i = c + 1 \/ i \in 1..c
          BY <1>7
        <5>2. Q.ice[c + 1] = a + (c + 1)
          BY <1>7, <2>1, <3>2
        <5> QED  BY <3>2, <3>5, <5>1, <5>2
      <4> QED  BY <3>2, <4>1 DEF Counted
    <3>7. Lined(Q)
      <4>1. Counted(Q.added, 0) /\ Counted(Q.adding, Len(Q.added))
        BY <1>2, <1>3, <3>1 DEF Lined
      <4>2. Len(Q.added) + Len(Q.adding) = a
        BY <1>7, <3>4
      <4> QED  BY <3>6, <4>1, <4>2 DEF Lined
    <3>8. Count(Q) = Count(P) + 1
      <4> HIDE DEF a, c
      <4>1. a \in Nat /\ 0 \in Nat /\ c + 1 \in Nat /\ Len(Q.ice) = c + 1
        BY <1>7, <3>2
      <4>2. Count(Q) = a + 0 + (c + 1)
        BY ONLY <3>4, <4>1, Totals
      <4> QED  BY <1>7, <4>1, <4>2
    <3> QED  BY <1>5, <1>6, <2>1, <3>3, <3>7, <3>8 DEF Ordered
  <2> QED  BY <2>2, <2>3
<1> QED  BY <1>4, <1>8, <1>9

(* The candidates held until the answer are those to add, one at a time.     *)
LEMMA AnsweredOrder ==
    ASSUME NEW P \in Viewer, NEW p, NEW q, NEW n, Ordered(P, p, q, n), P.step = "answer"
    PROVE  Ordered(Answered(P), p, q, n)
<1> DEFINE Q == Answered(P)
           i0 == P.ice
<1>0. P \in ViewerRecord /\ Awaiting(P) /\ Lined(P) /\ P.adding = <<>> /\ P.ice \in Seq(Nat)
  BY Sized DEF Viewer, Ordered, Awaiting
<1>1. PICK w \in {"idle", "early"} : w = IF P.ice = <<>> THEN "idle" ELSE "early"
  OBVIOUS
<1>2. Q = [P EXCEPT !.adding = i0, !.step = w, !.life = "answered", !.ice = <<>>]
  <2>1. NextCandidate(P, i0) = [P EXCEPT !.adding = i0, !.step = w]
    BY <1>1 DEF NextCandidate
  <2> QED  BY <1>0, <2>1 DEF Answered, ViewerRecord
<1>3. /\ Q.adding = P.ice /\ Q.step = w /\ Q.life = "answered" /\ Q.ice = <<>>
      /\ Q.added = P.added /\ Q.queue = P.queue
  BY <1>0, <1>2 DEF ViewerRecord
<1> HIDE DEF Q
<1>4. Len(P.added) \in Nat /\ Len(P.adding) = 0 /\ Len(P.ice) \in Nat /\ Len(<<>>) = 0
  BY <1>0, Sized
<1>5. Awaiting(Q)
  BY <1>1, <1>3 DEF Awaiting
<1>6. Lined(Q)
  BY <1>0, <1>3, <1>4 DEF Lined, Counted
<1>7. Count(Q) = Count(P)
  BY <1>3, <1>4 DEF Count
<1> QED  BY <1>3, <1>5, <1>6, <1>7 DEF Ordered, Q

LEMMA AddedOrder ==
    ASSUME NEW P \in Viewer, NEW Q, NEW p, NEW q, NEW n, Ordered(P, p, q, n),
           P.step \in {"early", "late"},
           Q.added = Append(P.added, Head(P.adding)), Q.adding = Tail(P.adding),
           Q.step = IF Q.adding = <<>> THEN "idle" ELSE "early",
           Q.ice = P.ice, Q.queue = P.queue, Q.life = P.life
    PROVE  Ordered(Q, p, q, n)
<1> DEFINE g == P.adding
<1>0. /\ Awaiting(P) /\ Lined(P) /\ g # <<>> /\ P.life \in {"answered", "connected"}
      /\ P.ice = <<>> /\ g \in Seq(Nat) /\ P.added \in Seq(Nat) /\ Len(P.added) \in Nat
  BY Sized DEF Viewer, Ordered, Awaiting
<1>1. Q.added = Append(P.added, Head(g)) /\ Q.adding = Tail(g) /\ Counted(g, Len(P.added))
  BY <1>0 DEF Lined
<1> HIDE DEF g
<1>2. /\ Len(g) \in Nat \ {0} /\ Head(g) = g[1] /\ Head(g) \in Nat
      /\ Len(Tail(g)) = Len(g) - 1 /\ \A i \in 1..Len(Tail(g)) : Tail(g)[i] = g[i + 1]
  BY <1>0, FirstAndRest
<1> DEFINE a == Len(P.added)
           b == Len(g)
<1>3. /\ Len(Q.added) = a + 1 /\ Q.added[a + 1] = g[1]
      /\ \A i \in 1..a : Q.added[i] = P.added[i]
  BY <1>0, <1>1, <1>2
<1>4. /\ a \in Nat /\ b \in Nat \ {0} /\ Len(Q.adding) = b - 1 /\ Len(<<>>) = 0
      /\ \A i \in 1..(b - 1) : Q.adding[i] = g[i + 1]
      /\ (\A i \in 1..b : g[i] = a + i) /\ \A i \in 1..a : P.added[i] = 0 + i
  BY <1>0, <1>1, <1>2 DEF Lined, Counted
<1>9. Len(P.added) = a /\ Len(P.adding) = b
  BY DEF g
<1> HIDE DEF a, b
<1>5. Awaiting(Q)
  BY <1>0 DEF Awaiting
<1>6. Counted(Q.added, 0)
  <2>1. ASSUME NEW i \in 1..(a + 1) PROVE Q.added[i] = 0 + i
    <3>1. CASE i = a + 1
      <4>1. g[1] = a + 1
        BY <1>4
      <4> QED  BY <1>3, <1>4, <3>1, <4>1
    <3>2. CASE i \in 1..a
      BY <1>3, <1>4, <3>2
    <3>3. i = a + 1 \/ i \in 1..a
      <4>1. a \in Nat
        BY <1>4
      <4> QED  BY ONLY <4>1, i \in 1..(a + 1)
    <3> QED  BY <3>1, <3>2, <3>3
  <2> QED  BY <1>3, <2>1 DEF Counted
<1>7. Counted(Q.adding, Len(Q.added))
  <2>1. ASSUME NEW i \in 1..(b - 1) PROVE Q.adding[i] = (a + 1) + i
    <3>1. i + 1 \in 1..b /\ a + (i + 1) = (a + 1) + i
      BY <1>4
    <3> QED  BY <1>4, <3>1
  <2> QED  BY <1>3, <1>4, <2>1 DEF Counted
<1>8. Lined(Q)
  BY <1>0, <1>4, <1>6, <1>7 DEF Lined, Counted
<1>10. Count(Q) = Count(P)
  <2>1. /\ a + 1 \in Nat /\ b - 1 \in Nat /\ 0 \in Nat /\ Len(P.ice) = 0
        /\ Len(Q.added) = a + 1 /\ Len(Q.adding) = b - 1 /\ Len(Q.ice) = 0
        /\ a \in Nat /\ b \in Nat
    BY <1>0, <1>3, <1>4
  <2>2. Count(P) = a + b + 0
    <3>1. a \in Nat /\ b \in Nat /\ 0 \in Nat
      BY <2>1
    <3>2. Len(P.added) = a /\ Len(P.adding) = b /\ Len(P.ice) = 0
      BY <1>9, <2>1
    <3> QED  BY ONLY <3>1, <3>2, Totals
  <2>3. Count(Q) = (a + 1) + (b - 1) + 0
    <3>1. a + 1 \in Nat /\ b - 1 \in Nat /\ 0 \in Nat
      BY <2>1
    <3>2. Len(Q.added) = a + 1 /\ Len(Q.adding) = b - 1 /\ Len(Q.ice) = 0
      BY <2>1
    <3> QED  BY ONLY <3>1, <3>2, Totals
  <2> QED  BY <2>1, <2>2, <2>3
<1> QED  BY <1>5, <1>8, <1>10 DEF Ordered

(* A message for the viewer goes from the session to its queue.              *)
LEMMA QueuedOrder ==
    ASSUME NEW P \in Viewer, NEW Q, NEW p, NEW q \in Seq(Heard), NEW n, Ordered(P, p, q, n),
           q # <<>>, Head(q).peer = p, Q = [P EXCEPT !.queue = Append(P.queue, Head(q))]
    PROVE  Ordered(Q, p, Tail(q), n)
<1> DEFINE w == P.queue
           v == Append(w, Head(q))
<1>1. P \in ViewerRecord /\ w \in Seq(Heard)
  BY Sized DEF Viewer
<1>2. v \o Tail(q) = w \o q
  <2> HIDE DEF w
  <2> QED  BY <1>1, Passing
<1>3. Head(q) \in Heard
  BY FirstAndRest
<1>4. \A i \in 1..Len(v) : v[i].peer = p
  <2>1. \A i \in 1..Len(w) : w[i].peer = p
    BY DEF Ordered
  <2> HIDE DEF w
  <2>2. \A i \in 1..Len(v) : (i \in 1..Len(w) /\ v[i] = w[i]) \/ v[i] = Head(q)
    BY <1>1, <1>3
  <2> QED  BY <2>1, <2>2
<1>5. Q = [P EXCEPT !.queue = v]
  OBVIOUS
<1>6. InTurn(w \o q, p, Count(P), n) /\ Awaiting(P) /\ Lined(P)
  BY DEF Ordered
<1> HIDE DEF v, w
<1>7. /\ Q.queue = v /\ Q.added = P.added /\ Q.adding = P.adding /\ Q.ice = P.ice
      /\ Q.step = P.step /\ Q.life = P.life
  BY <1>1, <1>5 DEF ViewerRecord
<1>8. Awaiting(Q) /\ Lined(Q) /\ Count(Q) = Count(P)
  BY <1>6, <1>7 DEF Awaiting, Lined, Count
<1> QED  BY <1>2, <1>4, <1>6, <1>7, <1>8 DEF Ordered

-----------------------------------------------------------------------------
(* The steps. *)

LEMMA AskedMore ==
    ASSUME NEW reqs \in Seq(Asked), NEW m \in Asked, NEW p, Asks(Append(reqs, m), p)
    PROVE  Asks(reqs, p) \/ (m.type = "offer" /\ m.peer = p)
<1> DEFINE t == Append(reqs, m)
<1>1. \A i \in 1..Len(t) : (i \in 1..Len(reqs) /\ t[i] = reqs[i]) \/ t[i] = m
  OBVIOUS
<1>2. PICK i \in 1..Len(t) : t[i].type = "offer" /\ t[i].peer = p
  BY DEF Asks
<1> HIDE DEF t
<1> QED  BY <1>1, <1>2 DEF Asks

LEMMA AskedLess ==
    ASSUME NEW reqs \in Seq(Asked), reqs # <<>>, NEW p, Asks(Tail(reqs), p)
    PROVE  Asks(reqs, p)
<1> DEFINE t == Tail(reqs)
<1>1. \A i \in 1..Len(t) : i + 1 \in 1..Len(reqs) /\ t[i] = reqs[i + 1]
  OBVIOUS
<1>2. PICK i \in 1..Len(t) : t[i].type = "offer" /\ t[i].peer = p
  BY DEF Asks
<1> HIDE DEF t
<1> QED  BY <1>1, <1>2 DEF Asks

LEMMA StopOrder ==
    ASSUME SessionInv, OrderInv, NEW rs, NEW q, StopFrom(rs, q)
    PROVE  OrderInv'
<1> SUFFICES ASSUME NEW p \in PeerId PROVE Line(peer'[p], p, toSharer', toServer', far')
  BY DEF OrderInv
<1>1. /\ far' = NoShare /\ toSharer' = <<>> /\ toServer' = <<>> /\ peer'[p] = Removed(peer[p])
      /\ peer[p] \in Viewer
  BY DEF StopFrom, SessionInv, SessionTyped
<1>2. Line(Removed(peer[p]), p, toSharer, toServer, far)
  BY <1>1, RemovedLine DEF OrderInv
<1>3. Removed(peer[p]).life \in {"none", "gone"}
  BY <1>1, Removing
<1>4. p \notin NoShare.offered /\ NoShare.trickled[p] = 0 /\ ~Asks(<<>>, p) /\ IceOf(<<>>, p) = {}
  BY DEF NoShare, Asks, IceOf
<1> DEFINE Q == Removed(peer[p])
<1> HIDE DEF Q
<1>5. Line(Q, p, toSharer, toServer, far) /\ Q.life \in {"none", "gone"} /\ peer'[p] = Q
  BY <1>1, <1>2, <1>3 DEF Q
<1>6. Line(Q, p, <<>>, <<>>, NoShare)
  BY <1>4, <1>5 DEF Line, Unknown
<1> QED  BY <1>1, <1>5, <1>6

LEMMA UnheardOrder ==
    ASSUME OrderInv, peer' = peer, toSharer' = toSharer, far'.offered = far.offered,
           far'.trickled = far.trickled, \A p \in PeerId : Asks(toServer', p) => Asks(toServer, p)
    PROVE  OrderInv'
<1> SUFFICES ASSUME NEW p \in PeerId PROVE Line(peer'[p], p, toSharer', toServer', far')
  BY DEF OrderInv
<1>1. Line(peer[p], p, toSharer, toServer, far)
  BY DEF OrderInv
<1>2. Line(peer[p], p, toSharer, toServer', far')
  BY <1>1, KeepsLine
<1> QED  BY <1>2

(* A step about viewer p alone, which the page knows or knew. *)
LEMMA ViewerOrder ==
    ASSUME SessionInv, OrderInv, NEW p \in PeerId, NEW P, peer' = [peer EXCEPT ![p] = P],
           far' = far, toSharer' = toSharer,
           \/ toServer' = toServer
           \/ \E t \in {"offer", "ice", "disconnect-peer"} : toServer' = Append(toServer, Ask(t, p)),
           P.life # "none", P.life # "gone" => Ordered(P, p, toSharer, far.trickled[p])
    PROVE  OrderInv'
<1> SUFFICES ASSUME NEW r \in PeerId PROVE Line(peer'[r], r, toSharer', toServer', far')
  BY DEF OrderInv
<1>1. peer \in [PeerId -> Viewer] /\ toServer \in Seq(Asked)
  BY DEF SessionInv, SessionTyped
<1>2. CASE r = p
  <2>1. peer'[r] = P
    BY <1>1, <1>2
  <2> QED  BY <1>2, <2>1 DEF Line
<1>3. CASE r # p
  <2>1. peer'[r] = peer[r] /\ Line(peer[r], r, toSharer, toServer, far)
    BY <1>1, <1>3 DEF OrderInv
  <2>2. ASSUME Asks(toServer', r) PROVE Asks(toServer, r)
    <3>1. CASE toServer' = toServer
      BY <2>2, <3>1
    <3>2. ASSUME NEW t \in {"offer", "ice", "disconnect-peer"},
                 toServer' = Append(toServer, Ask(t, p))
          PROVE  Asks(toServer, r)
      <4> DEFINE m == Ask(t, p)
      <4>1. m \in Asked /\ m.peer # r
        BY <1>3 DEF Ask, Asked, ToServer
      <4>2. Asks(Append(toServer, m), r)
        BY <2>2, <3>2
      <4> HIDE DEF m
      <4> QED  BY <1>1, <4>1, <4>2, AskedMore
    <3> QED  BY <3>1, <3>2
  <2>3. Line(peer[r], r, toSharer, toServer', far')
    BY <2>1, <2>2, KeepsLine
  <2> QED  BY <2>1, <2>3
<1> QED  BY <1>2, <1>3

LEMMA BecomesOrder ==
    ASSUME SessionInv, OrderInv, NEW p \in PeerId, NEW P, Becomes(p, P),
           toServer' = toServer \/ \E t \in {"offer", "ice"} : Send(Ask(t, p)),
           P.life # "none", P.life # "gone" => Ordered(P, p, toSharer, far.trickled[p])
    PROVE  OrderInv'
<1>1. peer' = [peer EXCEPT ![p] = P] /\ far' = far /\ toSharer' = toSharer
  BY DEF Becomes, fixed
<1>2. \/ toServer' = toServer
      \/ \E t \in {"offer", "ice", "disconnect-peer"} : toServer' = Append(toServer, Ask(t, p))
  BY DEF Send
<1> QED  BY <1>1, <1>2, ViewerOrder

LEMMA FailOrder ==
    ASSUME SessionInv, OrderInv, NEW p \in PeerId, NEW P \in Viewer, P.life \notin {"none", "gone"},
           FailPeer(p, P), UNCHANGED fixed
    PROVE  OrderInv'
<1>1. /\ peer' = [peer EXCEPT ![p] = Removed(P)] /\ far' = far /\ toSharer' = toSharer
      /\ toServer' = Append(toServer, Ask("disconnect-peer", p))
  BY DEF FailPeer, fixed, Send
<1>2. Removed(P).life = "gone"
  BY Removing
<1> QED  BY <1>1, <1>2, ViewerOrder

LEMMA SameOrder ==
    ASSUME NEW P, NEW Q, NEW p, NEW q, NEW n, Ordered(P, p, q, n),
           Q.added = P.added, Q.adding = P.adding, Q.ice = P.ice, Q.queue = P.queue,
           Q.step = P.step,
           \/ Q.life = P.life
           \/ P.life \in {"creating", "local"} /\ Q.life \in {"local", "offered"}
           \/ P.life = "answered" /\ Q.life = "connected"
    PROVE  Ordered(Q, p, q, n)
<1>1. Awaiting(P) /\ Lined(P) /\ InTurn(P.queue \o q, p, Count(P), n)
      /\ \A i \in 1..Len(P.queue) : P.queue[i].peer = p
  BY DEF Ordered
<1>2. Awaiting(Q)
  BY <1>1 DEF Awaiting
<1>3. Lined(Q) /\ Count(Q) = Count(P)
  BY <1>1 DEF Lined, Count
<1> QED  BY <1>1, <1>2, <1>3 DEF Ordered

LEMMA NegotiationOrder ==
    ASSUME SessionInv, OrderInv, NEW p \in PeerId,
           \/ OfferCreated(p) \/ OfferSet(p) \/ PeerConnects(p) \/ LocalCandidate(p)
           \/ AnswerSet(p) \/ CandidateAdded(p) \/ NegotiationFails(p) \/ PeerFails(p)
    PROVE  OrderInv'
<1> DEFINE R == peer[p]
           q == toSharer
           n == far.trickled[p]
<1>0. /\ R \in Viewer /\ R \in ViewerRecord /\ Line(R, p, q, toServer, far)
      /\ (Current(p) => Ordered(R, p, q, n))
  BY DEF SessionInv, SessionTyped, Viewer, OrderInv, Line, Current
<1>a. R.step # "idle" => R.life # "none"
  BY <1>0 DEF Line, Unknown
<1>1. CASE OfferCreated(p)
  <2> DEFINE P == [peer[p] EXCEPT !.life = "local"]
  <2>1. /\ Becomes(p, P) /\ toServer' = toServer /\ R.life = "creating" /\ Current(p)
    BY <1>1 DEF OfferCreated, Current
  <2>2. /\ P.life = "local" /\ P.added = R.added /\ P.adding = R.adding /\ P.ice = R.ice
        /\ P.queue = R.queue /\ P.step = R.step
    BY <1>0 DEF ViewerRecord
  <2> HIDE DEF P, R, q, n
  <2>3. Ordered(P, p, q, n)
    BY <1>0, <2>1, <2>2, SameOrder
  <2> QED  BY <2>1, <2>2, <2>3, BecomesOrder DEF q, n
<1>2. CASE OfferSet(p)
  <2> DEFINE P == [peer[p] EXCEPT !.life = "offered"]
  <2>1. /\ Becomes(p, P) /\ Send(Ask("offer", p)) /\ R.life = "local" /\ Current(p)
    BY <1>2 DEF OfferSet, Current
  <2>2. /\ P.life = "offered" /\ P.added = R.added /\ P.adding = R.adding /\ P.ice = R.ice
        /\ P.queue = R.queue /\ P.step = R.step
    BY <1>0 DEF ViewerRecord
  <2> HIDE DEF P, R, q, n
  <2>3. Ordered(P, p, q, n)
    BY <1>0, <2>1, <2>2, SameOrder
  <2> QED  BY <2>1, <2>2, <2>3, BecomesOrder DEF q, n
<1>3. CASE PeerConnects(p)
  <2> DEFINE P == [peer[p] EXCEPT !.life = "connected", !.timer = FALSE]
  <2>1. /\ Becomes(p, P) /\ toServer' = toServer /\ R.life = "answered" /\ Current(p)
    BY <1>3 DEF PeerConnects, Current
  <2>2. /\ P.life = "connected" /\ P.added = R.added /\ P.adding = R.adding /\ P.ice = R.ice
        /\ P.queue = R.queue /\ P.step = R.step
    BY <1>0 DEF ViewerRecord
  <2> HIDE DEF P, R, q, n
  <2>3. Ordered(P, p, q, n)
    BY <1>0, <2>1, <2>2, SameOrder
  <2> QED  BY <2>1, <2>2, <2>3, BecomesOrder DEF q, n
<1>4. CASE LocalCandidate(p)
  <2> DEFINE P == [peer[p] EXCEPT !.iced = TRUE]
  <2>1. /\ Becomes(p, P) /\ Send(Ask("ice", p)) /\ Current(p) /\ R.life \notin {"none", "gone"}
    BY <1>4 DEF LocalCandidate, RemoteSet, Current
  <2>2. /\ P.life = R.life /\ P.added = R.added /\ P.adding = R.adding /\ P.ice = R.ice
        /\ P.queue = R.queue /\ P.step = R.step
    BY <1>0 DEF ViewerRecord
  <2> HIDE DEF P, R, q, n
  <2>3. Ordered(P, p, q, n)
    BY <1>0, <2>1, <2>2, SameOrder
  <2> QED  BY <2>1, <2>2, <2>3, BecomesOrder DEF q, n
<1>5. ASSUME NEW P, P.life = R.life, R.life # "none", ~Current(p), Becomes(p, P),
             toServer' = toServer
      PROVE  OrderInv'
  <2>1. P.life = "gone"
    BY <1>5 DEF Current
  <2> QED  BY <1>5, <2>1, BecomesOrder
<1>6. CASE AnswerSet(p)
  <2>1. R.step = "answer" /\ R.life # "none" /\ toServer' = toServer
    BY <1>6, <1>a DEF AnswerSet
  <2>2. CASE Current(p)
    <3> DEFINE P == Answered(R)
    <3>1. Becomes(p, P) /\ Ordered(R, p, q, n)
      BY <1>0, <1>6, <2>2 DEF AnswerSet
    <3>2. P.life = "answered"
      BY <1>0, Entries DEF Answered, NextCandidate, ViewerRecord
    <3>3. Ordered(P, p, q, n)
      BY <1>0, <2>1, <3>1, AnsweredOrder
    <3> HIDE DEF P
    <3> QED  BY <2>1, <3>1, <3>2, <3>3, BecomesOrder
  <2>3. CASE ~Current(p)
    <3> DEFINE P == Abandon(R)
    <3>1. Becomes(p, P)
      BY <1>6, <2>3 DEF AnswerSet
    <3>2. P.life = R.life
      BY <1>0 DEF Abandon, ViewerRecord
    <3> HIDE DEF P
    <3> QED  BY <1>5, <2>1, <2>3, <3>1, <3>2
  <2> QED  BY <2>2, <2>3
<1>7. CASE CandidateAdded(p)
  <2> DEFINE z == Append(R.added, Head(R.adding))
             g == Tail(R.adding)
             T == [R EXCEPT !.added = z]
  <2>1. /\ R.step \in {"early", "late"} /\ R.life # "none" /\ toServer' = toServer
        /\ Becomes(p, IF Current(p) THEN NextCandidate(T, Tail(T.adding)) ELSE Abandon(T))
    BY <1>7, <1>a DEF CandidateAdded
  <2>2. /\ T \in Viewer /\ T \in ViewerRecord /\ Tail(T.adding) = g /\ T.added = z
        /\ T.ice = R.ice /\ T.queue = R.queue /\ T.life = R.life
    <3>1. R.adding # <<>> /\ R.adding \in Seq(Nat) /\ R.added \in Seq(Nat)
      BY <1>0, <2>1, Entries DEF Viewer
    <3> DEFINE y == R.adding
    <3>2. Head(y) \in Nat
      <4> HIDE DEF y
      <4> QED  BY <3>1, FirstAndRest DEF y
    <3>3. z \in Seq(Nat)
      BY <3>1, <3>2
    <3> HIDE DEF z
    <3>4. T \in Viewer
      BY <1>0, <3>3, Entries
    <3> QED  BY <1>0, <3>4 DEF Viewer, ViewerRecord
  <2> HIDE DEF T, z, g
  <2>3. CASE Current(p)
    <3>1. PICK w \in {"idle", "early"} : w = IF g = <<>> THEN "idle" ELSE "early"
      OBVIOUS
    <3> DEFINE P == [T EXCEPT !.adding = g, !.step = w]
    <3>2. Becomes(p, P)
      BY <2>1, <2>2, <2>3, <3>1 DEF NextCandidate
    <3>3. /\ P.added = z /\ P.adding = g /\ P.step = w /\ P.ice = R.ice /\ P.queue = R.queue
          /\ P.life = R.life
      BY <2>2 DEF ViewerRecord
    <3> HIDE DEF P
    <3>4. /\ P.added = Append(R.added, Head(R.adding)) /\ P.adding = Tail(R.adding)
          /\ P.step = IF P.adding = <<>> THEN "idle" ELSE "early"
      BY <3>1, <3>3 DEF z, g
    <3>5. Ordered(P, p, q, n)
      <4> HIDE DEF R, q, n
      <4> QED  BY <1>0, <2>1, <2>3, <3>3, <3>4, AddedOrder
    <3> QED  BY <2>1, <3>2, <3>3, <3>5, BecomesOrder
  <2>4. CASE ~Current(p)
    <3> DEFINE P == Abandon(T)
    <3>1. Becomes(p, P)
      BY <2>1, <2>4
    <3>2. P.life = R.life
      BY <2>2 DEF Abandon, ViewerRecord
    <3> HIDE DEF P
    <3> QED  BY <1>5, <2>1, <2>4, <3>1, <3>2
  <2> QED  BY <2>3, <2>4
<1>8. CASE NegotiationFails(p)
  <2> DEFINE P == [Abandon(R) EXCEPT !.queue = <<>>]
  <2>1. P \in Viewer /\ P.life = R.life
    <3>1. Abandon(R) \in Viewer /\ Abandon(R) \in ViewerRecord /\ Abandon(R).life = R.life
      <4>1. Abandon(R) \in Viewer
        BY <1>0, Entries
      <4>2. Abandon(R).life = R.life
        BY <1>0 DEF Abandon, ViewerRecord
      <4> QED  BY <4>1, <4>2 DEF Viewer
    <3> DEFINE A == Abandon(R)
    <3> HIDE DEF A
    <3>2. A \in Viewer /\ A \in ViewerRecord /\ A.life = R.life /\ P = [A EXCEPT !.queue = <<>>]
      BY <3>1 DEF A
    <3>3. <<>> \in Seq(Heard)
      OBVIOUS
    <3> QED  BY <3>2, <3>3, Entries DEF ViewerRecord
  <2>2. R.life # "none"
    BY <1>8, <1>a DEF NegotiationFails
  <2>3. CASE Current(p)
    <3>1. FailPeer(p, P) /\ UNCHANGED fixed
      BY <1>8, <2>3 DEF NegotiationFails
    <3> HIDE DEF P
    <3> QED  BY <2>1, <2>3, <3>1, FailOrder DEF Current
  <2>4. CASE ~Current(p)
    <3>1. Becomes(p, P) /\ toServer' = toServer
      BY <1>8, <2>4 DEF NegotiationFails
    <3> HIDE DEF P
    <3> QED  BY <1>5, <2>1, <2>2, <2>4, <3>1
  <2> QED  BY <2>3, <2>4
<1>9. CASE PeerFails(p)
  BY <1>0, <1>9, FailOrder DEF PeerFails, Current
<1> QED  BY <1>1, <1>2, <1>3, <1>4, <1>6, <1>7, <1>8, <1>9

LEMMA MicrotaskOrder ==
    ASSUME SessionInv, OrderInv, NEW p \in PeerId, Microtask(p)
    PROVE  OrderInv'
<1> DEFINE R == peer[p]
           q == toSharer
           n == far.trickled[p]
           m == Head(R.queue)
           v == Tail(R.queue)
           P == [R EXCEPT !.queue = v]
<1>0. /\ R \in Viewer /\ R \in ViewerRecord /\ Line(R, p, q, toServer, far)
      /\ (Current(p) => Ordered(R, p, q, n)) /\ q \in Seq(Heard) /\ n \in Nat
  BY SharerAssumption DEF SessionInv, SessionTyped, Viewer, OrderInv, Line, Current, Far
<1>1. R.queue # <<>> /\ R.step = "idle" /\ toServer' = toServer
  BY DEF Microtask, Ready
<1>2. v \in Seq(Heard) /\ m \in Heard
  BY <1>0, <1>1, Entries, Reading
<1>3. m.n \in Nat
  BY <1>2 DEF Heard, ToSharer
<1>4. R.life # "none"
  BY <1>0, <1>1 DEF Line, Unknown
<1>5. \/ ~Current(p) /\ Becomes(p, P)
      \/ /\ Current(p) /\ m.type = "answer"
         /\ Becomes(p, [P EXCEPT !.step = IF P.life = "offered" THEN "answer" ELSE @])
      \/ /\ Current(p) /\ m.type = "ice" /\ R.life \in {"answered", "connected"}
         /\ Becomes(p, [P EXCEPT !.step = "late", !.adding = <<m.n>>])
      \/ /\ Current(p) /\ m.type = "ice" /\ R.life \notin {"answered", "connected"}
         /\ Becomes(p, [P EXCEPT !.ice = Append(@, m.n)])
  BY DEF Microtask, RemoteSet
<1>6. /\ P \in Viewer /\ P \in ViewerRecord /\ P.queue = v /\ P.life = R.life /\ P.step = "idle"
      /\ P.added = R.added /\ P.adding = R.adding /\ P.ice = R.ice /\ P.ice \in Seq(Nat)
  <2>1. v \in Queues
    BY <1>2 DEF Queues
  <2> HIDE DEF v
  <2>2. P \in Viewer
    BY <1>0, <1>2, Entries
  <2>3. P \in ViewerRecord /\ R.ice \in Seq(Nat)
    BY <1>0, <2>2, Entries DEF Viewer
  <2>4. /\ P.queue = v /\ P.life = R.life /\ P.step = R.step
        /\ P.added = R.added /\ P.adding = R.adding /\ P.ice = R.ice
    BY <1>0, <2>1 DEF ViewerRecord
  <2> QED  BY <1>1, <2>2, <2>3, <2>4
<1>7. m = Head(R.queue) /\ v = Tail(R.queue)
  OBVIOUS
<1> HIDE DEF P, v, m
<1>8. ASSUME NEW Q \in Viewer, Becomes(p, Q), Current(p), Q.queue = v, Q.added = R.added,
             Q.life = R.life,
             \/ /\ m.type = "answer" /\ Q.step = IF R.life = "offered" THEN "answer" ELSE "idle"
                /\ Q.ice = R.ice /\ Q.adding = R.adding
             \/ /\ m.type = "ice" /\ R.life \in {"answered", "connected"} /\ Q.step = "late"
                /\ Q.adding = <<m.n>> /\ Q.ice = R.ice
             \/ /\ m.type = "ice" /\ R.life \notin {"answered", "connected"} /\ Q.step = "idle"
                /\ Q.adding = R.adding /\ Q.ice = Append(R.ice, m.n)
      PROVE  OrderInv'
  <2>1. Ordered(Q, p, q, n)
    <3> HIDE DEF R, q, n
    <3> QED  BY <1>0, <1>1, <1>7, <1>8, HandledOrder
  <2> QED  BY <1>1, <1>4, <1>8, <2>1, BecomesOrder
<1>9. CASE ~Current(p) /\ Becomes(p, P)
  <2>1. P.life = "gone"
    BY <1>4, <1>6, <1>9 DEF Current
  <2> QED  BY <1>1, <1>9, <2>1, BecomesOrder
<1>10. ASSUME Current(p), m.type = "answer",
              Becomes(p, [P EXCEPT !.step = IF P.life = "offered" THEN "answer" ELSE @])
       PROVE  OrderInv'
  <2>1. CASE P.life = "offered"
    <3> DEFINE Q == [P EXCEPT !.step = "answer"]
    <3>1. Becomes(p, Q) /\ Q \in Viewer
      BY <1>6, <1>10, <2>1, Entries
    <3>2. /\ Q.queue = v /\ Q.added = R.added /\ Q.life = R.life /\ Q.ice = R.ice
          /\ Q.adding = R.adding /\ Q.step = "answer"
      BY <1>6 DEF ViewerRecord
    <3> HIDE DEF Q
    <3> QED  BY <1>6, <1>8, <1>10, <2>1, <3>1, <3>2
  <2>2. CASE P.life # "offered"
    <3>1. [P EXCEPT !.step = IF P.life = "offered" THEN "answer" ELSE @] = P
      BY <1>6, <2>2 DEF ViewerRecord
    <3>2. Becomes(p, P)
      BY <1>10, <3>1
    <3> QED  BY <1>6, <1>8, <1>10, <2>2, <3>2
  <2> QED  BY <2>1, <2>2
<1>11. ASSUME Current(p), m.type = "ice", R.life \in {"answered", "connected"},
              Becomes(p, [P EXCEPT !.step = "late", !.adding = <<m.n>>])
       PROVE  OrderInv'
  <2> DEFINE g == <<m.n>>
             Q == [P EXCEPT !.step = "late", !.adding = g]
  <2>1. g \in Seq(Nat) /\ g # <<>>
    BY <1>3
  <2>2. Becomes(p, Q)
    BY <1>11
  <2>3. g = <<m.n>>
    OBVIOUS
  <2> HIDE DEF g
  <2>4. /\ Q \in Viewer /\ Q.queue = v /\ Q.added = R.added /\ Q.life = R.life /\ Q.ice = R.ice
        /\ Q.adding = g /\ Q.step = "late"
    BY <1>6, <2>1, Entries DEF ViewerRecord
  <2> HIDE DEF Q
  <2> QED  BY <1>8, <1>11, <2>2, <2>3, <2>4
<1>12. ASSUME Current(p), m.type = "ice", R.life \notin {"answered", "connected"},
              Becomes(p, [P EXCEPT !.ice = Append(@, m.n)])
       PROVE  OrderInv'
  <2> DEFINE s == Append(P.ice, m.n)
             Q == [P EXCEPT !.ice = s]
  <2>1. s \in Seq(Nat) /\ s = Append(R.ice, m.n)
    BY <1>3, <1>6
  <2>2. Becomes(p, Q)
    BY <1>12
  <2> HIDE DEF s
  <2>4. /\ Q \in Viewer /\ Q.queue = v /\ Q.added = R.added /\ Q.life = R.life /\ Q.ice = s
        /\ Q.adding = R.adding /\ Q.step = "idle"
    BY <1>6, <2>1, Entries DEF ViewerRecord
  <2> HIDE DEF Q
  <2> QED  BY <1>8, <1>12, <2>1, <2>2, <2>4
<1> QED  BY <1>5, <1>9, <1>10, <1>11, <1>12

LEMMA ReceivesOrder ==
    ASSUME ShareInv, SessionInv, OrderInv, Receives
    PROVE  OrderInv'
<1> DEFINE m == toSharer[1]
           q == toSharer
<1>0. /\ far' = far /\ q \in Seq(Heard) /\ q # <<>> /\ toSharer' = Tail(q)
      /\ Head(q) = m /\ m \in Heard
      /\ m.type \in {"viewer-joined", "viewer-left", "answer", "ice"} => m.peer \in PeerId
      /\ 1 \in 1..Len(q) /\ peer \in [PeerId -> Viewer] /\ toServer \in Seq(Asked) /\ far \in Far
  BY ReceiveBasics DEF SessionInv, SessionTyped
<1>1. SUFFICES ASSUME NEW r \in PeerId PROVE Line(peer'[r], r, toSharer', toServer', far')
  BY DEF OrderInv
<1> DEFINE R == peer[r]
<1>2. R \in Viewer /\ R \in ViewerRecord /\ Line(R, r, q, toServer, far)
  BY <1>0 DEF OrderInv, Viewer
<1>3. ASSUME R.life \in {"none", "gone"} \/ ~(m.type = "ice" /\ m.peer = r)
      PROVE  Line(R, r, Tail(q), toServer, far)
  <2> HIDE DEF R, q
  <2>1. R.life \in {"none", "gone"} \/ ~(q[1].type = "ice" /\ q[1].peer = r)
    BY <1>3 DEF q
  <2> QED  BY <1>0, <1>2, <2>1, PopLine
<1>4. CASE ReceiveStarted \/ ReceiveHeartbeat
  <2>1. m.type \in {"started", "heartbeat"} /\ peer' = peer /\ toServer' = toServer
    BY <1>0, <1>4 DEF ReceiveStarted, ReceiveHeartbeat, Receive, Arrives
  <2> QED  BY <1>0, <1>3, <2>1
<1>5. CASE ReceivePeerError
  <2>1. m.type = "error" /\ Line(R, r, Tail(q), toServer, far)
    BY <1>0, <1>3, <1>5 DEF ReceivePeerError, Receive, Arrives
  <2> DEFINE p == m.peer
  <2>2. p # None /\ IF Current(p) THEN FailPeer(p, peer[p]) ELSE peer' = peer /\ toServer' = toServer
    BY <1>0, <1>5 DEF ReceivePeerError
  <2>3. p \in PeerId
    BY <1>0, <2>2 DEF Heard, ToSharer
  <2>4. CASE ~Current(p)
    BY <1>0, <2>1, <2>2, <2>4
  <2>5. CASE Current(p)
    <3> DEFINE w == Ask("disconnect-peer", p)
    <3>1. peer' = [peer EXCEPT ![p] = Removed(peer[p])] /\ toServer' = Append(toServer, w)
      BY <2>2, <2>5 DEF FailPeer, Send
    <3>2. w \in Asked /\ w.type # "offer"
      BY <2>3 DEF Ask, Asked, ToServer
    <3> HIDE DEF w, p
    <3>3. Asks(toServer', r) => Asks(toServer, r)
      BY <1>0, <3>1, <3>2, AskedMore
    <3>4. Line(peer'[r], r, Tail(q), toServer, far)
      <4>1. CASE r = p
        <5>1. peer'[r] = Removed(R)
          BY <1>0, <2>3, <3>1, <4>1
        <5> HIDE DEF R
        <5> QED  BY <1>2, <2>1, <5>1, RemovedLine
      <4>2. CASE r # p
        <5>1. peer'[r] = R
          BY <1>0, <2>3, <3>1, <4>2
        <5> QED  BY <2>1, <5>1
      <4> QED  BY <4>1, <4>2
    <3>5. Line(peer'[r], r, Tail(q), toServer', far)
      BY <3>3, <3>4, KeepsLine
    <3> QED  BY <1>0, <3>5
  <2> QED  BY <2>4, <2>5
<1>6. CASE ReceiveLeft
  <2>1. /\ m.type = "viewer-left" /\ Line(R, r, Tail(q), toServer, far) /\ toServer' = toServer
        /\ peer' = [peer EXCEPT ![m.peer] = Removed(@)] /\ m.peer \in PeerId
    BY <1>0, <1>3, <1>6 DEF ReceiveLeft, Receive, Arrives
  <2>2. peer'[r] = R \/ peer'[r] = Removed(R)
    BY <1>0, <2>1
  <2> HIDE DEF R, q
  <2>3. Line(Removed(R), r, Tail(q), toServer, far)
    BY <1>2, <2>1, RemovedLine
  <2>4. Line(peer'[r], r, Tail(q), toServer, far)
    BY <2>1, <2>2, <2>3
  <2> QED  BY <1>0, <2>1, <2>4 DEF q
<1>7. CASE ReceiveJoined
  <2>1. /\ m.type = "viewer-joined" /\ Line(R, r, Tail(q), toServer, far) /\ toServer' = toServer
        /\ m.peer \in PeerId
        /\ IF Current(m.peer) THEN peer' = peer
           ELSE peer' = [peer EXCEPT ![m.peer].life = "creating", ![m.peer].timer = TRUE]
    BY <1>0, <1>3, <1>7 DEF ReceiveJoined, Receive, Arrives
  <2>2. CASE Current(m.peer) \/ r # m.peer
    <3>1. peer'[r] = R
      BY <1>0, <2>1, <2>2
    <3> QED  BY <1>0, <2>1, <3>1
  <2>3. CASE ~Current(m.peer) /\ r = m.peer
    <3> DEFINE Q == [R EXCEPT !.life = "creating", !.timer = TRUE]
    <3>1. R.life = "none"
      <4>1. Joins(toSharer, r, 1)
        BY <2>1, <2>3 DEF Joins
      <4> QED  BY <1>0, <4>1 DEF SessionInv, SessionAgrees, Moving
    <3>2. peer'[r] = Q
      BY <1>0, <2>1, <2>3
    <3>3. /\ Q.added = R.added /\ Q.adding = R.adding /\ Q.ice = R.ice /\ Q.queue = R.queue
          /\ Q.step = R.step /\ Q.life = "creating"
      BY <1>2 DEF ViewerRecord
    <3> HIDE DEF Q, R, q
    <3>4. /\ Q.added = <<>> /\ Q.adding = <<>> /\ Q.ice = <<>> /\ Q.queue = <<>> /\ Q.step = "idle"
          /\ far.trickled[r] = 0 /\ IceOf(Tail(q), r) = {}
      BY <2>1, <3>1, <3>3 DEF Line, Unknown
    <3>5. Awaiting(Q) /\ Lined(Q) /\ Count(Q) = 0
      BY <3>3, <3>4 DEF Awaiting, Lined, Counted, Count
    <3>6. Q.queue \o Tail(q) = Tail(q)
      <4>1. Tail(q) \in Seq(Heard)
        BY <1>0
      <4> QED  BY <3>4, <4>1
    <3>7. InTurn(Tail(q), r, 0, 0)
      BY <3>4, NoTurn
    <3>8. Ordered(Q, r, Tail(q), far.trickled[r])
      BY <3>4, <3>5, <3>6, <3>7 DEF Ordered
    <3>9. Line(Q, r, Tail(q), toServer, far)
      BY <3>3, <3>8 DEF Line
    <3> QED  BY <1>0, <2>1, <3>2, <3>9 DEF q
  <2> QED  BY <2>2, <2>3
<1>8. CASE ReceiveNegotiation
  <2>1. /\ m.type \in {"answer", "ice"} /\ m.peer \in PeerId /\ toServer' = toServer
        /\ peer' = IF Current(m.peer) THEN [peer EXCEPT ![m.peer].queue = Append(@, m)] ELSE peer
    BY <1>0, <1>8 DEF ReceiveNegotiation, Receive, Arrives
  <2>2. CASE ~Current(m.peer) \/ r # m.peer
    <3>1. peer'[r] = R
      BY <1>0, <2>1, <2>2
    <3>2. R.life \in {"none", "gone"} \/ ~(m.type = "ice" /\ m.peer = r)
      BY <2>2 DEF Current
    <3> QED  BY <1>0, <1>3, <2>1, <3>1, <3>2
  <2>3. CASE Current(m.peer) /\ r = m.peer
    <3> DEFINE Q == [R EXCEPT !.queue = Append(R.queue, Head(q))]
    <3>1. peer'[r] = Q
      BY <1>0, <2>1, <2>3
    <3>2. Q.life = R.life
      BY <1>2 DEF ViewerRecord
    <3>3. R.life \notin {"none", "gone"} /\ Head(q).peer = r
      BY <1>0, <2>3 DEF Current
    <3>4. Ordered(R, r, q, far.trickled[r])
      BY <1>2, <3>3 DEF Line
    <3>5. Q = [R EXCEPT !.queue = Append(R.queue, Head(q))]
      OBVIOUS
    <3> HIDE DEF Q, R, q
    <3>6. Ordered(Q, r, Tail(q), far.trickled[r])
      BY <1>0, <1>2, <3>3, <3>4, <3>5, QueuedOrder
    <3>7. Line(Q, r, Tail(q), toServer, far)
      BY <3>2, <3>3, <3>6 DEF Line
    <3> QED  BY <1>0, <2>1, <3>1, <3>7 DEF q
  <2> QED  BY <2>2, <2>3
<1> QED  BY <1>4, <1>5, <1>6, <1>7, <1>8 DEF Receives

(* The far end sends something. *)
LEMMA ToldOrder ==
    ASSUME SessionInv, SessionInv', OrderInv, NEW m \in Heard, Notify(m), peer' = peer,
           \A p \in PeerId :
              /\ Asks(toServer', p) => Asks(toServer, p)
              /\ p \in far'.offered => p \in far.offered \/ Asks(toServer, p)
              /\ \/ ~(m.type = "ice" /\ m.peer = p) /\ far'.trickled[p] = far.trickled[p]
                 \/ p \in far.offered /\ m.n = far.trickled[p] + 1
                       /\ far'.trickled[p] = far.trickled[p] + 1
                       /\ m.type = "ice" /\ m.peer = p
    PROVE  OrderInv'
<1> SUFFICES ASSUME NEW p \in PeerId PROVE Line(peer'[p], p, toSharer', toServer', far')
  BY DEF OrderInv
<1> DEFINE P == peer[p]
           g == far'
           r2 == toServer'
<1>1. /\ P \in Viewer /\ toSharer \in Seq(Heard) /\ far \in Far /\ g \in Far
      /\ Line(P, p, toSharer, toServer, far) /\ peer'[p] = P /\ toSharer' = Append(toSharer, m)
  BY DEF SessionInv, SessionTyped, OrderInv, Notify
<1>2. /\ ~Asks(toServer, p) => ~Asks(r2, p)
      /\ p \notin far.offered /\ ~Asks(toServer, p) => p \notin g.offered
      /\ \/ ~(m.type = "ice" /\ m.peer = p) /\ g.trickled[p] = far.trickled[p]
         \/ p \in far.offered /\ m.n = far.trickled[p] + 1 /\ g.trickled[p] = far.trickled[p] + 1
               /\ m.type = "ice" /\ m.peer = p
  OBVIOUS
<1> HIDE DEF P, g, r2
<1>3. Line(P, p, Append(toSharer, m), r2, g)
  BY <1>1, <1>2, MoreLine
<1> QED  BY <1>1, <1>3 DEF g, r2

LEMMA FarOrder ==
    ASSUME SessionInv, SessionInv', OrderInv, NEW p \in PeerId,
           ViewerJoins(p) \/ ViewerLeaves(p) \/ ViewerAnswers(p) \/ ViewerTrickles(p)
    PROVE  OrderInv'
<1>0. /\ far \in Far /\ Cardinality(far.members) \in Nat /\ peer' = peer
      /\ toServer' = toServer /\ far.members \in SUBSET PeerId
      /\ far.trickled \in [PeerId -> Nat]
  <2>1. far \in Far /\ Cardinality(far.members) \in Nat /\ far.members \in SUBSET PeerId
    BY FarSteps
  <2>2. far.trickled \in [PeerId -> 0 .. Candidates] /\ Candidates \in Nat
    BY <2>1, SharerAssumption DEF Far
  <2>3. peer' = peer /\ toServer' = toServer
    BY DEF ViewerJoins, ViewerLeaves, ViewerAnswers, ViewerTrickles, ours
  <2> QED  BY <2>1, <2>2, <2>3
<1>1. ASSUME NEW t \in {"viewer-joined", "viewer-left", "answer"}, NEW n \in Nat,
             Notify(Told(t, p, n)), far'.offered = far.offered, far'.trickled = far.trickled
      PROVE  OrderInv'
  <2> DEFINE m == Told(t, p, n)
  <2>1. m \in Heard /\ m.type # "ice"
    BY Telling
  <2>2. Notify(m)
    BY <1>1
  <2> HIDE DEF m
  <2> QED  BY <1>0, <1>1, <2>1, <2>2, ToldOrder
<1>2. CASE ViewerJoins(p)
  <2>1. Notify(Told("viewer-joined", p, Cardinality(far.members) + 1))
        /\ far' = [far EXCEPT !.members = @ \cup {p}]
    BY <1>2 DEF ViewerJoins, Joined
  <2>2. far'.offered = far.offered /\ far'.trickled = far.trickled
    BY <1>0, <2>1 DEF Far
  <2> QED  BY <1>0, <1>1, <2>1, <2>2
<1>3. CASE ViewerLeaves(p)
  <2>1. Notify(Told("viewer-left", p, Cardinality(far.members) - 1))
        /\ far' = [far EXCEPT !.members = @ \ {p}] /\ p \in far.members
    BY <1>3 DEF ViewerLeaves, Left
  <2>2. far'.offered = far.offered /\ far'.trickled = far.trickled
    BY <1>0, <2>1 DEF Far
  <2>3. Cardinality(far.members) - 1 \in Nat
    BY <1>0, <2>1, FarSteps, FS_EmptySet
  <2> QED  BY <1>1, <2>1, <2>2, <2>3
<1>4. CASE ViewerAnswers(p)
  <2>1. Notify(Told("answer", p, 0)) /\ far' = [far EXCEPT !.answered = @ \cup {p}]
    BY <1>4 DEF ViewerAnswers
  <2>2. far'.offered = far.offered /\ far'.trickled = far.trickled
    BY <1>0, <2>1 DEF Far
  <2> QED  BY <1>1, <2>1, <2>2
<1>5. CASE ViewerTrickles(p)
  <2> DEFINE n == far.trickled[p] + 1
             m == Told("ice", p, n)
  <2>1. Notify(m) /\ p \in far.offered /\ far' = [far EXCEPT !.trickled[p] = @ + 1]
    BY <1>5 DEF ViewerTrickles
  <2>2. /\ far'.offered = far.offered /\ far'.trickled[p] = n /\ n \in Nat
        /\ \A r \in PeerId : r # p => far'.trickled[r] = far.trickled[r]
    BY <1>0, <2>1 DEF Far
  <2>3. m \in Heard /\ m.type = "ice" /\ m.peer = p /\ m.n = n
    <3> HIDE DEF n
    <3> QED  BY <2>2, Telling
  <2>4. m.n = far.trickled[p] + 1 /\ far'.trickled[p] = far.trickled[p] + 1
    BY <2>2, <2>3
  <2> HIDE DEF m
  <2> QED  BY <1>0, <2>1, <2>2, <2>3, <2>4, ToldOrder
<1> QED  BY <1>2, <1>3, <1>4, <1>5

LEMMA ServerOrder ==
    ASSUME SessionInv, SessionInv', OrderInv, ServerReceives \/ ServerBeats \/ LinkDies
    PROVE  OrderInv'
<1>0. far \in Far /\ Cardinality(far.members) \in Nat /\ toServer \in Seq(Asked) /\ peer' = peer
  BY FarSteps DEF SessionInv, SessionTyped, ServerReceives, ServerBeats, LinkDies, ours
<1>1. CASE LinkDies
  <2>1. toSharer' = toSharer /\ toServer' = toServer /\ far' = [far EXCEPT !.silent = TRUE]
    BY <1>1 DEF LinkDies
  <2>2. far'.offered = far.offered /\ far'.trickled = far.trickled
    BY <1>0, <2>1 DEF Far
  <2> QED  BY <1>0, <2>1, <2>2, UnheardOrder
<1>2. ASSUME NEW m \in Heard, m.type # "ice", Notify(m), far'.offered = far.offered,
             far'.trickled = far.trickled, \A p : Asks(toServer', p) => Asks(toServer, p)
      PROVE  OrderInv'
  BY <1>0, <1>2, ToldOrder
<1>3. CASE ServerBeats
  <2> DEFINE m == Told("heartbeat", None, 0)
  <2>1. Notify(m) /\ toServer' = toServer /\ far' = far
    BY <1>3 DEF ServerBeats
  <2>2. m \in Heard /\ m.type # "ice"
    BY Telling
  <2> HIDE DEF m
  <2> QED  BY <1>2, <2>1, <2>2
<1>4. CASE ServerReceives
  <2> DEFINE w == Head(toServer)
             p == w.peer
  <2>1. /\ toServer # <<>> /\ toServer' = Tail(toServer) /\ w \in Asked
        /\ 1 \in 1..Len(toServer) /\ w = toServer[1]
    BY <1>0, <1>4, Reading DEF ServerReceives
  <2>2. \A r : Asks(toServer', r) => Asks(toServer, r)
    BY <1>0, <2>1, AskedLess
  <2>3. CASE w.type = "start" /\ far' = [far EXCEPT !.open = TRUE] /\ Notify(Told("started", None, 0))
    <3> DEFINE m == Told("started", None, 0)
    <3>1. m \in Heard /\ m.type # "ice" /\ Notify(m)
      BY <2>3, Telling
    <3>2. far'.offered = far.offered /\ far'.trickled = far.trickled
      BY <1>0, <2>3 DEF Far
    <3> HIDE DEF m
    <3> QED  BY <1>2, <2>2, <3>1, <3>2
  <2>4. CASE UNCHANGED <<far, toSharer, broke>>
    BY <1>0, <2>2, <2>4, UnheardOrder
  <2>5. CASE /\ w.type = "disconnect-peer" /\ p \in far.members
             /\ far' = [far EXCEPT !.members = @ \ {p}]
             /\ Notify(Told("viewer-left", p, Cardinality(far.members) - 1))
    <3> DEFINE c == Cardinality(far.members) - 1
               m == Told("viewer-left", p, c)
    <3>1. c \in Nat /\ p \in PeerId
      <4>1. far.members \in SUBSET PeerId /\ IsFiniteSet(far.members)
        BY FarSteps
      <4> QED  BY <1>0, <2>5, <4>1, FS_EmptySet
    <3> HIDE DEF c
    <3>2. m \in Heard /\ m.type # "ice"
      BY <3>1, Telling
    <3>3. Notify(m)
      BY <2>5 DEF c
    <3>4. far'.offered = far.offered /\ far'.trickled = far.trickled
      BY <1>0, <2>5 DEF Far
    <3> HIDE DEF m
    <3> QED  BY <1>2, <2>2, <3>2, <3>3, <3>4
  <2>6. CASE /\ w.type \in {"offer", "ice"} /\ toSharer' = toSharer
             /\ far' = IF w.type = "offer" THEN [far EXCEPT !.offered = @ \cup {p}] ELSE far
    <3> SUFFICES ASSUME NEW r \in PeerId PROVE Line(peer'[r], r, toSharer', toServer', far')
      BY DEF OrderInv
    <3>1. Line(peer[r], r, toSharer, toServer, far)
      BY DEF OrderInv
    <3>2. far'.trickled = far.trickled
      BY <1>0, <2>6 DEF Far
    <3>3. ASSUME r \in far'.offered PROVE r \in far.offered \/ Asks(toServer, r)
      <4>1. r \in far.offered \/ (w.type = "offer" /\ r = p)
        BY <1>0, <2>6, <3>3 DEF Far
      <4> QED  BY <2>1, <4>1 DEF Asks
    <3> DEFINE g == far'
               r2 == toServer'
    <3>4. /\ ~Asks(toServer, r) => ~Asks(r2, r)
          /\ r \notin far.offered /\ ~Asks(toServer, r) => r \notin g.offered
          /\ g.trickled[r] = far.trickled[r]
      BY <2>2, <3>2, <3>3
    <3> HIDE DEF g, r2
    <3>5. Line(peer[r], r, toSharer, r2, g)
      BY <3>1, <3>4, KeepsLine
    <3> QED  BY <1>0, <2>6, <3>5 DEF g, r2
  <2>7. CASE /\ w.type \in {"offer", "ice"} /\ p \in far.members /\ far' = far
             /\ Notify(Told("error", p, 0))
    <3> DEFINE m == Told("error", p, 0)
    <3>1. p \in PeerId
      BY <1>0, <2>7 DEF Far
    <3>2. m \in Heard /\ m.type # "ice" /\ Notify(m)
      BY <2>7, <3>1, Telling
    <3> HIDE DEF m
    <3> QED  BY <1>2, <2>2, <2>7, <3>2
  <2> QED  BY <1>4, <2>3, <2>4, <2>5, <2>6, <2>7 DEF ServerReceives, Left
<1> QED  BY <1>1, <1>3, <1>4

(* Neither the far end nor a viewer sees it: a step of the start handler, of *)
(* the audio chain or of a socket that does not end the share.               *)
LEMMA QuietOrder ==
    ASSUME SessionInv, OrderInv, UNCHANGED share
    PROVE  OrderInv'
  BY UnheardOrder DEF share

LEMMA StopIfActiveOrder ==
    ASSUME SessionInv, OrderInv, NEW r, StopIfActive(r)
    PROVE  OrderInv'
<1>1. CASE UNCHANGED vars
  BY <1>1, QuietOrder DEF vars, share
<1>2. CASE Stop
  BY <1>2, StopOrder DEF Stop
<1> QED  BY <1>1, <1>2 DEF StopIfActive

LEMMA HandlerOrder ==
    ASSUME SessionInv, OrderInv, NEW r \in Run,
           \/ StartClicked(r) \/ PickerReturns(r) \/ StartFails(r) \/ WorkletReady(r)
           \/ ConstraintsApplied(r) \/ TrackEnds(r) \/ ContextSuspends(r) \/ Opens(r)
           \/ SocketCloses(r) \/ TimerFires(r) \/ WatchdogFires(r) \/ StartedRefused(r)
    PROVE  OrderInv'
<1>1. CASE Opens(r)
  <2> DEFINE w == Ask("start", None)
  <2>1. /\ toServer' = Append(toServer, w) /\ peer' = peer /\ far' = far /\ toSharer' = toSharer
        /\ toServer \in Seq(Asked)
    BY <1>1 DEF Opens, Send, SessionInv, SessionTyped
  <2>2. w \in Asked /\ w.type # "offer"
    BY DEF Ask, Asked, ToServer
  <2> HIDE DEF w
  <2>3. \A p : Asks(toServer', p) => Asks(toServer, p)
    BY <2>1, <2>2, AskedMore
  <2> QED  BY <2>1, <2>3, UnheardOrder
<1>2. CASE \/ StopIfActive(r) \/ UNCHANGED share \/ \E rs, q : StopFrom(rs, q)
  BY <1>2, StopIfActiveOrder, QuietOrder, StopOrder
<1>3. CASE StartClicked(r) \/ ConstraintsApplied(r) \/ PickerReturns(r)
  BY <1>2, <1>3 DEF StartClicked, ConstraintsApplied, PickerReturns
<1>4. CASE StartFails(r) \/ WorkletReady(r)
  BY <1>2, <1>4 DEF StartFails, WorkletReady
<1>5. CASE TrackEnds(r) \/ ContextSuspends(r)
  BY <1>2, <1>5 DEF TrackEnds, ContextSuspends
<1>6. CASE SocketCloses(r) \/ TimerFires(r) \/ WatchdogFires(r) \/ StartedRefused(r)
  BY <1>2, <1>6 DEF SocketCloses, TimerFires, WatchdogFires, StartedRefused
<1> QED  BY <1>1, <1>3, <1>4, <1>5, <1>6

LEMMA ChainOrder ==
    ASSUME SessionInv, OrderInv, AudioChain
    PROVE  OrderInv'
<1>1. CASE UNCHANGED share \/ \E rs, q : StopFrom(rs, q)
  BY <1>1, QuietOrder, StopOrder
<1>2. CASE AudioOpBegins \/ AudioStarts \/ AudioStops
  BY <1>1, <1>2 DEF AudioOpBegins, AudioStarts, AudioStops
<1>3. CASE AudioRefused
  BY <1>1, <1>3 DEF AudioRefused
<1> QED  BY <1>2, <1>3 DEF AudioChain

LEMMA OrderInit == Init => OrderInv
<1> SUFFICES ASSUME Init, NEW p \in PeerId PROVE Line(peer[p], p, toSharer, toServer, far)
  BY DEF OrderInv
<1>1. /\ peer[p] = [life |-> "none", timer |-> FALSE, iced |-> FALSE, queue |-> <<>>,
                    step |-> "idle", ice |-> <<>>, adding |-> <<>>, added |-> <<>>]
      /\ toSharer = <<>> /\ toServer = <<>> /\ far = NoShare
  BY DEF Init
<1>2. p \notin NoShare.offered /\ NoShare.trickled[p] = 0 /\ ~Asks(<<>>, p) /\ IceOf(<<>>, p) = {}
  BY DEF NoShare, Asks, IceOf
<1> QED  BY <1>1, <1>2 DEF Line, Unknown

LEMMA OrderStep ==
    ASSUME PageInv, PageInv', OrderInv, [Next]_vars
    PROVE  OrderInv'
<1>0. ShareInv /\ SessionInv /\ SessionInv'
  BY DEF PageInv
<1>1. CASE UNCHANGED vars
  BY <1>0, <1>1, QuietOrder DEF vars, share
<1>2. CASE StopClicked \/ PageHides \/ AudioFails
  BY <1>0, <1>2, StopOrder, StopIfActiveOrder DEF StopClicked, PageHides, AudioFails, Stop
<1>3. CASE AudioChain
  BY <1>0, <1>3, ChainOrder
<1>4. ASSUME NEW r \in Run,
             \/ StartClicked(r) \/ PickerReturns(r) \/ StartFails(r) \/ WorkletReady(r)
             \/ ConstraintsApplied(r) \/ TrackEnds(r) \/ ContextSuspends(r) \/ Opens(r)
             \/ SocketCloses(r) \/ TimerFires(r) \/ WatchdogFires(r) \/ StartedRefused(r)
      PROVE  OrderInv'
  BY <1>0, <1>4, HandlerOrder
<1>5. CASE Receives
  BY <1>0, <1>5, ReceivesOrder
<1>6. ASSUME NEW p \in PeerId,
             \/ OfferCreated(p) \/ OfferSet(p) \/ Microtask(p) \/ AnswerSet(p)
             \/ CandidateAdded(p) \/ NegotiationFails(p) \/ PeerConnects(p)
             \/ PeerFails(p) \/ LocalCandidate(p)
      PROVE  OrderInv'
  BY <1>0, <1>6, NegotiationOrder, MicrotaskOrder
<1>7. ASSUME NEW p \in PeerId,
             ViewerJoins(p) \/ ViewerLeaves(p) \/ ViewerAnswers(p) \/ ViewerTrickles(p)
      PROVE  OrderInv'
  BY <1>0, <1>7, FarOrder
<1>8. CASE ServerReceives \/ ServerBeats \/ LinkDies
  BY <1>0, <1>8, ServerOrder
<1> QED  BY <1>1, <1>2, <1>3, <1>4, <1>5, <1>6, <1>7, <1>8 DEF Next, Receives

LEMMA OrderInvariant == Spec => []OrderInv
<1>1. PageInv /\ PageInv' /\ OrderInv /\ [Next]_vars => OrderInv'
  BY OrderStep
<1> QED  BY <1>1, Invariant, OrderInit, PTL DEF Spec

(* However a viewer's queue, its answer and the awaits of its handlers       *)
(* interleave, no candidate of it is lost, doubled or out of its turn.       *)
THEOREM CandidatesKeepOrder == Spec => []CandidatesInOrder
<1>1. PageInv /\ OrderInv => CandidatesInOrder
  <2> SUFFICES ASSUME PageInv, OrderInv, NEW p \in Peers
               PROVE  LET P == peer[p]
                          taken == P.added \o P.adding \o P.ice IN
                      /\ taken = [i \in 1 .. Len(taken) |-> i]
                      /\ InTurn(P.queue \o toSharer, p, Len(taken), far.trickled[p])
                      /\ P.step = "idle" /\ RemoteSet(p) => P.ice = <<>>
    BY DEF CandidatesInOrder
  <2> DEFINE P == peer[p]
             a == P.added
             b == P.adding
             c == P.ice
             taken == a \o b \o c
  <2>1. P \in Viewer /\ Ordered(P, p, toSharer, far.trickled[p])
    BY DEF Peers, Current, PageInv, SessionInv, SessionTyped, OrderInv, Line
  <2>2. /\ Awaiting(P) /\ Lined(P) /\ InTurn(P.queue \o toSharer, p, Count(P), far.trickled[p])
        /\ a \in Seq(Nat) /\ b \in Seq(Nat) /\ c \in Seq(Nat)
    BY <2>1, Sized DEF Ordered
  <2>3. /\ Counted(a, 0) /\ Counted(b, Len(a)) /\ Counted(c, Len(a) + Len(b))
        /\ Count(P) = Len(a) + Len(b) + Len(c)
    BY <2>2 DEF Lined, Count
  <2>4. taken = [i \in 1 .. Len(taken) |-> i] /\ Len(taken) = Count(P)
    <3> HIDE DEF a, b, c, P
    <3> QED  BY <2>2, <2>3, CountedInLine
  <2>5. P.step = "idle" /\ RemoteSet(p) => P.ice = <<>>
    BY <2>2 DEF Awaiting, RemoteSet
  <2>6. InTurn(P.queue \o toSharer, p, Len(taken), far.trickled[p])
    BY <2>2, <2>4
  <2> QED  BY <2>4, <2>5, <2>6
<1> QED  BY <1>1, Invariant, OrderInvariant, PTL
=============================================================================
