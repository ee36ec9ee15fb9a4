----------------------------- MODULE ViewerProofs -----------------------------
(* What holds of the viewer page for any number of attempts to join, of      *)
(* candidates and of messages in flight, with proofs checked by TLAPS.       *)
EXTENDS Viewer, QueueProofs

-----------------------------------------------------------------------------
(* The invariant, in parts. *)

(* A handler that is adding candidates has one to add. *)
Object == {R \in RunObject : R.step \in {"early", "late"} => R.adding # <<>>}
PageTyped ==
    /\ active \in Run \cup {None} /\ lastCode \in BOOLEAN /\ ui \in Page
    /\ plays \subseteq Run \X {"track", "click"}
Typed == PageTyped /\ run \in [Run -> Object] /\ open \in BOOLEAN /\ link \in [Run -> Link]

(* The current run was begun, and a call of play() is of a run that was; the *)
(* one for a new track comes with the track on the screen.                   *)
Begun ==
    /\ active # None => run[active].socket \in {"opening", "open"}
    /\ \A r \in Run : \A cause \in {"track", "click"} : <<r, cause>> \in plays =>
          /\ run[r].socket # "unused"
          /\ r = active /\ cause = "track" => r \in ui.shown

IInv == Typed /\ Begun /\ StaleRunsClosed /\ ScreenMatchesRun

-----------------------------------------------------------------------------
(* Runs and links that the steps make. *)

Ices == Seq(1 .. Candidates)
Messages == Seq(Message)
LEMMA RunObjectIs ==
    RunObject = [socket : {"unused", "opening", "open", "closed"},
                 timer : {"off", "signaling", "direct"}, watchdog : BOOLEAN,
                 pc : {"none", "new", "connected", "closed"}, remote : BOOLEAN,
                 ice : Ices, queue : Messages,
                 step : {"idle", "remote", "early", "answer", "local", "late"},
                 adding : Ices, added : Ices]
  BY DEF RunObject, Ices, Messages

LEMMA ObjectSteps ==
    ASSUME NEW R \in Object
    PROVE  /\ Closed(R) \in Object /\ Abandon(R) \in Object /\ Connected(R) \in Object
           /\ Closed(R).socket = "closed" /\ Closed(R).pc \in {"none", "closed"}
           /\ Closed(R).timer = "off" /\ ~Closed(R).watchdog
<1>1. R \in RunObject
  BY DEF Object
<1>2. Closed(R) \in RunObject
  BY <1>1, RunObjectIs DEF Closed
<1>3. Abandon(R) \in RunObject /\ Connected(R) \in RunObject
  <2>1. <<>> \in Ices
    BY DEF Ices
  <2> QED  BY <1>1, <2>1, RunObjectIs DEF Abandon, Connected
<1>4. /\ Closed(R).step = R.step /\ Closed(R).adding = R.adding
      /\ Abandon(R).step = "idle"
      /\ Connected(R).step = R.step /\ Connected(R).adding = R.adding
  BY <1>1, RunObjectIs DEF Closed, Abandon, Connected
<1>5. /\ Closed(R).socket = "closed" /\ Closed(R).pc \in {"none", "closed"}
      /\ Closed(R).timer = "off" /\ ~Closed(R).watchdog
  BY <1>1, RunObjectIs DEF Closed
<1> QED  BY <1>2, <1>3, <1>4, <1>5 DEF Object

LEMMA NextCandidateTyped ==
    ASSUME NEW R \in Object, NEW rest \in Seq(1 .. Candidates)
    PROVE  NextCandidate(R, rest) \in Object
<1>1. R \in RunObject
  BY DEF Object
<1>2. NextCandidate(R, rest) \in RunObject
  BY <1>1 DEF NextCandidate, RunObject
<1>3. /\ NextCandidate(R, rest).adding = rest
      /\ NextCandidate(R, rest).step \in {"early", "late"} => rest # <<>>
  BY <1>1 DEF NextCandidate, RunObject
<1> QED  BY <1>2, <1>3 DEF Object

LEMMA ContinueTyped ==
    ASSUME NEW R \in Object
    PROVE  Continue(R) \in Object
<1> DEFINE N == NextCandidate(R, R.ice)
<1>1. R.ice \in Seq(1 .. Candidates)
  BY DEF Object, RunObject
<1>2. N \in Object
  BY <1>1, NextCandidateTyped
<1>3. Continue(R) = [N EXCEPT !.ice = <<>>]
  BY DEF Continue
<1> HIDE DEF N
<1>4. N \in RunObject /\ <<>> \in Seq(1 .. Candidates)
  BY <1>2 DEF Object
<1>5. Continue(R) \in RunObject
  BY <1>3, <1>4 DEF RunObject
<1>6. Continue(R).step = N.step /\ Continue(R).adding = N.adding
  BY <1>3, <1>4 DEF RunObject
<1> QED  BY <1>2, <1>5, <1>6 DEF Object

LEMMA MessageTyped ==
    /\ \A type \in {"joined", "offer", "heartbeat", "stopped", "error"} : Msg(type, 0) \in Message
    /\ \A n \in 1 .. Candidates : Msg("ice", n) \in Message
  BY DEF Msg, Message

LEMMA TellTyped ==
    ASSUME NEW L \in Link, NEW m \in Message
    PROVE  Tell(L, m) \in Link
<1>1. L.inbox \in Seq(Message)
  BY DEF Link
<1>2. Append(L.inbox, m) \in Seq(Message)
  BY <1>1
<1> QED  BY <1>2 DEF Tell, Link

LEMMA Reading ==
    ASSUME NEW S, NEW q \in Seq(S), q # <<>>
    PROVE  Head(q) \in S /\ Tail(q) \in Seq(S)
  OBVIOUS

(* cleanup leaves a typed page, closes the current run and blanks the page. *)
LEMMA CleanupEffect ==
    ASSUME Typed, NEW rs \in [Run -> Object], NEW why, NEW retry \in BOOLEAN,
           why \in {"stopped", "error", "timeout", "nat", "silent", "lost", "failed", "ended",
                    "hidden"},
           CleanupFrom(rs, why, retry)
    PROVE  /\ PageTyped' /\ run' \in [Run -> Object]
           /\ active' = None /\ UNCHANGED <<lastCode, plays>>
           /\ ui'.screen = "DISCONNECTED" /\ ui'.shown = {} /\ ~ui'.playable
           /\ ui'.status = why
           /\ \A r \in Run : r # active => run'[r] = rs[r]
           /\ active # None => run'[active] = Closed(rs[active])
<1>1. /\ active' = None /\ UNCHANGED <<lastCode, plays>> /\ ui' = Blank(why, retry)
      /\ run' = [r \in Run |-> IF r = active THEN Closed(rs[r]) ELSE rs[r]]
  BY DEF CleanupFrom
<1>2. lastCode \in BOOLEAN /\ active \in Run \cup {None}
  BY DEF Typed, PageTyped
<1>3. /\ ui' \in Page /\ ui'.screen = "DISCONNECTED" /\ ui'.shown = {} /\ ~ui'.playable
      /\ ui'.status = why
  BY <1>1, <1>2 DEF Blank, Page
<1>4. run' \in [Run -> Object]
  BY <1>1, ObjectSteps
<1>5. PageTyped'
  BY <1>1, <1>2, <1>3 DEF Typed, PageTyped
<1> QED  BY <1>1, <1>2, <1>3, <1>4, <1>5

-----------------------------------------------------------------------------
(* What the steps do to the page and to the runs. *)

(* The parts of a run that belong to the socket, the peer connection and the *)
(* timers; the rest belongs to the promises.                                 *)
Alike(R, S) ==
    R.socket = S.socket /\ R.pc = S.pc /\ R.timer = S.timer /\ R.watchdog = S.watchdog
Same(rs) ==
    /\ rs \in [Run -> Object]
    /\ \A r \in Run : /\ rs[r].socket = run[r].socket /\ rs[r].pc = run[r].pc
                      /\ rs[r].timer = run[r].timer
                      /\ r # active => rs[r].watchdog = run[r].watchdog

Whys == {"stopped", "error", "timeout", "nat", "silent", "lost", "failed", "ended", "hidden"}
CleansUp ==
    \E rs \in [Run -> Object], why \in Whys, retry \in BOOLEAN :
        Same(rs) /\ CleanupFrom(rs, why, retry)
Quiet == UNCHANGED page /\ Same(run')
Joined(r) ==
    /\ active = r /\ run[r].pc = "none"
    /\ \E rs \in [Run -> Object] :
          Same(rs) /\ run' = [rs EXCEPT ![r].pc = "new", ![r].timer = "direct"]
    /\ ui' = [ui EXCEPT !.screen = "CONNECTING", !.status = "connecting"]
    /\ UNCHANGED <<active, lastCode, plays>>

LEMMA PromiseSteps ==
    ASSUME NEW R \in Object
    PROVE  /\ Alike(Continue(R), R) /\ Alike(Abandon(R), R)
           /\ \A rest \in Ices : Alike(NextCandidate(R, rest), R)
<1>1. R \in RunObject
  BY DEF Object
<1>2. \A rest \in Ices : Alike(NextCandidate(R, rest), R) /\ NextCandidate(R, rest) \in Object
  BY <1>1, RunObjectIs, NextCandidateTyped DEF NextCandidate, Alike, Ices
<1>3. Alike(Abandon(R), R)
  BY <1>1, RunObjectIs DEF Abandon, Alike
<1>4. Alike(Continue(R), R)
  <2> DEFINE N == NextCandidate(R, R.ice)
  <2>1. R.ice \in Ices
    BY <1>1, RunObjectIs
  <2>2. Alike(N, R) /\ N \in RunObject
    BY <1>2, <2>1 DEF Object
  <2>3. Continue(R) = [N EXCEPT !.ice = <<>>]
    BY DEF Continue
  <2> HIDE DEF N
  <2> QED  BY <2>2, <2>3, RunObjectIs DEF Alike
<1> QED  BY <1>2, <1>3, <1>4

LEMMA SetOne ==
    ASSUME Typed, NEW r \in Run, NEW R \in Object, Alike(R, run[r])
    PROVE  Same([run EXCEPT ![r] = R])
<1>1. run \in [Run -> Object]
  BY DEF Typed
<1> QED  BY <1>1 DEF Same, Alike

LEMMA SameSelf ==
    ASSUME Typed
    PROVE  Same(run) /\ (UNCHANGED run => Same(run'))
  BY DEF Same, Typed

(* An ignored event, or a cleanup. *)
LEMMA IfActive ==
    ASSUME Typed, NEW r \in Run, NEW why \in Whys, CleanupIfActive(r, why)
    PROVE  Quiet \/ CleansUp
<1>1. CASE active = r
  <2>1. CleanupFrom(run, why, TRUE) /\ Same(run) /\ run \in [Run -> Object]
    BY <1>1, SameSelf DEF CleanupIfActive, Cleanup, Typed
  <2> QED  BY <2>1 DEF CleansUp
<1>2. CASE active # r
  BY <1>2, SameSelf DEF CleanupIfActive, Quiet
<1> QED  BY <1>1, <1>2

LEMMA ReceiveEffect ==
    ASSUME Typed, NEW r \in Run, NEW rs \in [Run -> Object], Same(rs), NEW m \in Message,
           Receive(rs, r, m)
    PROVE  Quiet \/ CleansUp \/ Joined(r)
<1>1. rs[r] \in RunObject
  BY DEF Object
<1>2. CASE active # r
  <2>1. UNCHANGED page /\ run' = rs
    BY <1>2 DEF Receive
  <2> QED  BY <2>1 DEF Quiet, Same
<1>3. ASSUME \/ m.type = "stopped" /\ CleanupFrom(rs, "stopped", FALSE)
             \/ m.type = "error" /\ CleanupFrom(rs, "error", TRUE)
             \/ m.type = "joined" /\ CleanupFrom(rs, "failed", TRUE)
      PROVE  CleansUp
  BY <1>3 DEF CleansUp, Whys
<1>4. ASSUME active = r, m.type = "joined", rs[r].pc = "none",
             run' = [rs EXCEPT ![r].pc = "new", ![r].timer = "direct"],
             ui' = [ui EXCEPT !.screen = "CONNECTING", !.status = "connecting"],
             UNCHANGED <<active, lastCode, plays>>
      PROVE  Joined(r)
  BY <1>4 DEF Joined, Same
<1>5. ASSUME active = r, m.type \in {"offer", "ice"}, UNCHANGED page,
             run' = IF rs[r].pc = "none" \/ (m.type = "offer" /\ rs[r].remote) THEN rs
                    ELSE IF m.type = "offer" THEN [rs EXCEPT ![r].step = "remote"]
                    ELSE IF rs[r].remote
                    THEN [rs EXCEPT ![r].step = "late", ![r].adding = <<m.n>>]
                    ELSE [rs EXCEPT ![r].ice = Append(@, m.n)]
      PROVE  Quiet
  <2>1. CASE run' = rs
    BY <1>5, <2>1 DEF Quiet, Same
  <2>2. ASSUME NEW R \in Object, Alike(R, rs[r]), run' = [rs EXCEPT ![r] = R]
        PROVE  Quiet
    BY <1>5, <2>2 DEF Quiet, Same, Alike
  <2>3. CASE run' = [rs EXCEPT ![r].step = "remote"]
    <3> DEFINE R == [rs[r] EXCEPT !.step = "remote"]
    <3>1. R \in RunObject /\ R.step = "remote" /\ Alike(R, rs[r])
      BY <1>1, RunObjectIs DEF Alike
    <3>2. R \in Object /\ run' = [rs EXCEPT ![r] = R]
      BY <2>3, <3>1 DEF Object
    <3> QED  BY <2>2, <3>1, <3>2
  <2>4. m.type = "ice" => m.n \in 1 .. Candidates
    BY DEF Message
  <2>5. CASE m.type = "ice" /\ run' = [rs EXCEPT ![r].step = "late", ![r].adding = <<m.n>>]
    <3> DEFINE R == [rs[r] EXCEPT !.step = "late", !.adding = <<m.n>>]
    <3>1. <<m.n>> \in Ices /\ <<m.n>> # <<>>
      BY <2>4, <2>5 DEF Ices
    <3>2. R \in RunObject /\ R.adding = <<m.n>> /\ Alike(R, rs[r])
      BY <1>1, <3>1, RunObjectIs DEF Alike
    <3>3. R \in Object /\ run' = [rs EXCEPT ![r] = R]
      BY <2>5, <3>1, <3>2 DEF Object
    <3> QED  BY <2>2, <3>2, <3>3
  <2>6. CASE m.type = "ice" /\ run' = [rs EXCEPT ![r].ice = Append(@, m.n)]
    <3> DEFINE q == Append(rs[r].ice, m.n)
               R == [rs[r] EXCEPT !.ice = q]
    <3>1. rs[r].ice \in Ices
      BY <1>1, RunObjectIs
    <3>2. q \in Ices
      BY <2>4, <2>6, <3>1 DEF Ices
    <3>3. run' = [rs EXCEPT ![r] = R]
      BY <2>6
    <3> HIDE DEF q
    <3>4. R \in RunObject /\ R.adding = rs[r].adding /\ R.step = rs[r].step /\ Alike(R, rs[r])
      BY <1>1, <3>2, RunObjectIs DEF Alike
    <3>5. R \in Object
      BY <3>4 DEF Object
    <3> QED  BY <2>2, <3>3, <3>4, <3>5
  <2> QED  BY <1>5, <2>1, <2>3, <2>5, <2>6
<1> QED  BY <1>2, <1>3, <1>4, <1>5 DEF Receive

LEMMA MessagesTyped ==
    ASSUME Typed, NEW r \in Run
    PROVE  /\ run[r] \in Object /\ run[r] \in RunObject /\ link[r] \in Link
           /\ run[r].queue \in Messages /\ run[r].ice \in Ices /\ run[r].adding \in Ices
           /\ run[r].added \in Ices /\ link[r].inbox \in Messages
           /\ run[r].step \in {"early", "late"} => run[r].adding # <<>>
<1>1. run[r] \in Object /\ link[r] \in Link
  BY DEF Typed
<1>2. run[r] \in RunObject
  BY <1>1 DEF Object
<1>3. link[r].inbox \in Messages
  BY <1>1 DEF Link, Messages
<1> QED  BY <1>1, <1>2, <1>3, RunObjectIs DEF Object

LEMMA ArrivesEffect ==
    ASSUME Typed, StaleRunsClosed, NEW r \in Run, Arrives(r)
    PROVE  Quiet \/ CleansUp \/ Joined(r)
<1> DEFINE m == Head(link[r].inbox)
           rs == [run EXCEPT ![r].watchdog = TRUE]
<1>1. r = active
  BY DEF Arrives, StaleRunsClosed
<1>2. m \in Message
  BY MessagesTyped, Reading DEF Arrives, Messages
<1>3. rs \in [Run -> Object] /\ Same(rs) /\ rs[r].queue = run[r].queue
  <2> DEFINE R == [run[r] EXCEPT !.watchdog = TRUE]
  <2>1. rs = [run EXCEPT ![r] = R]
    BY DEF Typed
  <2>2. /\ R \in RunObject /\ R.step = run[r].step /\ R.adding = run[r].adding
        /\ R.socket = run[r].socket /\ R.pc = run[r].pc /\ R.timer = run[r].timer
        /\ R.queue = run[r].queue
    BY MessagesTyped, RunObjectIs
  <2>3. R \in Object
    BY <2>2, MessagesTyped DEF Object
  <2> HIDE DEF R
  <2>4. run \in [Run -> Object]
    BY DEF Typed
  <2> QED  BY <1>1, <2>1, <2>2, <2>3, <2>4 DEF Same
<1>4. CASE m.type \in Urgent
  <2>1. Receive(rs, r, m)
    BY <1>4 DEF Arrives
  <2> HIDE DEF m, rs
  <2> QED  BY <1>2, <1>3, <2>1, ReceiveEffect
<1>5. CASE m.type \notin Urgent
  <2>1. UNCHANGED page
    BY <1>5 DEF Arrives
  <2>2. CASE m.type = "heartbeat"
    <3>1. run' = rs
      BY <1>5, <2>2 DEF Arrives
    <3> QED  BY <1>3, <2>1, <3>1 DEF Quiet, Same
  <2>3. CASE m.type # "heartbeat"
    <3> DEFINE q == Append(rs[r].queue, m)
               R == [rs[r] EXCEPT !.queue = q]
    <3>1. run' = [rs EXCEPT ![r] = R]
      BY <1>5, <2>3 DEF Arrives
    <3>2. q \in Messages
      BY <1>2, <1>3, MessagesTyped DEF Messages
    <3>3. rs[r] \in Object /\ rs[r] \in RunObject
      BY <1>3 DEF Object
    <3> HIDE DEF q, rs, m
    <3>4. R \in RunObject /\ R.adding = rs[r].adding /\ R.step = rs[r].step /\ Alike(R, rs[r])
      BY <3>2, <3>3, RunObjectIs DEF Alike
    <3>5. R \in Object
      BY <3>3, <3>4 DEF Object
    <3> HIDE DEF R
    <3> QED  BY <1>3, <2>1, <3>1, <3>4, <3>5 DEF Quiet, Same, Alike
  <2> QED  BY <2>2, <2>3
<1> QED  BY <1>4, <1>5

LEMMA MicrotaskEffect ==
    ASSUME Typed, NEW r \in Run, Microtask(r)
    PROVE  Quiet \/ CleansUp \/ Joined(r)
<1> DEFINE m == Head(run[r].queue)
           q == Tail(run[r].queue)
           rs == [run EXCEPT ![r].queue = Tail(@)]
           R == [run[r] EXCEPT !.queue = q]
<1>1. m \in Message /\ q \in Messages
  BY MessagesTyped, Reading DEF Microtask, Ready, Messages
<1>2. rs = [run EXCEPT ![r] = R]
  BY DEF Typed
<1>3. Receive(rs, r, m)
  BY DEF Microtask
<1> HIDE DEF m, q, rs
<1>4. R \in RunObject /\ R.adding = run[r].adding /\ R.step = run[r].step /\ Alike(R, run[r])
  BY <1>1, MessagesTyped, RunObjectIs DEF Alike
<1>5. R \in Object
  BY <1>4, MessagesTyped DEF Object
<1>6. Same(rs)
  BY <1>2, <1>4, <1>5, SetOne
<1>7. rs \in [Run -> Object]
  BY <1>6 DEF Same
<1> QED  BY <1>1, <1>3, <1>6, <1>7, ReceiveEffect

(* The steps of a run's promises. *)
LEMMA PromiseEffect ==
    ASSUME Typed, NEW r \in Run,
           RemoteSet(r) \/ CandidateAdded(r) \/ AnswerCreated(r) \/ LocalSet(r)
             \/ NegotiationFails(r)
    PROVE  Quiet \/ CleansUp
<1> USE MessagesTyped
<1>1. ASSUME UNCHANGED page, NEW R \in Object, Alike(R, run[r]), run' = [run EXCEPT ![r] = R]
      PROVE  Quiet
  <2>1. Same([run EXCEPT ![r] = R])
    BY <1>1, SetOne
  <2> QED  BY <1>1, <2>1 DEF Quiet
<1>2. CASE RemoteSet(r)
  <2> DEFINE R == [run[r] EXCEPT !.remote = TRUE]
  <2>1. R \in RunObject /\ R.step = run[r].step /\ R.adding = run[r].adding /\ Alike(R, run[r])
    BY RunObjectIs DEF Alike
  <2>2. R \in Object
    BY <2>1 DEF Object
  <2>3. UNCHANGED page
    BY <1>2 DEF RemoteSet
  <2>4. run' = [run EXCEPT ![r] = IF active = r THEN Continue(R) ELSE Abandon(R)]
    BY <1>2 DEF RemoteSet
  <2> HIDE DEF R
  <2>5. /\ Continue(R) \in Object /\ Alike(Continue(R), R)
        /\ Abandon(R) \in Object /\ Alike(Abandon(R), R)
    BY <2>2, ContinueTyped, ObjectSteps, PromiseSteps
  <2>6. Alike(Continue(R), run[r]) /\ Alike(Abandon(R), run[r])
    BY <2>1, <2>5 DEF Alike
  <2> QED  BY <1>1, <2>3, <2>4, <2>5, <2>6
<1>3. CASE CandidateAdded(r)
  <2> DEFINE added == Append(run[r].added, Head(run[r].adding))
             R == [run[r] EXCEPT !.added = added]
             rest == Tail(R.adding)
  <2>1. /\ UNCHANGED page
        /\ run' = [run EXCEPT ![r] = IF active # r \/ R.step = "late" THEN Abandon(R)
                                     ELSE NextCandidate(R, rest)]
    BY <1>3 DEF CandidateAdded
  <2>2. run[r].adding # <<>>
    BY <1>3 DEF CandidateAdded, Settled
  <2>3. added \in Ices /\ Tail(run[r].adding) \in Ices
    <3>1. run[r].added \in Seq(1 .. Candidates) /\ run[r].adding \in Seq(1 .. Candidates)
      BY DEF Ices
    <3>2. Head(run[r].adding) \in 1 .. Candidates /\ Tail(run[r].adding) \in Seq(1 .. Candidates)
      BY <2>2, <3>1, Reading
    <3>3. Append(run[r].added, Head(run[r].adding)) \in Seq(1 .. Candidates)
      BY <3>1, <3>2
    <3> QED  BY <3>2, <3>3 DEF Ices
  <2> HIDE DEF added
  <2>4. R \in RunObject /\ R.step = run[r].step /\ R.adding = run[r].adding /\ Alike(R, run[r])
    BY <2>3, RunObjectIs DEF Alike
  <2>5. R \in Object
    BY <2>4 DEF Object
  <2>6. rest \in Ices
    BY <2>3, <2>4
  <2> HIDE DEF R, rest
  <2>7. /\ NextCandidate(R, rest) \in Object /\ Alike(NextCandidate(R, rest), R)
        /\ Abandon(R) \in Object /\ Alike(Abandon(R), R)
    BY <2>5, <2>6, NextCandidateTyped, ObjectSteps, PromiseSteps DEF Ices
  <2>8. Alike(NextCandidate(R, rest), run[r]) /\ Alike(Abandon(R), run[r])
    BY <2>4, <2>7 DEF Alike
  <2> QED  BY <1>1, <2>1, <2>7, <2>8
<1>4. CASE AnswerCreated(r) \/ LocalSet(r)
  <2>1. /\ UNCHANGED page
        /\ \E step \in {"local", "idle"} : run' = [run EXCEPT ![r].step = step]
    <3>1. CASE AnswerCreated(r)
      BY <3>1 DEF AnswerCreated
    <3>2. CASE LocalSet(r)
      BY <3>2 DEF LocalSet
    <3> QED  BY <1>4, <3>1, <3>2
  <2>2. PICK step \in {"local", "idle"} : run' = [run EXCEPT ![r].step = step]
    BY <2>1
  <2> DEFINE R == [run[r] EXCEPT !.step = step]
  <2>3. R \in RunObject /\ R.step = step /\ Alike(R, run[r]) /\ run' = [run EXCEPT ![r] = R]
    BY <2>2, RunObjectIs DEF Alike
  <2>4. R \in Object
    BY <2>2, <2>3 DEF Object
  <2> HIDE DEF R
  <2> QED  BY <1>1, <2>1, <2>3, <2>4
<1>5. CASE NegotiationFails(r)
  <2> DEFINE A == Abandon(run[r])
             R == [A EXCEPT !.queue = <<>>]
             rs == [run EXCEPT ![r] = [Abandon(@) EXCEPT !.queue = <<>>]]
  <2>1. rs = [run EXCEPT ![r] = R]
    BY DEF Typed
  <2>2. IF active = r THEN CleanupFrom(rs, "failed", TRUE) ELSE run' = rs /\ UNCHANGED page
    BY <1>5 DEF NegotiationFails
  <2>3. A \in Object /\ A \in RunObject /\ Alike(A, run[r])
    BY ObjectSteps, PromiseSteps DEF Object
  <2>4. <<>> \in Messages
    BY DEF Messages
  <2> HIDE DEF A, rs
  <2>5. R \in RunObject /\ R.step = A.step /\ R.adding = A.adding /\ Alike(R, run[r])
    BY <2>3, <2>4, RunObjectIs DEF Alike
  <2>6. R \in Object
    BY <2>3, <2>5 DEF Object
  <2> HIDE DEF R
  <2>7. Same(rs)
    BY <2>1, <2>5, <2>6, SetOne
  <2>8. rs \in [Run -> Object]
    BY <2>7 DEF Same
  <2>9. CASE active = r
    BY <2>2, <2>7, <2>8, <2>9 DEF CleansUp, Whys
  <2>10. CASE active # r
    BY <2>2, <2>7, <2>10 DEF Quiet
  <2> QED  BY <2>9, <2>10
<1> QED  BY <1>2, <1>3, <1>4, <1>5

(* What a step does to the page and the runs. *)
LEMMA Kinds ==
    ASSUME Typed, StaleRunsClosed, Next
    PROVE  \/ Quiet \/ CleansUp \/ PlayClicked \/ VideoPlays
           \/ \E r \in Run : \/ Joined(r) \/ Join(r) \/ Opens(r)
                             \/ TrackArrives(r) \/ PeerConnects(r)
                             \/ \E cause \in {"track", "click"} : PlaySettles(r, cause)
<1>1. CASE PageHides
  <2>1. CleanupFrom(run, "hidden", FALSE) /\ Same(run) /\ run \in [Run -> Object]
    BY <1>1, SameSelf DEF PageHides, Cleanup, Typed
  <2> QED  BY <2>1 DEF CleansUp, Whys
<1>2. ASSUME NEW r \in Run, SocketCloses(r) \/ TimerFires(r) \/ WatchdogFires(r) \/ TrackEnds(r)
      PROVE  Quiet \/ CleansUp
  <2>1. \E why \in Whys : CleanupIfActive(r, why)
    BY <1>2 DEF SocketCloses, TimerFires, WatchdogFires, TrackEnds, Whys
  <2> QED  BY <2>1, IfActive
<1>3. ASSUME NEW r \in Run, PeerFails(r) PROVE CleansUp
  <2>1. CleanupFrom(run, "nat", TRUE) /\ Same(run) /\ run \in [Run -> Object]
    BY <1>3, SameSelf DEF PeerFails, Cleanup, Typed
  <2> QED  BY <2>1 DEF CleansUp, Whys
<1>4. ASSUME UNCHANGED <<page, run>> PROVE Quiet
  BY <1>4, SameSelf DEF Quiet
<1>5. ASSUME NEW r \in Run,
             \/ ServerAdmits(r) \/ ServerRejects(r) \/ SharerOffers(r) \/ SharerTrickles(r)
             \/ ServerBeats(r) \/ LinkDies(r) \/ LocalCandidate(r)
      PROVE  Quiet
  BY <1>4, <1>5 DEF ServerAdmits, ServerRejects, SharerOffers, SharerTrickles, ServerBeats,
                    LinkDies, LocalCandidate
<1>6. CASE SessionEnds
  BY <1>4, <1>6 DEF SessionEnds
<1>7. ASSUME NEW r \in Run, Submit(r) \/ Reconnect(r) PROVE Join(r)
  BY <1>7 DEF Submit, Reconnect
<1> QED  BY <1>1, <1>2, <1>3, <1>5, <1>6, <1>7, ArrivesEffect, MicrotaskEffect, PromiseEffect
         DEF Next

-----------------------------------------------------------------------------
(* Types. *)

LEMMA LinkTyped ==
    ASSUME Typed, [Next]_vars
    PROVE  link' \in [Run -> Link] /\ open' \in BOOLEAN
<1> USE MessagesTyped
<1>0. link \in [Run -> Link] /\ open \in BOOLEAN
  BY DEF Typed
<1>1. ASSUME NEW r \in Run, NEW L \in Link, link' = [link EXCEPT ![r] = L]
      PROVE  link' \in [Run -> Link]
  BY <1>0, <1>1
<1>2. ASSUME NEW r \in Run, NEW type \in {"join", "ice", "answer"},
             link' = [link EXCEPT ![r].sent = Append(@, type)]
      PROVE  link' \in [Run -> Link]
  <2> DEFINE q == Append(link[r].sent, type)
             L == [link[r] EXCEPT !.sent = q]
  <2>1. q \in Seq({"join", "ice", "answer"})
    BY DEF Link
  <2>2. link' = [link EXCEPT ![r] = L]
    BY <1>0, <1>2
  <2> HIDE DEF q
  <2>3. L \in Link
    BY <2>1 DEF Link
  <2> QED  BY <1>1, <2>2, <2>3
<1>3. ASSUME NEW r \in Run, LocalSet(r) \/ LocalCandidate(r) \/ Opens(r)
      PROVE  link' \in [Run -> Link] /\ open' \in BOOLEAN
  <2>1. UNCHANGED open
    BY <1>3 DEF LocalSet, LocalCandidate, Opens, far
  <2>2. \/ UNCHANGED link
        \/ \E type \in {"join", "ice", "answer"} :
              link' = [link EXCEPT ![r].sent = Append(@, type)]
    <3>1. CASE LocalSet(r)
      BY <3>1 DEF LocalSet, Send
    <3>2. CASE LocalCandidate(r)
      BY <3>2 DEF LocalCandidate, Send
    <3>3. CASE Opens(r)
      BY <3>3 DEF Opens
    <3> QED  BY <1>3, <3>1, <3>2, <3>3
  <2> QED  BY <1>0, <1>2, <2>1, <2>2
<1>4. ASSUME NEW r \in Run, Arrives(r) PROVE link' \in [Run -> Link] /\ open' \in BOOLEAN
  <2> DEFINE q == Tail(link[r].inbox)
             L == [link[r] EXCEPT !.inbox = q]
  <2>1. q \in Messages
    BY <1>4, Reading DEF Arrives, Messages
  <2>2. link' = [link EXCEPT ![r] = L] /\ UNCHANGED open
    BY <1>0, <1>4 DEF Arrives
  <2> HIDE DEF q
  <2>3. L \in Link
    BY <2>1 DEF Link, Messages
  <2> QED  BY <1>0, <1>1, <2>2, <2>3
<1>5. ASSUME NEW r \in Run, NEW m \in Message, NEW member \in {"no", "yes", "out"},
             NEW offered \in BOOLEAN, NEW trickled \in 0 .. Candidates
      PROVE  [Tell(link[r], m) EXCEPT !.member = member, !.offered = offered,
                                      !.trickled = trickled] \in Link
  <2>1. Tell(link[r], m) \in Link
    BY TellTyped
  <2> QED  BY <2>1 DEF Link
<1>6. ASSUME NEW r \in Run, ServerAdmits(r) PROVE link' \in [Run -> Link] /\ open' \in BOOLEAN
  <2>1. Tell(link[r], Msg("joined", 0)) \in Link
    BY MessageTyped, TellTyped
  <2>2. [Tell(link[r], Msg("joined", 0)) EXCEPT !.member = "yes"] \in Link
    BY <2>1 DEF Link
  <2> QED  BY <1>0, <1>1, <1>6, <2>2 DEF ServerAdmits
<1>7. ASSUME NEW r \in Run, ServerRejects(r) PROVE link' \in [Run -> Link] /\ open' \in BOOLEAN
  <2>1. Tell(link[r], Msg("error", 0)) \in Link
    BY MessageTyped, TellTyped
  <2>2. [Tell(link[r], Msg("error", 0)) EXCEPT !.member = "out"] \in Link
    BY <2>1 DEF Link
  <2> QED  BY <1>0, <1>1, <1>7, <2>2 DEF ServerRejects
<1>8. ASSUME NEW r \in Run, SharerOffers(r) PROVE link' \in [Run -> Link] /\ open' \in BOOLEAN
  <2>1. Tell(link[r], Msg("offer", 0)) \in Link
    BY MessageTyped, TellTyped
  <2>2. [Tell(link[r], Msg("offer", 0)) EXCEPT !.offered = TRUE] \in Link
    BY <2>1 DEF Link
  <2> QED  BY <1>0, <1>1, <1>8, <2>2 DEF SharerOffers
<1>9. ASSUME NEW r \in Run, SharerTrickles(r) PROVE link' \in [Run -> Link] /\ open' \in BOOLEAN
  <2> DEFINE n == link[r].trickled + 1
  <2>1. n \in 1 .. Candidates /\ n \in 0 .. Candidates
    BY <1>9, ViewerAssumption DEF SharerTrickles, Link
  <2>2. UNCHANGED open /\ link' = [link EXCEPT ![r] = [Tell(@, Msg("ice", n)) EXCEPT !.trickled = n]]
    BY <1>9 DEF SharerTrickles
  <2> HIDE DEF n
  <2>3. Tell(link[r], Msg("ice", n)) \in Link
    BY <2>1, MessageTyped, TellTyped
  <2>4. [Tell(link[r], Msg("ice", n)) EXCEPT !.trickled = n] \in Link
    BY <2>1, <2>3 DEF Link
  <2> QED  BY <1>0, <1>1, <2>2, <2>4
<1>10. ASSUME NEW r \in Run, ServerBeats(r) PROVE link' \in [Run -> Link] /\ open' \in BOOLEAN
  <2>1. Tell(link[r], Msg("heartbeat", 0)) \in Link
    BY MessageTyped, TellTyped
  <2> QED  BY <1>0, <1>1, <1>10, <2>1 DEF ServerBeats
<1>11. ASSUME NEW r \in Run, LinkDies(r) PROVE link' \in [Run -> Link] /\ open' \in BOOLEAN
  <2> DEFINE L == [link[r] EXCEPT !.silent = TRUE]
  <2>1. L \in Link
    BY DEF Link
  <2>2. link' = [link EXCEPT ![r] = L] /\ UNCHANGED open
    BY <1>0, <1>11 DEF LinkDies
  <2> QED  BY <1>0, <1>1, <2>1, <2>2
<1>12. CASE SessionEnds
  <2>1. ASSUME NEW r \in Run
        PROVE  [Tell(link[r], Msg("stopped", 0)) EXCEPT !.member = "out"] \in Link
    <3>1. Tell(link[r], Msg("stopped", 0)) \in Link
      BY MessageTyped, TellTyped
    <3> QED  BY <3>1 DEF Link
  <2>2. PICK told \in SUBSET Run :
            link' = [r \in Run |-> IF r \in told
                              THEN [Tell(link[r], Msg("stopped", 0)) EXCEPT !.member = "out"]
                              ELSE link[r]]
    BY <1>12 DEF SessionEnds
  <2>3. open' = FALSE
    BY <1>12 DEF SessionEnds
  <2> QED  BY <2>1, <2>2, <2>3
<1>13. ASSUME NEW r \in Run,
              \/ Submit(r) \/ Reconnect(r) \/ \E cause \in {"track", "click"} : PlaySettles(r, cause)
              \/ Microtask(r) \/ SocketCloses(r) \/ TimerFires(r) \/ WatchdogFires(r)
       PROVE  UNCHANGED far
  BY <1>13 DEF Submit, Reconnect, Join, PlaySettles, Microtask, SocketCloses, TimerFires,
               WatchdogFires
<1>14. ASSUME NEW r \in Run,
              \/ RemoteSet(r) \/ CandidateAdded(r) \/ AnswerCreated(r) \/ NegotiationFails(r)
              \/ TrackArrives(r) \/ TrackEnds(r) \/ PeerConnects(r) \/ PeerFails(r)
       PROVE  UNCHANGED far
  BY <1>14 DEF RemoteSet, CandidateAdded, AnswerCreated, NegotiationFails, TrackArrives,
               TrackEnds, PeerConnects, PeerFails
<1>15. CASE PageHides \/ PlayClicked \/ VideoPlays \/ UNCHANGED vars
  BY <1>0, <1>15 DEF PageHides, PlayClicked, VideoPlays, vars, far
<1>16. UNCHANGED far => link' \in [Run -> Link] /\ open' \in BOOLEAN
  BY <1>0 DEF far
<1> QED  BY <1>3, <1>4, <1>6, <1>7, <1>8, <1>9, <1>10, <1>11, <1>12, <1>13, <1>14, <1>15, <1>16
         DEF Next

-----------------------------------------------------------------------------
(* The invariant. *)

LEMMA OpeningTyped ==
    /\ Opening \in Object
    /\ Opening.socket = "opening" /\ Opening.pc = "none" /\ Opening.timer = "signaling"
    /\ ~Opening.watchdog
<1>1. <<>> \in Ices /\ <<>> \in Messages
  BY DEF Ices, Messages
<1>2. Opening \in RunObject
  BY <1>1, RunObjectIs DEF Opening, Unused
<1> QED  BY <1>2 DEF Opening, Unused, Object

LEMMA Initially == Init => IInv
<1> SUFFICES ASSUME Init PROVE IInv
  OBVIOUS
<1>1. <<>> \in Ices /\ <<>> \in Messages /\ <<>> \in Seq({"join", "ice", "answer"})
  BY DEF Ices, Messages
<1>2. Unused \in RunObject /\ Unused.step = "idle"
  BY <1>1, RunObjectIs DEF Unused
<1>3. run \in [Run -> Object]
  BY <1>2 DEF Init, Object
<1>4. link \in [Run -> Link]
  <2>1. [silent |-> FALSE, member |-> "no", offered |-> FALSE, trickled |-> 0,
         inbox |-> <<>>, sent |-> <<>>] \in Link
    BY <1>1, ViewerAssumption DEF Link, Messages
  <2> QED  BY <2>1 DEF Init
<1>5. PageTyped /\ open \in BOOLEAN
  BY DEF Init, PageTyped, Page
<1>6. \A r \in Run : run[r] = Unused
  BY DEF Init
<1>7. active = None /\ plays = {} /\ ui.shown = {} /\ ui.screen = "DISCONNECTED"
      /\ ~ui.playable /\ ~ui.reconnect
  BY DEF Init
<1>8. StaleRunsClosed
  BY <1>6, <1>7 DEF StaleRunsClosed, Unused
<1>9. Begun /\ ScreenMatchesRun
  BY <1>7 DEF Begun, ScreenMatchesRun
<1> QED  BY <1>3, <1>4, <1>5, <1>8, <1>9 DEF IInv, Typed

(* The part of the invariant that is not about the link. *)
PInv == /\ PageTyped /\ run \in [Run -> Object]
        /\ Begun /\ StaleRunsClosed /\ ScreenMatchesRun

LEMMA QuietKeeps ==
    ASSUME IInv, Quiet
    PROVE  PInv'
<1>1. /\ UNCHANGED <<active, lastCode, ui, plays>> /\ run' \in [Run -> Object]
      /\ \A r \in Run : /\ run'[r].socket = run[r].socket /\ run'[r].pc = run[r].pc
                        /\ run'[r].timer = run[r].timer
                        /\ r # active => run'[r].watchdog = run[r].watchdog
  BY DEF Quiet, Same, page
<1>2. PageTyped'
  BY <1>1 DEF IInv, Typed, PageTyped
<1>3. active \in Run \cup {None}
  BY DEF IInv, Typed, PageTyped
<1>4. Begun'
  BY <1>1, <1>3 DEF IInv, Begun
<1>5. StaleRunsClosed'
  BY <1>1, <1>3 DEF IInv, StaleRunsClosed
<1>6. ScreenMatchesRun'
  BY <1>1, <1>3 DEF IInv, ScreenMatchesRun, PageTyped
<1> QED  BY <1>1, <1>2, <1>4, <1>5, <1>6 DEF PInv

LEMMA CleanupKeeps ==
    ASSUME IInv, CleansUp
    PROVE  PInv'
<1>1. PICK rs \in [Run -> Object], why \in Whys, retry \in BOOLEAN :
          Same(rs) /\ CleanupFrom(rs, why, retry)
  BY DEF CleansUp
<1>2. /\ PageTyped' /\ run' \in [Run -> Object]
      /\ active' = None /\ UNCHANGED <<lastCode, plays>>
      /\ ui'.screen = "DISCONNECTED" /\ ui'.shown = {} /\ ~ui'.playable
      /\ \A r \in Run : r # active => run'[r] = rs[r]
      /\ active # None => run'[active] = Closed(rs[active])
  BY <1>1, CleanupEffect DEF IInv, Whys
<1>3. /\ active \in Run \cup {None}
      /\ \A r \in Run : /\ rs[r].socket = run[r].socket /\ rs[r].pc = run[r].pc
                        /\ rs[r].timer = run[r].timer
                        /\ r # active => rs[r].watchdog = run[r].watchdog
  BY <1>1 DEF IInv, Typed, PageTyped, Same
<1>4. \A r \in Run : r = active =>
          /\ run'[r].socket = "closed" /\ run'[r].pc \in {"none", "closed"}
          /\ run'[r].timer = "off" /\ ~run'[r].watchdog
  BY <1>2, ObjectSteps, ViewerAssumption
<1>5. StaleRunsClosed'
  BY <1>2, <1>3, <1>4 DEF IInv, StaleRunsClosed
<1>6. Begun'
  <2>1. ASSUME NEW r \in Run, NEW cause \in {"track", "click"}, <<r, cause>> \in plays
        PROVE  run'[r].socket # "unused"
    BY <1>2, <1>3, <1>4, <2>1 DEF IInv, Begun
  <2> QED  BY <1>2, <2>1, ViewerAssumption DEF Begun
<1>7. ScreenMatchesRun'
  BY <1>2 DEF ScreenMatchesRun
<1> QED  BY <1>2, <1>5, <1>6, <1>7 DEF PInv

LEMMA OtherKeeps ==
    ASSUME IInv, NEW r \in Run,
           Joined(r) \/ Join(r) \/ Opens(r) \/ TrackArrives(r) \/ PeerConnects(r)
    PROVE  PInv'
<1>0. /\ run \in [Run -> Object] /\ active \in Run \cup {None} /\ None \notin Run
      /\ ui \in Page /\ lastCode \in BOOLEAN /\ plays \subseteq Run \X {"track", "click"}
      /\ run[r] \in RunObject /\ run[r] \in Object
  BY ViewerAssumption DEF IInv, Typed, PageTyped, Object
<1>1. CASE Joined(r)
  <2>1. PICK rs \in [Run -> Object] :
            Same(rs) /\ run' = [rs EXCEPT ![r].pc = "new", ![r].timer = "direct"]
    BY <1>1 DEF Joined
  <2> DEFINE R == [rs[r] EXCEPT !.pc = "new", !.timer = "direct"]
  <2>2. rs[r] \in RunObject /\ rs[r] \in Object
    BY <2>1 DEF Object
  <2>3. /\ R \in RunObject /\ R.pc = "new" /\ R.timer = "direct" /\ R.socket = rs[r].socket
        /\ R.step = rs[r].step /\ R.adding = rs[r].adding
    BY <2>2, RunObjectIs
  <2>4. R \in Object /\ run' = [rs EXCEPT ![r] = R]
    BY <2>1, <2>2, <2>3 DEF Object
  <2> HIDE DEF R
  <2>5. run' \in [Run -> Object] /\ run'[r] = R /\ \A o \in Run : o # r => run'[o] = rs[o]
    BY <2>4
  <2>6. /\ active = r /\ UNCHANGED <<active, lastCode, plays>> /\ run[r].pc = "none"
        /\ ui' = [ui EXCEPT !.screen = "CONNECTING", !.status = "connecting"]
    BY <1>1 DEF Joined
  <2>7. /\ ui' \in Page /\ ui'.screen = "CONNECTING" /\ ui'.shown = ui.shown
        /\ ui'.playable = ui.playable /\ ui'.reconnect = ui.reconnect
    BY <1>0, <2>6 DEF Page
  <2>8. PageTyped'
    BY <1>0, <2>6, <2>7 DEF PageTyped
  <2>9. \A o \in Run : rs[o].socket = run[o].socket /\ rs[o].pc = run[o].pc
                       /\ rs[o].timer = run[o].timer
                       /\ (o # active => rs[o].watchdog = run[o].watchdog)
    BY <2>1 DEF Same
  <2>10. Begun'
    BY <2>3, <2>5, <2>6, <2>7, <2>9 DEF IInv, Begun
  <2>11. StaleRunsClosed'
    BY <2>5, <2>6, <2>7, <2>9 DEF IInv, StaleRunsClosed
  <2>12. ScreenMatchesRun'
    BY <1>0, <2>3, <2>5, <2>6, <2>7 DEF IInv, ScreenMatchesRun
  <2> QED  BY <2>5, <2>8, <2>10, <2>11, <2>12 DEF PInv
<1>2. CASE Join(r)
  <2>1. /\ active = None /\ run[r].socket = "unused"
        /\ active' = r /\ lastCode' = TRUE /\ plays' = plays
        /\ run' = [run EXCEPT ![r] = Opening]
        /\ ui' = [Blank("opening", FALSE) EXCEPT !.screen = "JOINING"]
    BY <1>2 DEF Join
  <2>2. /\ run' \in [Run -> Object] /\ run'[r] = Opening
        /\ \A o \in Run : o # r => run'[o] = run[o]
    BY <1>0, <2>1, OpeningTyped
  <2>3. /\ ui' \in Page /\ ui'.screen = "JOINING" /\ ui'.shown = {}
        /\ ~ui'.playable /\ ~ui'.reconnect
    BY <1>0, <2>1 DEF Blank, Page
  <2>4. PageTyped'
    BY <1>0, <2>1, <2>3 DEF PageTyped
  <2>5. \A cause \in {"track", "click"} : <<r, cause>> \notin plays
    BY <2>1 DEF IInv, Begun
  <2>6. Begun'
    BY <1>0, <2>1, <2>2, <2>5, OpeningTyped DEF IInv, Begun
  <2>7. StaleRunsClosed'
    BY <1>0, <2>1, <2>2, <2>3 DEF IInv, StaleRunsClosed
  <2>8. ScreenMatchesRun'
    BY <1>0, <2>1, <2>2, <2>3, OpeningTyped DEF ScreenMatchesRun
  <2> QED  BY <2>2, <2>4, <2>6, <2>7, <2>8 DEF PInv
<1>3. CASE Opens(r)
  <2> DEFINE R == [run[r] EXCEPT !.socket = "open", !.watchdog = TRUE]
  <2>1. /\ run[r].socket = "opening" /\ UNCHANGED <<active, lastCode, ui, plays>>
        /\ run' = [run EXCEPT ![r] = R]
    BY <1>0, <1>3 DEF Opens, page
  <2>2. /\ R \in RunObject /\ R.socket = "open" /\ R.pc = run[r].pc /\ R.timer = run[r].timer
        /\ R.step = run[r].step /\ R.adding = run[r].adding
    BY <1>0, RunObjectIs
  <2>3. R \in Object
    BY <1>0, <2>2 DEF Object
  <2> HIDE DEF R
  <2>4. /\ run' \in [Run -> Object] /\ run'[r] = R
        /\ \A o \in Run : o # r => run'[o] = run[o]
    BY <1>0, <2>1, <2>3
  <2>5. r = active
    BY <2>1 DEF IInv, StaleRunsClosed
  <2>6. PageTyped'
    BY <1>0, <2>1 DEF PageTyped
  <2>7. Begun' /\ StaleRunsClosed'
    BY <1>0, <2>1, <2>2, <2>4, <2>5 DEF IInv, Begun, StaleRunsClosed
  <2>8. ScreenMatchesRun'
    BY <1>0, <2>1, <2>2, <2>4, <2>5 DEF IInv, ScreenMatchesRun
  <2> QED  BY <2>4, <2>6, <2>7, <2>8 DEF PInv
<1>4. CASE TrackArrives(r)
  <2>1. /\ active = r /\ UNCHANGED <<active, lastCode, run>>
        /\ ui' = [ui EXCEPT !.shown = @ \cup {r}] /\ plays' = plays \cup {<<r, "track">>}
    BY <1>4 DEF TrackArrives, Current
  <2>2. /\ ui' \in Page /\ ui'.shown = ui.shown \cup {r} /\ ui'.screen = ui.screen
        /\ ui'.playable = ui.playable /\ ui'.reconnect = ui.reconnect
    BY <1>0, <2>1 DEF Page
  <2>3. PageTyped'
    BY <1>0, <2>1, <2>2 DEF PageTyped
  <2>4. Begun' /\ StaleRunsClosed'
    BY <1>0, <2>1, <2>2 DEF IInv, Begun, StaleRunsClosed
  <2>5. ScreenMatchesRun'
    BY <1>0, <2>1, <2>2 DEF IInv, ScreenMatchesRun
  <2> QED  BY <1>0, <2>1, <2>3, <2>4, <2>5 DEF PInv
<1>5. CASE PeerConnects(r)
  <2> DEFINE R == Connected(run[r])
  <2>1. /\ active = r /\ UNCHANGED <<active, lastCode, plays>>
        /\ run' = [run EXCEPT ![r] = R]
        /\ ui' = [ui EXCEPT !.screen = "LIVE", !.status = "live"]
    BY <1>0, <1>5 DEF PeerConnects, Current
  <2>2. /\ R \in Object /\ R.socket = run[r].socket /\ R.pc = "connected" /\ R.timer = "off"
    BY <1>0, ObjectSteps, RunObjectIs DEF Connected
  <2> HIDE DEF R
  <2>3. /\ run' \in [Run -> Object] /\ run'[r] = R
        /\ \A o \in Run : o # r => run'[o] = run[o]
    BY <1>0, <2>1, <2>2
  <2>4. /\ ui' \in Page /\ ui'.shown = ui.shown /\ ui'.screen = "LIVE"
        /\ ui'.playable = ui.playable /\ ui'.reconnect = ui.reconnect
    BY <1>0, <2>1 DEF Page
  <2>5. PageTyped'
    BY <1>0, <2>1, <2>4 DEF PageTyped
  <2>6. Begun' /\ StaleRunsClosed'
    BY <1>0, <2>1, <2>2, <2>3, <2>4 DEF IInv, Begun, StaleRunsClosed
  <2>7. ScreenMatchesRun'
    BY <1>0, <2>1, <2>2, <2>3, <2>4 DEF IInv, ScreenMatchesRun
  <2> QED  BY <2>3, <2>5, <2>6, <2>7 DEF PInv
<1> QED  BY <1>1, <1>2, <1>3, <1>4, <1>5

(* The video and its calls of play(). *)
LEMMA PlayKeeps ==
    ASSUME IInv,
           \/ PlayClicked \/ VideoPlays
           \/ \E r \in Run, cause \in {"track", "click"} : PlaySettles(r, cause)
    PROVE  PInv' /\ ui'.screen = ui.screen
                 /\ (active = None => UNCHANGED ui)
<1>0. /\ run \in [Run -> Object] /\ active \in Run \cup {None} /\ None \notin Run
      /\ ui \in Page /\ lastCode \in BOOLEAN /\ plays \subseteq Run \X {"track", "click"}
  BY ViewerAssumption DEF IInv, Typed, PageTyped
<1>1. CASE PlayClicked
  <2>1. /\ UNCHANGED <<active, lastCode, ui, run>> /\ active \in Run
        /\ plays' = plays \cup {<<active, "click">>}
    BY <1>0, <1>1 DEF PlayClicked, IInv, ScreenMatchesRun
  <2>2. PageTyped'
    BY <1>0, <2>1 DEF PageTyped
  <2>3. Begun' /\ StaleRunsClosed' /\ ScreenMatchesRun'
    BY <1>0, <2>1 DEF IInv, Begun, StaleRunsClosed, ScreenMatchesRun
  <2> QED  BY <1>0, <2>1, <2>2, <2>3 DEF PInv
<1>2. ASSUME UNCHANGED <<active, lastCode, run>>, plays' \subseteq plays,
             ui' \in Page, ui'.screen = ui.screen, ui'.shown = ui.shown,
             ui'.reconnect = ui.reconnect,
             ui'.playable => ui.playable \/ (active # None /\ ui.shown = {active})
      PROVE  PInv'
  <2>1. PageTyped'
    BY <1>0, <1>2 DEF PageTyped
  <2>2. Begun' /\ StaleRunsClosed'
    BY <1>0, <1>2 DEF IInv, Begun, StaleRunsClosed
  <2>3. ScreenMatchesRun'
    BY <1>0, <1>2 DEF IInv, ScreenMatchesRun
  <2> QED  BY <1>0, <1>2, <2>1, <2>2, <2>3 DEF PInv
<1>3. CASE VideoPlays
  <2>1. /\ UNCHANGED <<active, lastCode, run, plays>> /\ active # None
        /\ ui' = [ui EXCEPT !.playable = FALSE]
    BY <1>3 DEF VideoPlays
  <2>2. /\ ui' \in Page /\ ui'.screen = ui.screen /\ ui'.shown = ui.shown
        /\ ui'.reconnect = ui.reconnect /\ ~ui'.playable
    BY <1>0, <2>1 DEF Page
  <2> QED  BY <1>2, <2>1, <2>2
<1>4. ASSUME NEW r \in Run, NEW cause \in {"track", "click"}, PlaySettles(r, cause)
      PROVE  PInv' /\ ui'.screen = ui.screen /\ (active = None => UNCHANGED ui)
  <2>1. PICK refused \in BOOLEAN :
            ui' = IF active # r THEN ui
                  ELSE IF cause = "track"
                  THEN [ui EXCEPT !.playable = @ \/ refused]
                  ELSE IF refused THEN [ui EXCEPT !.status = "blocked"]
                  ELSE [ui EXCEPT !.playable = FALSE]
    BY <1>4 DEF PlaySettles
  <2>2. /\ UNCHANGED <<active, lastCode, run>> /\ plays' \subseteq plays
        /\ <<r, cause>> \in plays
    BY <1>4 DEF PlaySettles
  <2>3. active = r /\ cause = "track" => ui.shown = {r}
    BY <2>2 DEF IInv, Begun, StaleRunsClosed, Typed, PageTyped, Page
  <2>4. /\ ui' \in Page /\ ui'.screen = ui.screen /\ ui'.shown = ui.shown
        /\ ui'.reconnect = ui.reconnect
        /\ ui'.playable => ui.playable \/ (active = r /\ cause = "track")
        /\ active # r => ui' = ui
    BY <1>0, <2>1 DEF Page
  <2> QED  BY <1>0, <1>2, <2>2, <2>3, <2>4
<1> QED  BY <1>1, <1>3, <1>4 DEF PlayClicked, VideoPlays

LEMMA Inductive ==
    ASSUME IInv, [Next]_vars
    PROVE  IInv'
<1>1. link' \in [Run -> Link] /\ open' \in BOOLEAN
  BY LinkTyped DEF IInv
<1>2. PInv'
  <2>1. CASE UNCHANGED vars
    <3>1. Quiet
      BY <2>1, SameSelf DEF vars, Quiet, IInv
    <3> QED  BY <3>1, QuietKeeps
  <2>2. CASE Next
    BY <2>2, Kinds, QuietKeeps, CleanupKeeps, OtherKeeps, PlayKeeps DEF IInv
  <2> QED  BY <2>1, <2>2
<1> QED  BY <1>1, <1>2 DEF IInv, Typed, PInv

LEMMA Invariant == Spec => []IInv
<1>1. IInv /\ [Next]_vars => IInv'
  BY Inductive
<1> QED  BY <1>1, Initially, PTL DEF Spec

-----------------------------------------------------------------------------
(* Every variable keeps its type; no handler takes a candidate from an empty *)
(* list or a message from an empty queue.                                    *)
THEOREM TypeCorrect == Spec => []TypeOK
<1>1. IInv => TypeOK
  BY DEF IInv, Typed, PageTyped, TypeOK, Object
<1> QED  BY <1>1, Invariant, PTL

(* Whatever callbacks of replaced runs still come, in any order, nothing of  *)
(* those runs comes back: not their sockets, connections, timers or tracks.  *)
THEOREM StaleStayClosed == Spec => []StaleRunsClosed
<1>1. IInv => StaleRunsClosed
  BY DEF IInv
<1> QED  BY <1>1, Invariant, PTL

(* The screen tells the state of the current run, which never waits without  *)
(* a timer, and the play button is offered only for its own track.           *)
THEOREM ScreenIsTrue == Spec => []ScreenMatchesRun
<1>1. IInv => ScreenMatchesRun
  BY DEF IInv
<1> QED  BY <1>1, Invariant, PTL

(* No late event of a run that ended overwrites the reason that is shown.    *)
THEOREM ReasonIsKept == Spec => ReasonStays
<1>1. ASSUME IInv, [Next]_vars, ui.screen = "DISCONNECTED", ui'.screen = "DISCONNECTED",
             ui'.status # "hidden"
      PROVE  ui'.status = ui.status
  <2>1. active = None /\ None \notin Run /\ Typed /\ StaleRunsClosed
    BY <1>1, ViewerAssumption DEF IInv, ScreenMatchesRun
  <2>2. CASE UNCHANGED ui
    BY <2>2
  <2>3. ASSUME NEW r \in Run, NEW why \in Whys, CleanupIfActive(r, why) PROVE UNCHANGED ui
    BY <2>1, <2>3 DEF CleanupIfActive, page
  <2>4. CASE PageHides
    <3>1. CleanupFrom(run, "hidden", FALSE) /\ run \in [Run -> Object]
      BY <2>1, <2>4 DEF PageHides, Cleanup, Typed
    <3>2. ui'.status = "hidden"
      BY <2>1, <3>1, CleanupEffect
    <3> QED  BY <1>1, <3>2
  <2>5. CASE \E r \in Run : Join(r)
    <3>1. PICK r \in Run : Join(r)
      BY <2>5
    <3>2. ui' = [Blank("opening", FALSE) EXCEPT !.screen = "JOINING"]
      BY <3>1 DEF Join
    <3>3. ui'.screen = "JOINING"
      BY <3>2 DEF Blank
    <3> QED  BY <1>1, <3>3
  <2>6. ASSUME NEW r \in Run, Arrives(r) PROVE UNCHANGED ui
    BY <2>1, <2>6 DEF Arrives, StaleRunsClosed
  <2>7. ASSUME NEW r \in Run, Microtask(r) PROVE UNCHANGED ui
    BY <2>1, <2>7 DEF Microtask, Receive, page
  <2>8. ASSUME NEW r \in Run,
               SocketCloses(r) \/ TimerFires(r) \/ WatchdogFires(r) \/ TrackEnds(r)
        PROVE  UNCHANGED ui
    <3>1. \E why \in Whys : CleanupIfActive(r, why)
      BY <2>8 DEF SocketCloses, TimerFires, WatchdogFires, TrackEnds, Whys
    <3> QED  BY <2>3, <3>1
  <2>9. ASSUME NEW r \in Run,
                RemoteSet(r) \/ CandidateAdded(r) \/ AnswerCreated(r) \/ LocalSet(r)
                  \/ NegotiationFails(r)
         PROVE  UNCHANGED ui
    BY <2>1, <2>9 DEF RemoteSet, CandidateAdded, AnswerCreated, LocalSet, NegotiationFails, page
  <2>10. ASSUME NEW r \in Run,
                TrackArrives(r) \/ PeerConnects(r) \/ PeerFails(r) \/ LocalCandidate(r)
         PROVE  FALSE
    BY <2>1, <2>10 DEF TrackArrives, PeerConnects, PeerFails, LocalCandidate, Current
  <2>11. ASSUME NEW r \in Run,
                \/ ServerAdmits(r) \/ ServerRejects(r) \/ SharerOffers(r) \/ SharerTrickles(r)
                \/ ServerBeats(r) \/ LinkDies(r) \/ Opens(r)
         PROVE  UNCHANGED ui
    BY <2>11 DEF ServerAdmits, ServerRejects, SharerOffers, SharerTrickles, ServerBeats,
                 LinkDies, Opens, page
  <2>12. CASE SessionEnds \/ UNCHANGED vars
    BY <2>12 DEF SessionEnds, vars, page
  <2>13. CASE \/ PlayClicked \/ VideoPlays
              \/ \E r \in Run, cause \in {"track", "click"} : PlaySettles(r, cause)
    BY <1>1, <2>1, <2>13, PlayKeeps
  <2> QED  BY <1>1, <2>2, <2>4, <2>5, <2>6, <2>7, <2>8, <2>9, <2>10, <2>11, <2>12, <2>13
           DEF Next, Submit, Reconnect
<1>2. IInv /\ [Next]_vars =>
          [ui.screen = "DISCONNECTED" /\ ui'.screen = "DISCONNECTED" /\ ui'.status # "hidden"
              => ui'.status = ui.status]_vars
  BY <1>1
<1> QED  BY <1>2, Invariant, PTL DEF Spec, ReasonStays

-----------------------------------------------------------------------------
(* The order of the candidates. *)

(* The candidates that the peer connection has or a handler holds, one after *)
(* the other.                                                                *)
Taken(R) == Len(R.added) + Len(R.adding) + Len(R.ice)
Lined(R) == /\ Counted(R.added, 0) /\ Counted(R.adding, Len(R.added))
            /\ Counted(R.ice, Len(R.added) + Len(R.adding))

(* What the handlers hold while they await something.                        *)
Awaiting(R) ==
    /\ R.step \in {"idle", "remote", "answer", "local"} => R.adding = <<>>
    /\ R.step = "late" => Len(R.adding) = 1
    /\ R.step = "remote" => ~R.remote
    /\ R.step \in {"early", "answer", "local", "late"} => R.remote
    /\ R.remote => R.ice = <<>>

(* What comes: without a peer connection a "joined", once the server has     *)
(* admitted the page, and no candidate before it.                            *)
Welcomed(pc, member, msgs) == pc = "none" =>
    /\ member = "yes" => \E j \in 1..Len(msgs) : msgs[j].type = "joined"
    /\ \A i \in 1..Len(msgs) : msgs[i].type = "ice" =>
          \E j \in 1..Len(msgs) : j < i /\ msgs[j].type = "joined"
Comes(pc, member, msgs, low, top) == InTurn(msgs, low, top) /\ Welcomed(pc, member, msgs)

Ordered(R, L) == /\ Awaiting(R) /\ Lined(R)
                 /\ Comes(R.pc, L.member, R.queue \o L.inbox, Taken(R), L.trickled)
(* A socket that is not open brings nothing.                                 *)
Fresh(R, L) == R.socket \in {"unused", "opening"} =>
    L.inbox = <<>> /\ L.trickled = 0 /\ L.member = "no"
OrderInv == /\ \A r \in Run : Fresh(run[r], link[r])
            /\ active # None => Ordered(run[active], link[active])

-----------------------------------------------------------------------------
IceAt(s) == {i \in 1 .. Len(s) : s[i].type = "ice"}
LEMMA InTurnIs ==
    ASSUME NEW s, NEW low, NEW top
    PROVE  InTurn(s, low, top) <=> Turn(s, IceAt(s), low, top)
  BY DEF InTurn, IceAt, Turn

(* One message less, not a candidate; it may be the "joined" that lets the   *)
(* page make its peer connection.                                            *)
LEMMA SkipComes ==
    ASSUME NEW s \in Seq(Message), NEW t \in Seq(Message), NEW k \in 1..Len(s),
           Len(t) = Len(s) - 1,
           \A i \in 1..Len(t) : t[i] = IF i < k THEN s[i] ELSE s[i + 1],
           s[k].type # "ice",
           NEW low \in Nat, NEW top \in Nat, NEW member, NEW pc, NEW other,
           Comes(pc, member, s, low, top),
           other = "none" => pc = "none" /\ s[k].type # "joined"
    PROVE  Comes(other, member, t, low, top)
<1> DEFINE F(i) == IF i < k THEN i ELSE i + 1
           G(i) == IF i < k THEN i ELSE i - 1
<1>1. \A i \in 1..Len(t) : F(i) \in 1..Len(s) /\ t[i] = s[F(i)] /\ F(i) # k
  OBVIOUS
<1>2. \A i \in 1..Len(s) : i # k => G(i) \in 1..Len(t) /\ F(G(i)) = i /\ t[G(i)] = s[i]
  OBVIOUS
<1>3. \A i, j \in 1..Len(t) : i < j <=> F(i) < F(j)
  OBVIOUS
<1> HIDE DEF G
<1>7. InTurn(t, low, top)
  <2>1. IceAt(s) \in SUBSET (1..Len(s)) /\ k \notin IceAt(s) /\ IceAt(t) \in SUBSET (1..Len(t))
    BY DEF IceAt
  <2>2. \A i \in 1..Len(t) : i \in IceAt(t) <=> F(i) \in IceAt(s)
    <3> HIDE DEF F
    <3> QED  BY <1>1 DEF IceAt
  <2>3. Turn(s, IceAt(s), low, top)
    BY InTurnIs DEF Comes
  <2>4. Turn(t, IceAt(t), low, top)
    BY <2>1, <2>2, <2>3, TurnSkips
  <2> QED  BY <2>4, InTurnIs
<1> HIDE DEF F
<1>8. ASSUME other = "none" PROVE Welcomed(other, member, t)
  <2>1. /\ member = "yes" => \E j \in 1..Len(s) : s[j].type = "joined"
        /\ \A i \in 1..Len(s) : s[i].type = "ice" =>
              \E j \in 1..Len(s) : j < i /\ s[j].type = "joined"
        /\ s[k].type # "joined"
    BY <1>8 DEF Comes, Welcomed
  <2>2. member = "yes" => \E j \in 1..Len(t) : t[j].type = "joined"
    BY <1>2, <2>1
  <2>3. ASSUME NEW i \in 1..Len(t), t[i].type = "ice"
        PROVE  \E j \in 1..Len(t) : j < i /\ t[j].type = "joined"
    <3>1. F(i) \in 1..Len(s) /\ s[F(i)].type = "ice" /\ F(i) # k
      BY <1>1, <2>3
    <3>2. PICK j \in 1..Len(s) : j < F(i) /\ s[j].type = "joined"
      BY <2>1, <3>1
    <3>3. j # k /\ G(j) \in 1..Len(t) /\ t[G(j)].type = "joined" /\ F(G(j)) = j
      BY <1>2, <2>1, <3>2
    <3>4. G(j) < i
      BY <1>3, <3>2, <3>3
    <3> QED  BY <3>3, <3>4
  <2> QED  BY <2>2, <2>3 DEF Welcomed
<1>9. Welcomed(other, member, t)
  BY <1>8 DEF Welcomed
<1> QED  BY <1>7, <1>9 DEF Comes

(* The first candidate is taken: it is the one that is due.                  *)
LEMMA TakeComes ==
    ASSUME NEW s \in Seq(Message), s # <<>>, Head(s).type = "ice",
           NEW low \in Nat, NEW top \in Nat, NEW member, NEW pc,
           Comes(pc, member, s, low, top)
    PROVE  /\ pc # "none" /\ Head(s).n = low + 1
           /\ Comes(pc, member, Tail(s), low + 1, top)
<1> DEFINE t == Tail(s)
<1>1. /\ Len(s) \in Nat \ {0} /\ Head(s) = s[1] /\ t \in Seq(Message) /\ Len(t) = Len(s) - 1
      /\ \A i \in 1..Len(t) : t[i] = s[i + 1]
  OBVIOUS
<1>2. s[1].type = "ice" /\ 1 \in 1..Len(s)
  BY <1>1
<1>3. pc # "none"
  BY <1>2 DEF Comes, Welcomed
<1>4. 1 \in IceAt(s) /\ IceAt(s) \in SUBSET (1..Len(s))
  BY <1>2 DEF IceAt
<1>5. /\ IceAt(t) \in SUBSET (1..Len(t))
      /\ \A i \in 1..Len(t) : i \in IceAt(t) <=> i + 1 \in IceAt(s)
  <2>1. \A i \in 1..Len(t) : i + 1 \in 1..Len(s)
    BY <1>1
  <2> HIDE DEF t
  <2> QED  BY <1>1, <2>1 DEF IceAt
<1>6. Turn(s, IceAt(s), low, top)
  BY InTurnIs DEF Comes
<1>7. Head(s).n = low + 1 /\ Turn(t, IceAt(t), low + 1, top)
  BY <1>4, <1>5, <1>6, TurnTakes
<1> HIDE DEF t
<1>14. InTurn(t, low + 1, top)
  BY <1>7, InTurnIs
<1>15. Welcomed(pc, member, t)
  BY <1>3 DEF Welcomed
<1> QED  BY <1>1, <1>3, <1>7, <1>14, <1>15 DEF Comes, t

(* One message more: the next candidate of a member, or another message.     *)
LEMMA MoreComes ==
    ASSUME NEW s \in Seq(Message), NEW m \in Message,
           NEW low \in Nat, NEW top \in Nat, NEW next \in Nat, NEW member, NEW other, NEW pc,
           Comes(pc, member, s, low, top),
           IF m.type = "ice" THEN member = "yes" /\ m.n = top + 1 /\ next = top + 1
                             ELSE next = top,
           other = "yes" => member = "yes" \/ m.type = "joined"
    PROVE  Comes(pc, other, Append(s, m), low, next)
<1> DEFINE t == Append(s, m)
           e == Len(s) + 1
<1>1. /\ Len(s) \in Nat /\ t \in Seq(Message) /\ Len(t) = e /\ t[e] = m
      /\ \A i \in 1..Len(s) : t[i] = s[i]
  OBVIOUS
<1> HIDE DEF t
<1>2. \A i \in 1..Len(t) : i = e \/ i \in 1..Len(s)
  BY <1>1
<1>3. e \in 1..Len(t) /\ \A i \in 1..Len(s) : i \in 1..Len(t) /\ i < e /\ ~(e < i)
  BY <1>1
<1> HIDE DEF e
<1>4. IceAt(s) \in SUBSET (1..Len(s)) /\ Turn(s, IceAt(s), low, top)
  BY InTurnIs DEF IceAt, Comes
<1>5. IceAt(t) = IF m.type = "ice" THEN IceAt(s) \cup {e} ELSE IceAt(s)
  BY <1>1, <1>2, <1>3 DEF IceAt
<1>6. \/ IceAt(t) = IceAt(s) /\ next = top
      \/ IceAt(t) = IceAt(s) \cup {Len(s) + 1} /\ next = top + 1 /\ m.n = top + 1
  BY <1>5 DEF e
<1>7. Turn(t, IceAt(t), low, next)
  BY <1>4, <1>6, TurnGrows DEF t
<1>12. InTurn(t, low, next)
  BY <1>7, InTurnIs
<1>13. Welcomed(pc, other, t)
  <2> SUFFICES ASSUME pc = "none" PROVE Welcomed(pc, other, t)
    BY DEF Welcomed
  <2>1. /\ member = "yes" => \E j \in 1..Len(s) : s[j].type = "joined"
        /\ \A i \in 1..Len(s) : s[i].type = "ice" =>
              \E j \in 1..Len(s) : j < i /\ s[j].type = "joined"
    BY DEF Comes, Welcomed
  <2>2. other = "yes" => \E j \in 1..Len(t) : t[j].type = "joined"
    BY <1>1, <1>3, <2>1
  <2>3. ASSUME NEW i \in 1..Len(t), t[i].type = "ice"
        PROVE  \E j \in 1..Len(t) : j < i /\ t[j].type = "joined"
    <3>1. CASE i \in 1..Len(s)
      BY <1>1, <1>3, <2>1, <2>3, <3>1
    <3>2. CASE i = e
      <4>1. member = "yes"
        BY <1>1, <2>3, <3>2
      <4> QED  BY <1>1, <1>3, <2>1, <3>2, <4>1
    <3> QED  BY <1>2, <3>1, <3>2
  <2> QED  BY <2>2, <2>3 DEF Welcomed
<1> QED  BY <1>12, <1>13 DEF Comes, t

-----------------------------------------------------------------------------
LEMMA Summed ==
    ASSUME NEW R, NEW a \in Nat, NEW b \in Nat, NEW c \in Nat,
           Len(R.added) = a, Len(R.adding) = b, Len(R.ice) = c
    PROVE  Taken(R) = a + b + c /\ Taken(R) \in Nat
  BY DEF Taken

LEMMA Sizes ==
    ASSUME NEW R \in RunObject, NEW L \in Link
    PROVE  /\ R.added \in Ices /\ R.adding \in Ices /\ R.ice \in Ices
           /\ Len(R.added) \in Nat /\ Len(R.adding) \in Nat /\ Len(R.ice) \in Nat
           /\ Taken(R) \in Nat /\ L.trickled \in Nat
           /\ R.queue \in Seq(Message) /\ L.inbox \in Seq(Message)
           /\ R.queue \o L.inbox \in Seq(Message)
<1>1. R.added \in Ices /\ R.adding \in Ices /\ R.ice \in Ices
  BY RunObjectIs
<1>2. Len(R.added) \in Nat /\ Len(R.adding) \in Nat /\ Len(R.ice) \in Nat
  BY <1>1 DEF Ices
<1>3. L.trickled \in Nat /\ L.inbox \in Seq(Message)
  BY ViewerAssumption DEF Link
<1>4. R.queue \in Seq(Message)
  BY RunObjectIs DEF Messages
<1>5. R.queue \o L.inbox \in Seq(Message)
  BY <1>3, <1>4
<1>6. Taken(R) \in Nat
  BY <1>2, Summed
<1> QED  BY <1>1, <1>2, <1>3, <1>4, <1>5, <1>6

(* Steps that leave the candidates and what comes alone. *)
LEMMA KeepsOrder ==
    ASSUME NEW R \in RunObject, NEW S \in RunObject, NEW L \in Link, NEW K \in Link,
           Ordered(R, L),
           S.added = R.added, S.adding = R.adding, S.ice = R.ice, S.queue = R.queue,
           S.step = R.step, S.remote = R.remote, S.pc = "none" => R.pc = "none",
           K.inbox = L.inbox, K.trickled = L.trickled, K.member = L.member
    PROVE  Ordered(S, K)
<1>1. Awaiting(S) /\ Lined(S) /\ Taken(S) = Taken(R)
  BY DEF Ordered, Awaiting, Lined, Taken
<1>2. Comes(R.pc, L.member, R.queue \o L.inbox, Taken(R), L.trickled)
  BY DEF Ordered
<1> DEFINE s == R.queue \o L.inbox
<1>3. S.queue \o K.inbox = s
  OBVIOUS
<1> HIDE DEF s
<1>4. Comes(R.pc, L.member, s, Taken(R), L.trickled)
  BY <1>2 DEF s
<1>5. Comes(S.pc, K.member, s, Taken(S), K.trickled)
  BY <1>1, <1>4 DEF Comes, Welcomed
<1> QED  BY <1>1, <1>3, <1>5 DEF Ordered

(* The server or the sharer sends one message more. *)
LEMMA SentOrder ==
    ASSUME NEW R \in RunObject, NEW L \in Link, NEW K \in Link, NEW m \in Message,
           Ordered(R, L), K.inbox = Append(L.inbox, m),
           IF m.type = "ice"
           THEN L.member = "yes" /\ m.n = L.trickled + 1 /\ K.trickled = L.trickled + 1
           ELSE K.trickled = L.trickled,
           K.member = "yes" => L.member = "yes" \/ m.type = "joined"
    PROVE  Ordered(R, K)
<1> DEFINE s == R.queue \o L.inbox
<1>1. s \in Seq(Message) /\ Taken(R) \in Nat /\ L.trickled \in Nat /\ K.trickled \in Nat
  BY Sizes
<1>2. R.queue \o K.inbox = Append(s, m)
  <2>1. R.queue \in Seq(Message) /\ L.inbox \in Seq(Message)
    BY Sizes
  <2>2. R.queue \o Append(L.inbox, m) = Append(R.queue \o L.inbox, m)
    <3> DEFINE q == R.queue
               b == L.inbox
    <3>1. q \in Seq(Message) /\ b \in Seq(Message)
      BY <2>1
    <3> HIDE DEF q, b
    <3>2. q \o Append(b, m) = Append(q \o b, m)
      BY <3>1, Adding
    <3> QED  BY <3>2 DEF q, b
  <2> QED  BY <2>2
<1>3. Comes(R.pc, L.member, s, Taken(R), L.trickled)
  BY DEF Ordered
<1> HIDE DEF s
<1>4. Comes(R.pc, K.member, Append(s, m), Taken(R), K.trickled)
  BY <1>1, <1>3, MoreComes
<1> QED  BY <1>2, <1>4 DEF Ordered

(* A message moves from the inbox to the queue, or was a heartbeat. *)
LEMMA ArrivedOrder ==
    ASSUME NEW R \in RunObject, NEW S \in RunObject, NEW L \in Link, NEW K \in Link,
           Ordered(R, L), L.inbox # <<>>, K.inbox = Tail(L.inbox),
           K.trickled = L.trickled, K.member = L.member,
           S.added = R.added, S.adding = R.adding, S.ice = R.ice,
           S.step = R.step, S.remote = R.remote, S.pc = R.pc,
           S.queue = IF Head(L.inbox).type = "heartbeat" THEN R.queue
                     ELSE Append(R.queue, Head(L.inbox))
    PROVE  Ordered(S, K)
<1>1. Awaiting(S) /\ Lined(S) /\ Taken(S) = Taken(R)
  BY DEF Ordered, Awaiting, Lined, Taken
<1>2. /\ R.queue \in Seq(Message) /\ L.inbox \in Seq(Message)
      /\ Taken(R) \in Nat /\ L.trickled \in Nat
  BY Sizes
<1>3. Comes(R.pc, L.member, R.queue \o L.inbox, Taken(R), L.trickled)
  BY DEF Ordered
<1>4. CASE Head(L.inbox).type = "heartbeat"
  <2> DEFINE q == R.queue
             b == L.inbox
             s == q \o b
             t == q \o Tail(b)
             k == Len(q) + 1
  <2>0. q \in Seq(Message) /\ b \in Seq(Message) /\ b # <<>> /\ Head(b) = Head(L.inbox)
    BY <1>2
  <2> HIDE DEF q, b
  <2>1. /\ s \in Seq(Message) /\ t \in Seq(Message) /\ k \in 1..Len(s) /\ s[k] = Head(L.inbox)
        /\ Len(t) = Len(s) - 1
        /\ \A i \in 1..Len(t) : t[i] = IF i < k THEN s[i] ELSE s[i + 1]
    BY <2>0, Dropping
  <2>2. s[k].type # "ice" /\ s[k].type # "joined"
    BY <1>4, <2>1
  <2> HIDE DEF s, t, k
  <2>3. Comes(R.pc, L.member, s, Taken(R), L.trickled)
    BY <1>3 DEF s, q, b
  <2>4. Comes(R.pc, L.member, t, Taken(R), L.trickled)
    <3>1. R.pc = "none" => R.pc = "none" /\ s[k].type # "joined"
      BY <2>2
    <3> DEFINE low == Taken(R)
               top == L.trickled
    <3>2. low \in Nat /\ top \in Nat /\ Comes(R.pc, L.member, s, low, top) /\ s[k].type # "ice"
      BY <1>2, <2>2, <2>3
    <3> HIDE DEF low, top
    <3>3. Comes(R.pc, L.member, t, low, top)
      BY <2>1, <3>1, <3>2, SkipComes
    <3> QED  BY <3>3 DEF low, top
  <2>5. S.queue \o K.inbox = t
    BY <1>4 DEF t, q, b
  <2> QED  BY <1>1, <2>4, <2>5 DEF Ordered
<1>5. CASE Head(L.inbox).type # "heartbeat"
  <2>1. S.queue \o K.inbox = R.queue \o L.inbox
    BY <1>2, <1>5, Passing
  <2> QED  BY <1>1, <1>3, <2>1 DEF Ordered
<1> QED  BY <1>4, <1>5

(* The handler of a message takes it off the queue. *)
LEMMA ReceivedOrder ==
    ASSUME NEW R \in RunObject, NEW S \in RunObject, NEW L \in Link,
           Ordered(R, L), R.queue # <<>>, R.step = "idle", S.queue = Tail(R.queue),
           S.added = R.added, S.remote = R.remote,
           LET m == Head(R.queue) IN
           \/ /\ m.type # "ice" /\ S.step = "idle" /\ S.ice = R.ice /\ S.adding = R.adding
              /\ S.pc = "none" => R.pc = "none" /\ m.type # "joined"
           \/ /\ m.type # "ice" /\ S.step = "remote" /\ ~R.remote
              /\ S.ice = R.ice /\ S.adding = R.adding
              /\ S.pc = "none" => R.pc = "none" /\ m.type # "joined"
           \/ /\ m.type = "ice" /\ R.remote /\ S.step = "late" /\ S.adding = <<m.n>>
              /\ S.ice = R.ice /\ S.pc = R.pc
           \/ /\ m.type = "ice" /\ ~R.remote /\ S.step = "idle" /\ S.adding = R.adding
              /\ S.ice = Append(R.ice, m.n) /\ S.pc = R.pc
    PROVE  Ordered(S, L)
<1> DEFINE m == Head(R.queue)
           s == R.queue \o L.inbox
<1>1. /\ s \in Seq(Message) /\ s # <<>> /\ Head(s) = m
      /\ Tail(s) = S.queue \o L.inbox
  <2>1. R.queue \in Seq(Message) /\ L.inbox \in Seq(Message)
    BY Sizes
  <2>2. /\ R.queue \o L.inbox \in Seq(Message) /\ R.queue \o L.inbox # <<>>
        /\ Head(R.queue \o L.inbox) = Head(R.queue)
        /\ Tail(R.queue \o L.inbox) = Tail(R.queue) \o L.inbox
    BY <2>1, Taking
  <2> QED  BY <2>2
<1>2. /\ Comes(R.pc, L.member, s, Taken(R), L.trickled)
      /\ Awaiting(R) /\ Lined(R)
  BY DEF Ordered
<1>3. R.adding = <<>> /\ (R.remote => R.ice = <<>>)
  BY <1>2 DEF Awaiting
<1>4. /\ R.added \in Ices /\ R.adding \in Ices /\ R.ice \in Ices
      /\ Len(R.added) \in Nat /\ Len(R.adding) \in Nat /\ Len(R.ice) \in Nat
      /\ Taken(R) \in Nat /\ L.trickled \in Nat
  BY Sizes
<1>5. Len(<<>>) = 0
  OBVIOUS
<1> DEFINE a == Len(R.added)
           c == Len(R.ice)
<1>9. a \in Nat /\ c \in Nat /\ Len(R.adding) = 0 /\ Taken(R) = a + c
  <2>1. a \in Nat /\ c \in Nat /\ 0 \in Nat /\ Len(R.adding) = 0
    BY <1>3, <1>4, <1>5
  <2>2. Taken(R) = a + 0 + c
    BY <2>1, Summed
  <2> HIDE DEF a, c
  <2> QED  BY <2>1, <2>2
<1>6. m \in Message
  BY Sizes, Splitting
<1> HIDE DEF s
<1>7. CASE m.type # "ice"
  <2>1. /\ S.ice = R.ice /\ S.adding = R.adding
        /\ S.step = "idle" \/ (S.step = "remote" /\ ~R.remote)
        /\ S.pc = "none" => R.pc = "none" /\ m.type # "joined"
    BY <1>7
  <2>2. Awaiting(S) /\ Lined(S) /\ Taken(S) = Taken(R)
    BY <1>2, <1>3, <2>1 DEF Awaiting, Lined, Taken
  <2>3. /\ Tail(s) \in Seq(Message) /\ Len(Tail(s)) = Len(s) - 1 /\ 1 \in 1..Len(s)
        /\ s[1] = m /\ \A i \in 1..Len(Tail(s)) : ~(i < 1) /\ Tail(s)[i] = s[i + 1]
    BY <1>1
  <2>4. Comes(S.pc, L.member, Tail(s), Taken(R), L.trickled)
    <3>1. \A i \in 1..Len(Tail(s)) : Tail(s)[i] = IF i < 1 THEN s[i] ELSE s[i + 1]
      BY <2>3
    <3>2. s[1].type # "ice" /\ (S.pc = "none" => R.pc = "none" /\ s[1].type # "joined")
      BY <1>7, <2>1, <2>3
    <3> HIDE DEF m
    <3> QED  BY <1>1, <1>2, <1>4, <2>3, <3>1, <3>2, SkipComes
  <2> QED  BY <1>1, <2>2, <2>4 DEF Ordered
<1>8. CASE m.type = "ice"
  <2>1. /\ m.n = Taken(R) + 1 /\ R.pc # "none"
        /\ Comes(R.pc, L.member, Tail(s), Taken(R) + 1, L.trickled)
    <3> HIDE DEF m
    <3> QED  BY <1>1, <1>2, <1>4, <1>8, TakeComes
  <2>2. m.n \in 1 .. Candidates
    BY <1>6, <1>8 DEF Message
  <2>3. CASE R.remote
    <3>1. /\ S.step = "late" /\ S.adding = <<m.n>> /\ S.ice = R.ice /\ S.pc = R.pc
          /\ S.added = R.added /\ S.remote = R.remote
      BY <1>8, <2>3
    <3>2. S.ice = <<>> /\ Taken(R) = Len(R.added) /\ Len(S.adding) = 1 /\ S.adding[1] = m.n
      <4>1. S.ice = <<>> /\ c = 0
        BY <1>3, <1>5, <2>3, <3>1
      <4> HIDE DEF a, c
      <4>2. Taken(R) = a
        BY <1>9, <4>1
      <4> QED  BY <3>1, <4>1, <4>2 DEF a
    <3>3. Awaiting(S)
      BY <2>3, <3>1, <3>2 DEF Awaiting
    <3>4. Lined(S)
      BY <1>2, <1>4, <1>5, <2>1, <3>1, <3>2 DEF Lined, Counted
    <3>5. Taken(S) = Taken(R) + 1
      <4>1. Len(S.added) = a /\ Len(S.adding) = 1 /\ Len(S.ice) = 0
        BY <1>5, <3>1, <3>2
      <4>2. Taken(R) = a
        BY <3>2
      <4> HIDE DEF a, c
      <4>3. Taken(S) = a + 1 + 0
        <5>1. a \in Nat /\ 1 \in Nat /\ 0 \in Nat
          BY <1>9
        <5> QED  BY ONLY <4>1, <5>1, Summed
      <4> QED  BY <1>9, <4>2, <4>3
    <3> QED  BY <1>1, <2>1, <3>1, <3>3, <3>4, <3>5 DEF Ordered
  <2>4. CASE ~R.remote
    <3>1. /\ S.step = "idle" /\ S.adding = R.adding /\ S.ice = Append(R.ice, m.n)
          /\ S.pc = R.pc /\ S.added = R.added /\ S.remote = R.remote
      BY <1>8, <2>4
    <3>2. /\ Len(S.ice) = Len(R.ice) + 1 /\ S.ice[Len(R.ice) + 1] = m.n
          /\ \A i \in 1..Len(R.ice) : S.ice[i] = R.ice[i]
      BY <1>4, <2>2, <3>1 DEF Ices
    <3>3. Awaiting(S)
      BY <1>3, <2>4, <3>1 DEF Awaiting
    <3>4. Lined(S)
      <4>1. Counted(S.added, 0) /\ Counted(S.adding, Len(S.added))
        BY <1>2, <3>1 DEF Lined
      <4>2. Len(S.added) = a /\ Len(S.adding) = 0 /\ m.n = (a + c) + 1
        BY <1>9, <2>1, <3>1
      <4>3. \A i \in 1..c : R.ice[i] = (Len(R.added) + Len(R.adding)) + i
        BY <1>2 DEF Lined, Counted
      <4>4. \A i \in 1..c : R.ice[i] = a + i
        <5>1. Len(R.added) + Len(R.adding) = a
          BY <1>9
        <5> QED  BY <4>3, <5>1
      <4>5. ASSUME NEW i \in 1..Len(S.ice) PROVE S.ice[i] = a + i
        <5>1. Len(S.ice) = c + 1 /\ S.ice[c + 1] = m.n /\ \A j \in 1..c : S.ice[j] = R.ice[j]
          BY <3>2
        <5> HIDE DEF a, c
        <5>2. i = c + 1 \/ i \in 1..c
          BY <1>9, <5>1
        <5>3. a + (c + 1) = (a + c) + 1
          BY <1>9
        <5> QED  BY <4>2, <4>4, <5>1, <5>2, <5>3
      <4>6. Len(S.added) + Len(S.adding) = a
        BY <1>9, <4>2
      <4>7. Counted(S.ice, Len(S.added) + Len(S.adding))
        BY <4>5, <4>6 DEF Counted
      <4> QED  BY <4>1, <4>7 DEF Lined
    <3>5. Taken(S) = Taken(R) + 1
      <4>1. Len(S.added) = a /\ Len(S.adding) = 0 /\ Len(S.ice) = c + 1
        BY <1>9, <3>1, <3>2
      <4> HIDE DEF a, c
      <4>2. Taken(S) = a + 0 + (c + 1)
        <5>1. a \in Nat /\ 0 \in Nat /\ c + 1 \in Nat
          BY <1>9
        <5> QED  BY ONLY <4>1, <5>1, Summed
      <4> QED  BY <1>9, <4>2
    <3> QED  BY <1>1, <2>1, <3>1, <3>3, <3>4, <3>5 DEF Ordered
  <2> QED  BY <2>3, <2>4
<1> QED  BY <1>7, <1>8

(* A promise settles: candidates go from hand to hand. *)
Passes(R, S) == /\ S.queue = R.queue /\ S.pc = R.pc /\ S.remote = R.remote
                /\ Awaiting(S) /\ Lined(S) /\ Taken(S) = Taken(R)
LEMMA PassesOrder ==
    ASSUME NEW R, NEW S, NEW L, Ordered(R, L), Passes(R, S)
    PROVE  Ordered(S, L)
  BY DEF Ordered, Passes

LEMMA SetsRemote ==
    ASSUME NEW R \in Object, NEW L \in Link, Ordered(R, L), R.step = "remote"
    PROVE  Ordered(Continue([R EXCEPT !.remote = TRUE]), L)
<1> DEFINE T == [R EXCEPT !.remote = TRUE]
           S == Continue(T)
<1>0. R \in RunObject /\ Awaiting(R) /\ Lined(R) /\ R.adding = <<>>
  BY DEF Object, Ordered, Awaiting
<1>1. T \in RunObject /\ T.remote /\ T.added = R.added /\ T.ice = R.ice /\ T.queue = R.queue
      /\ T.pc = R.pc
  BY <1>0, RunObjectIs
<1> HIDE DEF T
<1>2. /\ S.adding = T.ice /\ S.ice = <<>> /\ S.added = T.added /\ S.queue = T.queue
      /\ S.pc = T.pc /\ S.remote = T.remote
      /\ S.step = IF T.ice = <<>> THEN "answer" ELSE "early"
  <2> DEFINE N == [T EXCEPT !.adding = T.ice,
                            !.step = IF T.ice = <<>> THEN "answer" ELSE "early"]
  <2>1. /\ N \in RunObject /\ N.adding = T.ice /\ N.added = T.added /\ N.queue = T.queue
        /\ N.pc = T.pc /\ N.remote = T.remote
        /\ N.step = IF T.ice = <<>> THEN "answer" ELSE "early"
    BY <1>1, RunObjectIs
  <2>2. S = [N EXCEPT !.ice = <<>>]
    BY DEF Continue, NextCandidate
  <2> HIDE DEF N, S
  <2> QED  BY <2>1, <2>2, RunObjectIs
<1> HIDE DEF S
<1>3. /\ Len(R.added) \in Nat /\ Len(R.adding) = 0 /\ Len(R.ice) \in Nat /\ Len(<<>>) = 0
  BY <1>0, RunObjectIs DEF Ices
<1>4. Awaiting(S)
  BY <1>1, <1>2 DEF Awaiting
<1>5. Lined(S)
  BY <1>0, <1>1, <1>2, <1>3 DEF Lined, Counted
<1>6. Taken(S) = Taken(R)
  BY <1>1, <1>2, <1>3 DEF Taken
<1> QED  BY <1>1, <1>2, <1>4, <1>5, <1>6 DEF S, T, Ordered

LEMMA AddsOne ==
    ASSUME NEW R \in Object, NEW L \in Link, Ordered(R, L), R.step \in {"early", "late"},
           NEW S \in RunObject,
           S.added = Append(R.added, Head(R.adding)), S.ice = R.ice, S.queue = R.queue,
           S.pc = R.pc, S.remote = R.remote,
           \/ R.step = "late" /\ S.step = "idle" /\ S.adding = <<>>
           \/ /\ R.step = "early" /\ S.adding = Tail(R.adding)
              /\ S.step = IF S.adding = <<>> THEN "answer" ELSE "early"
    PROVE  Ordered(S, L)
<1>0. /\ R \in RunObject /\ Awaiting(R) /\ Lined(R) /\ R.adding # <<>>
      /\ R.remote /\ R.ice = <<>> /\ (R.step = "late" => Len(R.adding) = 1)
  BY DEF Object, Ordered, Awaiting
<1>1. R.added \in Ices /\ R.adding \in Ices /\ Len(R.added) \in Nat
  BY <1>0, Sizes
<1> DEFINE q == R.adding
<1>a. q \in Seq(1 .. Candidates) /\ q # <<>>
  BY <1>0, <1>1 DEF Ices
<1> HIDE DEF q
<1>b. /\ Len(q) \in Nat \ {0} /\ Head(q) = q[1]
      /\ Head(q) \in 1 .. Candidates
      /\ Tail(q) \in Seq(1 .. Candidates) /\ Len(Tail(q)) = Len(q) - 1
      /\ \A i \in 1..Len(Tail(q)) : Tail(q)[i] = q[i + 1]
  BY <1>a, FirstAndRest
<1>2. /\ Len(R.adding) \in Nat \ {0} /\ Head(R.adding) = R.adding[1]
      /\ Head(R.adding) \in 1 .. Candidates
      /\ Tail(R.adding) \in Ices /\ Len(Tail(R.adding)) = Len(R.adding) - 1
      /\ \A i \in 1..Len(Tail(R.adding)) : Tail(R.adding)[i] = R.adding[i + 1]
  BY <1>b DEF q, Ices
<1>3. S.adding = Tail(R.adding)
  <2>1. Len(q) = 1 => Tail(q) = <<>>
    BY <1>a, FirstAndRest
  <2> QED  BY <1>0, <2>1 DEF q
<1>4. /\ Len(S.added) = Len(R.added) + 1 /\ S.added[Len(R.added) + 1] = R.adding[1]
      /\ \A i \in 1..Len(R.added) : S.added[i] = R.added[i]
  BY <1>1, <1>2 DEF Ices
<1>5. Len(<<>>) = 0
  OBVIOUS
<1>6. Awaiting(S)
  BY <1>0, <1>3 DEF Awaiting
<1>7. R.adding[1] = Len(R.added) + 1
  BY <1>0, <1>2 DEF Lined, Counted
<1>8. Counted(S.added, 0)
  <2>1. ASSUME NEW i \in 1..Len(S.added) PROVE S.added[i] = i
    <3>1. CASE i = Len(R.added) + 1
      BY <1>4, <1>7, <3>1
    <3>2. CASE i \in 1..Len(R.added)
      <4>1. R.added[i] = 0 + i
        BY <1>0, <3>2 DEF Lined, Counted
      <4> QED  BY <1>4, <3>2, <4>1
    <3> QED  BY <1>1, <1>4, <3>1, <3>2
  <2>2. \A i \in 1..Len(S.added) : 0 + i = i
    BY <1>1, <1>4
  <2> QED  BY <2>1, <2>2 DEF Counted
<1>9. Counted(S.adding, Len(S.added))
  <2>1. ASSUME NEW i \in 1..Len(S.adding) PROVE S.adding[i] = Len(S.added) + i
    <3>1. i + 1 \in 1..Len(R.adding) /\ S.adding[i] = R.adding[i + 1]
      BY <1>2, <1>3
    <3>2. R.adding[i + 1] = Len(R.added) + (i + 1)
      BY <1>0, <3>1 DEF Lined, Counted
    <3>3. i \in Nat
      BY <1>b, <1>3 DEF q
    <3> DEFINE a == Len(R.added)
    <3>4. a \in Nat /\ Len(S.added) = a + 1 /\ R.adding[i + 1] = a + (i + 1)
      BY <1>1, <1>4, <3>2
    <3> HIDE DEF a
    <3>5. a + (i + 1) = (a + 1) + i
      BY <3>3, <3>4
    <3> QED  BY <3>1, <3>4, <3>5
  <2> QED  BY <2>1 DEF Counted
<1>10. Lined(S)
  BY <1>0, <1>5, <1>8, <1>9 DEF Lined, Counted
<1>11. Taken(S) = Taken(R)
  <2> DEFINE a == Len(R.added)
             b == Len(R.adding)
  <2>1. /\ a \in Nat /\ b \in Nat \ {0} /\ Len(R.ice) = 0
        /\ Len(S.added) = a + 1 /\ Len(S.adding) = b - 1 /\ Len(S.ice) = 0
    BY <1>0, <1>1, <1>2, <1>3, <1>4, <1>5
  <2>2. Len(R.added) = a /\ Len(R.adding) = b
    OBVIOUS
  <2> HIDE DEF a, b
  <2>3. a + 1 \in Nat /\ b - 1 \in Nat /\ 0 \in Nat
    BY <2>1
  <2>4. Taken(R) = a + b + 0
    BY <2>1, <2>2, Summed
  <2>5. Taken(S) = (a + 1) + (b - 1) + 0
    <3>1. a + 1 \in Nat /\ b - 1 \in Nat /\ 0 \in Nat
      BY <2>3
    <3>2. Len(S.added) = a + 1 /\ Len(S.adding) = b - 1 /\ Len(S.ice) = 0
      BY <2>1
    <3> QED  BY ONLY <3>1, <3>2, Summed
  <2> QED  BY <2>1, <2>4, <2>5
<1> QED  BY <1>6, <1>10, <1>11 DEF Ordered

-----------------------------------------------------------------------------
(* The steps, for the run that is current before and after. *)

(* A step that is about another run leaves the current one alone. *)
LEMMA OthersOrder ==
    ASSUME IInv, OrderInv, active \in Run, active' = active,
           run'[active] = run[active], link'[active] = link[active]
    PROVE  Ordered(run'[active'], link'[active'])
  BY ViewerAssumption DEF OrderInv

(* What the page sends is not what comes. *)
Unheard(L, K) == K.inbox = L.inbox /\ K.trickled = L.trickled /\ K.member = L.member
LEMMA SendsUnheard ==
    ASSUME link \in [Run -> Link], NEW r \in Run, NEW type \in {"join", "ice", "answer"},
           UNCHANGED link \/ link' = [link EXCEPT ![r].sent = Append(@, type)], NEW o \in Run
    PROVE  Unheard(link[o], link'[o])
<1>1. CASE UNCHANGED link
  BY <1>1 DEF Unheard
<1>2. CASE link' = [link EXCEPT ![r].sent = Append(@, type)]
  <2> DEFINE q == Append(link[r].sent, type)
             K == [link[r] EXCEPT !.sent = q]
  <2>1. link' = [link EXCEPT ![r] = K] /\ link[r] \in Link
    BY <1>2
  <2> HIDE DEF q
  <2>2. Unheard(link[r], K)
    BY <2>1 DEF Unheard, Link
  <2> HIDE DEF K
  <2>3. CASE o = r
    BY <2>1, <2>2, <2>3
  <2>4. CASE o # r
    BY <2>1, <2>4 DEF Unheard
  <2> QED  BY <2>3, <2>4
<1> QED  BY <1>1, <1>2

LEMMA PromiseOrder ==
    ASSUME IInv, OrderInv, active \in Run, active' = active, NEW r \in Run,
           \/ RemoteSet(r) \/ CandidateAdded(r) \/ AnswerCreated(r) \/ LocalSet(r)
           \/ NegotiationFails(r)
    PROVE  Ordered(run'[active'], link'[active'])
<1> DEFINE R == run[active]
           L == link[active]
<1>1. /\ run \in [Run -> Object] /\ link \in [Run -> Link] /\ R \in Object /\ L \in Link
      /\ R \in RunObject /\ Ordered(R, L) /\ active # None
  BY MessagesTyped, ViewerAssumption DEF IInv, Typed, OrderInv
<1>2. CASE RemoteSet(r)
  <2> DEFINE T == [run[r] EXCEPT !.remote = TRUE]
  <2>1. /\ run[r].step = "remote" /\ UNCHANGED link
        /\ run' = [run EXCEPT ![r] = IF active = r THEN Continue(T) ELSE Abandon(T)]
    BY <1>2 DEF RemoteSet, Settled, far
  <2>2. CASE active = r
    <3>1. run'[active] = Continue([R EXCEPT !.remote = TRUE]) /\ R.step = "remote"
      BY <1>1, <2>1, <2>2
    <3>2. Ordered(Continue([R EXCEPT !.remote = TRUE]), L)
      BY <1>1, <3>1, SetsRemote
    <3> QED  BY <2>1, <3>1, <3>2
  <2>3. CASE active # r
    BY <1>1, <2>1, <2>3, OthersOrder
  <2> QED  BY <2>2, <2>3
<1>3. CASE CandidateAdded(r)
  <2> DEFINE T == [run[r] EXCEPT !.added = Append(@, Head(run[r].adding))]
  <2>1. /\ run[r].step \in {"early", "late"} /\ UNCHANGED link
        /\ run' = [run EXCEPT ![r] = IF active # r \/ T.step = "late" THEN Abandon(T)
                                     ELSE NextCandidate(T, Tail(T.adding))]
    BY <1>3 DEF CandidateAdded, Settled, far
  <2>2. CASE active = r
    <3> DEFINE q == Append(R.added, Head(R.adding))
               A == [R EXCEPT !.added = q]
               S == IF R.step = "late" THEN Abandon(A) ELSE NextCandidate(A, Tail(A.adding))
    <3>1. q \in Ices /\ Tail(R.adding) \in Ices /\ R.adding # <<>>
      <4>1. R.added \in Seq(1 .. Candidates) /\ R.adding \in Seq(1 .. Candidates)
        BY <1>1, Sizes DEF Ices
      <4>2. R.adding # <<>>
        BY <1>1, <2>1, <2>2 DEF Object
      <4>3. Head(R.adding) \in 1 .. Candidates /\ Tail(R.adding) \in Seq(1 .. Candidates)
        BY <4>1, <4>2, Reading
      <4>4. Append(R.added, Head(R.adding)) \in Seq(1 .. Candidates)
        BY <4>1, <4>3
      <4> QED  BY <4>2, <4>3, <4>4 DEF Ices
    <3>2. /\ A \in RunObject /\ A.step = R.step /\ A.adding = R.adding /\ A.added = q
          /\ A.ice = R.ice /\ A.queue = R.queue /\ A.pc = R.pc /\ A.remote = R.remote
      <4> HIDE DEF q
      <4> QED  BY <1>1, <3>1, RunObjectIs
    <3>3. run'[active] = S
      BY <1>1, <2>1, <2>2, <3>2
    <3> HIDE DEF A
    <3>4. /\ S \in RunObject /\ S.added = A.added /\ S.ice = A.ice /\ S.queue = A.queue
          /\ S.pc = A.pc /\ S.remote = A.remote
          /\ \/ A.step = "late" /\ S.step = "idle" /\ S.adding = <<>>
             \/ /\ A.step # "late" /\ S.adding = Tail(A.adding)
                /\ S.step = IF S.adding = <<>> THEN "answer" ELSE "early"
      <4>1. CASE R.step = "late"
        <5>1. S = [A EXCEPT !.step = "idle", !.adding = <<>>] /\ <<>> \in Ices
          BY <4>1 DEF Abandon, Ices
        <5> HIDE DEF S
        <5> QED  BY <3>2, <4>1, <5>1, RunObjectIs
      <4>2. CASE R.step # "late"
        <5> DEFINE rest == Tail(A.adding)
        <5>1. rest \in Ices
          BY <3>1, <3>2
        <5>2. S = [A EXCEPT !.adding = rest, !.step = IF rest = <<>> THEN "answer" ELSE "early"]
          BY <4>2 DEF NextCandidate
        <5> HIDE DEF S, rest
        <5>3. /\ S \in RunObject /\ S.added = A.added /\ S.ice = A.ice /\ S.queue = A.queue
              /\ S.pc = A.pc /\ S.remote = A.remote /\ S.adding = rest
              /\ S.step = IF rest = <<>> THEN "answer" ELSE "early"
          BY <3>2, <5>1, <5>2, RunObjectIs
        <5> QED  BY <3>2, <4>2, <5>3 DEF rest
      <4> QED  BY <4>1, <4>2
    <3> HIDE DEF S
    <3>5. R.step \in {"early", "late"}
      BY <2>1, <2>2
    <3>6. /\ S \in RunObject /\ S.added = Append(R.added, Head(R.adding))
          /\ S.ice = R.ice /\ S.queue = R.queue /\ S.pc = R.pc /\ S.remote = R.remote
          /\ \/ R.step = "late" /\ S.step = "idle" /\ S.adding = <<>>
             \/ /\ R.step = "early" /\ S.adding = Tail(R.adding)
                /\ S.step = IF S.adding = <<>> THEN "answer" ELSE "early"
      BY <3>2, <3>4, <3>5
    <3> HIDE DEF q, R, L
    <3>7. Ordered(S, L)
      BY <1>1, <3>5, <3>6, AddsOne
    <3> QED  BY <2>1, <3>3, <3>7 DEF L
  <2>3. CASE active # r
    BY <1>1, <2>1, <2>3, OthersOrder
  <2> QED  BY <2>2, <2>3
<1>4. CASE AnswerCreated(r) \/ LocalSet(r)
  <2>1. /\ run[r].step \in {"answer", "local"}
        /\ \E step \in {"local", "idle"} : run' = [run EXCEPT ![r].step = step]
    <3>1. CASE AnswerCreated(r)
      BY <3>1 DEF AnswerCreated, Settled
    <3>2. CASE LocalSet(r)
      BY <3>2 DEF LocalSet, Settled
    <3> QED  BY <1>4, <3>1, <3>2
  <2>2. PICK step \in {"local", "idle"} : run' = [run EXCEPT ![r].step = step]
    BY <2>1
  <2>3. /\ link'[active].inbox = L.inbox /\ link'[active].trickled = L.trickled
        /\ link'[active].member = L.member
    <3>1. UNCHANGED link \/ link' = [link EXCEPT ![r].sent = Append(@, "answer")]
      BY <1>4 DEF AnswerCreated, LocalSet, Send, far
    <3> QED  BY <1>1, <3>1, SendsUnheard DEF Unheard
  <2>4. link'[active] \in Link
    BY LinkTyped, <1>4 DEF IInv, Next
  <2>5. CASE active = r
    <3> DEFINE S == [R EXCEPT !.step = step]
    <3>1. run'[active] = S
      BY <1>1, <2>2, <2>5
    <3>2. /\ S \in RunObject /\ S.step = step /\ S.adding = R.adding /\ S.added = R.added
          /\ S.ice = R.ice /\ S.queue = R.queue /\ S.pc = R.pc /\ S.remote = R.remote
      BY <1>1, RunObjectIs
    <3> HIDE DEF S
    <3>3. Awaiting(S) /\ Lined(S) /\ Taken(S) = Taken(R)
      BY <1>1, <2>1, <2>2, <2>5, <3>2 DEF Ordered, Awaiting, Lined, Taken
    <3>4. Ordered(S, L)
      BY <1>1, <3>2, <3>3, PassesOrder DEF Passes
    <3>5. Ordered(S, link'[active])
      BY <1>1, <2>3, <2>4, <3>2, <3>4, KeepsOrder
    <3> QED  BY <3>1, <3>5
  <2>6. CASE active # r
    <3>1. run'[active] = R
      BY <1>1, <2>2, <2>6
    <3>2. Ordered(R, link'[active])
      BY <1>1, <2>3, <2>4, KeepsOrder
    <3> QED  BY <3>1, <3>2
  <2> QED  BY <2>5, <2>6
<1>5. CASE NegotiationFails(r)
  <2>1. CASE active = r
    BY <1>1, <1>5, <2>1 DEF NegotiationFails, CleanupFrom
  <2>2. CASE active # r
    <3>1. UNCHANGED link /\ run' = [run EXCEPT ![r] = [Abandon(@) EXCEPT !.queue = <<>>]]
      BY <1>5, <2>2 DEF NegotiationFails, far
    <3> QED  BY <1>1, <2>2, <3>1, OthersOrder
  <2> QED  BY <2>1, <2>2
<1> QED  BY <1>2, <1>3, <1>4, <1>5

(* The current run keeps its candidates and what comes for it. *)
Keeps(R, S) == /\ S.added = R.added /\ S.adding = R.adding /\ S.ice = R.ice
               /\ S.queue = R.queue /\ S.step = R.step /\ S.remote = R.remote
               /\ S.pc = "none" => R.pc = "none"
LEMMA QuietOrder ==
    ASSUME IInv, IInv', OrderInv, active \in Run, active' = active,
           Keeps(run[active], run'[active]), Unheard(link[active], link'[active])
    PROVE  Ordered(run'[active'], link'[active'])
<1> DEFINE R == run[active]
           L == link[active]
           S == run'[active]
           K == link'[active]
<1>1. R \in RunObject /\ L \in Link /\ S \in RunObject /\ K \in Link
  BY DEF IInv, Typed, Object
<1>2. Ordered(R, L) /\ Keeps(R, S) /\ Unheard(L, K)
  BY ViewerAssumption DEF OrderInv
<1> HIDE DEF R, L, S, K
<1>3. Ordered(S, K)
  BY <1>1, <1>2, KeepsOrder DEF Keeps, Unheard
<1> QED  BY <1>3 DEF S, K

(* One message more for some run. *)
LEMMA ToldOrder ==
    ASSUME IInv, IInv', OrderInv, active \in Run, UNCHANGED <<active, run>>,
           NEW r \in Run, NEW m \in Message, NEW K,
           link' = [link EXCEPT ![r] = K], K.inbox = Append(link[r].inbox, m),
           IF m.type = "ice"
           THEN link[r].member = "yes" /\ m.n = link[r].trickled + 1
                /\ K.trickled = link[r].trickled + 1
           ELSE K.trickled = link[r].trickled,
           K.member = "yes" => link[r].member = "yes" \/ m.type = "joined"
    PROVE  Ordered(run'[active'], link'[active'])
<1>1. run[r] \in RunObject /\ link[r] \in Link /\ link \in [Run -> Link]
  BY DEF IInv, Typed, Object
<1>2. CASE r = active
  <2>1. K = link'[r] /\ K \in Link
    BY <1>1 DEF IInv, Typed
  <2>2. Ordered(run[r], link[r])
    BY <1>2, ViewerAssumption DEF OrderInv
  <2>3. Ordered(run[r], K)
    BY <1>1, <2>1, <2>2, SentOrder
  <2> QED  BY <1>2, <2>1, <2>3
<1>3. CASE r # active
  BY <1>1, <1>3, OthersOrder
<1> QED  BY <1>2, <1>3

LEMMA Telling ==
    ASSUME NEW L \in Link, NEW m
    PROVE  LET K == Tell(L, m) IN
           /\ K.inbox = Append(L.inbox, m) /\ K.member = L.member /\ K.trickled = L.trickled
           /\ \A member : /\ [K EXCEPT !.member = member].inbox = Append(L.inbox, m)
                          /\ [K EXCEPT !.member = member].member = member
                          /\ [K EXCEPT !.member = member].trickled = L.trickled
           /\ \A offered : /\ [K EXCEPT !.offered = offered].inbox = Append(L.inbox, m)
                           /\ [K EXCEPT !.offered = offered].member = L.member
                           /\ [K EXCEPT !.offered = offered].trickled = L.trickled
           /\ \A n : /\ [K EXCEPT !.trickled = n].inbox = Append(L.inbox, m)
                     /\ [K EXCEPT !.trickled = n].member = L.member
                     /\ [K EXCEPT !.trickled = n].trickled = n
  BY DEF Tell, Link

LEMMA FarOrder ==
    ASSUME IInv, IInv', OrderInv, active \in Run, NEW r \in Run,
           \/ ServerAdmits(r) \/ ServerRejects(r) \/ SharerOffers(r) \/ SharerTrickles(r)
           \/ ServerBeats(r)
    PROVE  active' = active /\ Ordered(run'[active'], link'[active'])
<1>1. link \in [Run -> Link] /\ link[r] \in Link /\ link[r].trickled \in Nat
  BY ViewerAssumption DEF IInv, Typed, Link
<1>2. UNCHANGED <<active, run>>
  BY DEF ServerAdmits, ServerRejects, SharerOffers, SharerTrickles, ServerBeats, page
<1>3. CASE ServerAdmits(r)
  <2> DEFINE m == Msg("joined", 0)
             K == [Tell(link[r], m) EXCEPT !.member = "yes"]
  <2>1. link' = [link EXCEPT ![r] = K]
    BY <1>3 DEF ServerAdmits
  <2>2. m \in Message /\ m.type = "joined"
    BY MessageTyped DEF Msg
  <2>3. K.inbox = Append(link[r].inbox, m) /\ K.trickled = link[r].trickled
    BY <1>1, Telling
  <2> HIDE DEF m, K
  <2> QED  BY <1>2, <2>1, <2>2, <2>3, ToldOrder
<1>4. CASE ServerRejects(r)
  <2> DEFINE m == Msg("error", 0)
             K == [Tell(link[r], m) EXCEPT !.member = "out"]
  <2>1. link' = [link EXCEPT ![r] = K]
    BY <1>4 DEF ServerRejects
  <2>2. m \in Message /\ m.type = "error"
    BY MessageTyped DEF Msg
  <2>3. K.inbox = Append(link[r].inbox, m) /\ K.trickled = link[r].trickled /\ K.member = "out"
    BY <1>1, Telling
  <2> HIDE DEF m, K
  <2> QED  BY <1>2, <2>1, <2>2, <2>3, ToldOrder
<1>5. CASE SharerOffers(r)
  <2> DEFINE m == Msg("offer", 0)
             K == [Tell(link[r], m) EXCEPT !.offered = TRUE]
  <2>1. link' = [link EXCEPT ![r] = K]
    BY <1>5 DEF SharerOffers
  <2>2. m \in Message /\ m.type = "offer"
    BY MessageTyped DEF Msg
  <2>3. /\ K.inbox = Append(link[r].inbox, m) /\ K.trickled = link[r].trickled
        /\ K.member = link[r].member
    BY <1>1, Telling
  <2> HIDE DEF m, K
  <2> QED  BY <1>2, <2>1, <2>2, <2>3, ToldOrder
<1>6. CASE SharerTrickles(r)
  <2> DEFINE n == link[r].trickled + 1
             m == Msg("ice", n)
             K == [Tell(link[r], m) EXCEPT !.trickled = n]
  <2>1. link' = [link EXCEPT ![r] = K] /\ link[r].member = "yes" /\ n \in 1 .. Candidates
    BY <1>1, <1>6, ViewerAssumption DEF SharerTrickles
  <2>2. m \in Message /\ m.type = "ice" /\ m.n = n
    BY <2>1, MessageTyped DEF Msg
  <2>3. K.inbox = Append(link[r].inbox, m) /\ K.trickled = n
    BY <1>1, Telling
  <2> HIDE DEF m, K
  <2> QED  BY <1>2, <2>1, <2>2, <2>3, ToldOrder
<1>7. CASE ServerBeats(r)
  <2> DEFINE m == Msg("heartbeat", 0)
             K == Tell(link[r], m)
  <2>1. link' = [link EXCEPT ![r] = K]
    BY <1>7 DEF ServerBeats
  <2>2. m \in Message /\ m.type = "heartbeat"
    BY MessageTyped DEF Msg
  <2>3. /\ K.inbox = Append(link[r].inbox, m) /\ K.trickled = link[r].trickled
        /\ K.member = link[r].member
    BY <1>1, Telling
  <2> HIDE DEF m, K
  <2> QED  BY <1>2, <2>1, <2>2, <2>3, ToldOrder
<1> QED  BY <1>2, <1>3, <1>4, <1>5, <1>6, <1>7

LEMMA EndOrder ==
    ASSUME IInv, IInv', OrderInv, active \in Run, SessionEnds
    PROVE  active' = active /\ Ordered(run'[active'], link'[active'])
<1> DEFINE r == active
           m == Msg("stopped", 0)
           K == [Tell(link[r], m) EXCEPT !.member = "out"]
<1>1. link \in [Run -> Link] /\ link[r] \in Link
  BY DEF IInv, Typed
<1>2. UNCHANGED <<active, run>>
  BY DEF SessionEnds, page
<1>3. link'[r] = IF link[r].member = "yes" THEN K ELSE link[r]
  BY DEF SessionEnds
<1>4. CASE link[r].member = "yes"
  <2>1. m \in Message /\ m.type = "stopped"
    BY MessageTyped DEF Msg
  <2>2. K.inbox = Append(link[r].inbox, m) /\ K.trickled = link[r].trickled /\ K.member = "out"
    BY <1>1, Telling
  <2>3. K = link'[r] /\ K \in Link /\ run[r] \in RunObject
    BY <1>3, <1>4 DEF IInv, Typed, Object
  <2>4. Ordered(run[r], link[r])
    BY ViewerAssumption DEF OrderInv
  <2> HIDE DEF m, K
  <2>5. Ordered(run[r], K)
    BY <1>1, <2>1, <2>2, <2>3, <2>4, SentOrder
  <2> QED  BY <1>2, <2>3, <2>5
<1>5. CASE link[r].member # "yes"
  BY <1>2, <1>3, <1>5, OthersOrder
<1> QED  BY <1>2, <1>4, <1>5

LEMMA ArrivesOrder ==
    ASSUME IInv, IInv', OrderInv, active \in Run, active' = active, NEW r \in Run, Arrives(r)
    PROVE  Ordered(run'[active'], link'[active'])
<1> DEFINE R == run[r]
           b == link[r].inbox
           m == Head(b)
           q == Append(R.queue, m)
           rs == [run EXCEPT ![r].watchdog = TRUE]
           W == [R EXCEPT !.watchdog = TRUE]
           K == [link[r] EXCEPT !.inbox = Tail(b)]
           S == IF m.type = "heartbeat" THEN W ELSE [W EXCEPT !.queue = q]
<1>1. r = active
  BY DEF Arrives, IInv, StaleRunsClosed
<1>2. R \in RunObject /\ link[r] \in Link /\ link \in [Run -> Link] /\ run \in [Run -> Object]
      /\ Ordered(R, link[r]) /\ active # None /\ b \in Seq(Message) /\ b # <<>>
  BY <1>1, MessagesTyped, ViewerAssumption DEF Arrives, IInv, Typed, Object, OrderInv, Messages
<1>3. m.type \notin Urgent
  <2>1. CASE m.type \in Urgent
    <3>1. Receive(rs, r, m) /\ (m.type = "stopped" \/ m.type = "error")
      BY <2>1 DEF Arrives, Urgent
    <3>2. active' = None
      BY <1>1, <3>1 DEF Receive, CleanupFrom
    <3> QED  BY <1>2, <3>2
  <2> QED  BY <2>1
<1>4. run' = [run EXCEPT ![r] = S] /\ link' = [link EXCEPT ![r] = K]
  <2>1. rs = [run EXCEPT ![r] = W] /\ rs[r] = W
    BY <1>2
  <2>2. /\ run' = IF m.type = "heartbeat" THEN rs ELSE [rs EXCEPT ![r].queue = Append(@, m)]
        /\ link' = [link EXCEPT ![r].inbox = Tail(@)]
    BY <1>3 DEF Arrives
  <2>3. link' = [link EXCEPT ![r] = K]
    BY <1>2, <2>2
  <2>4. W.queue = R.queue
    BY <1>2, RunObjectIs
  <2> HIDE DEF W, m, rs
  <2>5. [rs EXCEPT ![r].queue = Append(@, m)] = [run EXCEPT ![r] = [W EXCEPT !.queue = q]]
    <3>1. run \in [Run -> Object] /\ rs = [run EXCEPT ![r] = W] /\ Append(W.queue, m) = q
      BY <1>2, <2>1, <2>4
    <3> HIDE DEF q
    <3> QED  BY ONLY <3>1
  <2> QED  BY <2>1, <2>2, <2>3, <2>5
<1>5. run'[r] = S /\ link'[r] = K /\ S \in RunObject /\ K \in Link
  <2>1. run'[r] = S /\ link'[r] = K
    BY <1>2, <1>4
  <2> HIDE DEF S, K
  <2> QED  BY <2>1 DEF IInv, Typed, Object
<1>6. K.inbox = Tail(b) /\ K.trickled = link[r].trickled /\ K.member = link[r].member
  BY <1>2 DEF Link
<1>7. /\ S.added = R.added /\ S.adding = R.adding /\ S.ice = R.ice
      /\ S.step = R.step /\ S.remote = R.remote /\ S.pc = R.pc
      /\ S.queue = IF m.type = "heartbeat" THEN R.queue ELSE q
  <2>1. /\ W \in RunObject /\ W.added = R.added /\ W.adding = R.adding /\ W.ice = R.ice
        /\ W.step = R.step /\ W.remote = R.remote /\ W.pc = R.pc /\ W.queue = R.queue
    BY <1>2, RunObjectIs
  <2> HIDE DEF q, W, m
  <2> QED  BY <2>1, RunObjectIs
<1> HIDE DEF S, K
<1>8. Ordered(S, K)
  <2>1. S.queue = IF Head(link[r].inbox).type = "heartbeat" THEN R.queue
                  ELSE Append(R.queue, Head(link[r].inbox))
    BY <1>7
  <2>2. link[r].inbox # <<>> /\ K.inbox = Tail(link[r].inbox)
    BY <1>2, <1>6
  <2> HIDE DEF R
  <2> QED  BY <1>2, <1>5, <1>6, <1>7, <2>1, <2>2, ArrivedOrder
<1> QED  BY <1>1, <1>5, <1>8

LEMMA MicrotaskOrder ==
    ASSUME IInv, IInv', OrderInv, active \in Run, active' = active, NEW r \in Run, Microtask(r)
    PROVE  Ordered(run'[active'], link'[active'])
<1> DEFINE R == run[r]
           L == link[r]
           m == Head(R.queue)
           t == Tail(R.queue)
           rs == [run EXCEPT ![r].queue = Tail(@)]
           T == [R EXCEPT !.queue = t]
<1>1. R \in RunObject /\ L \in Link /\ link \in [Run -> Link] /\ run \in [Run -> Object]
      /\ R.queue \in Messages /\ R.ice \in Ices
  BY MessagesTyped DEF IInv, Typed
<1>2. R.queue # <<>> /\ R.step = "idle" /\ Receive(rs, r, m) /\ UNCHANGED link
  BY DEF Microtask, Ready, far
<1>3. rs = [run EXCEPT ![r] = T] /\ rs[r] = T
  BY <1>1
<1>4. m \in Message /\ t \in Messages
  BY <1>1, <1>2, Reading DEF Messages
<1>5. /\ T \in RunObject /\ T.queue = t /\ T.added = R.added /\ T.adding = R.adding
      /\ T.ice = R.ice /\ T.step = R.step /\ T.remote = R.remote /\ T.pc = R.pc
  <2> HIDE DEF t
  <2> QED  BY <1>1, <1>4, RunObjectIs
<1>6. CASE active # r
  <2>1. run' = rs
    BY <1>2, <1>6 DEF Receive
  <2> QED  BY <1>1, <1>2, <1>3, <1>6, <2>1, OthersOrder
<1>7. CASE active = r
  <2> DEFINE S == run'[r]
  <2>0. active # None /\ Ordered(R, L)
    BY <1>7, ViewerAssumption DEF OrderInv
  <2> HIDE DEF rs, m, t, T
  <2>1. \/ m.type = "joined" /\ run' = [rs EXCEPT ![r].pc = "new", ![r].timer = "direct"]
        \/ /\ m.type \in {"offer", "ice"}
           /\ run' = IF rs[r].pc = "none" \/ (m.type = "offer" /\ rs[r].remote) THEN rs
                     ELSE IF m.type = "offer" THEN [rs EXCEPT ![r].step = "remote"]
                     ELSE IF rs[r].remote
                     THEN [rs EXCEPT ![r].step = "late", ![r].adding = <<m.n>>]
                     ELSE [rs EXCEPT ![r].ice = Append(@, m.n)]
    BY <1>2, <1>7, <2>0 DEF Receive, CleanupFrom
  <2>2. S \in RunObject
    BY DEF IInv, Typed, Object
  <2>3. m.type = "ice" => m.n \in 1 .. Candidates
    BY <1>4 DEF Message
  <2>4. m.type = "ice" => R.pc # "none"
    <3>1. R.queue \in Seq(Message) /\ L.inbox \in Seq(Message)
      BY <1>1 DEF Messages, Link
    <3> DEFINE a == R.queue
               b == L.inbox
    <3>2. a \in Seq(Message) /\ b \in Seq(Message) /\ a # <<>> /\ Head(a) = m
      BY <1>2, <3>1 DEF m
    <3> HIDE DEF a, b
    <3>3. a \o b \in Seq(Message) /\ a \o b # <<>> /\ Head(a \o b) = m
      BY <3>2, Taking
    <3>4. Comes(R.pc, L.member, a \o b, Taken(R), L.trickled)
      BY <2>0 DEF Ordered, a, b
    <3>5. Taken(R) \in Nat /\ L.trickled \in Nat
      BY <1>1, Sizes
    <3> QED  BY <3>3, <3>4, <3>5, TakeComes
  <2>5. CASE m.type = "joined"
    <3> DEFINE N == [T EXCEPT !.pc = "new", !.timer = "direct"]
    <3>1. run' = [rs EXCEPT ![r] = N]
      BY <1>3, <2>1, <2>5
    <3>2. S = N
      BY <1>1, <1>3, <3>1
    <3>3. /\ S.queue = t /\ S.added = R.added /\ S.adding = R.adding
          /\ S.ice = R.ice /\ S.step = "idle" /\ S.remote = R.remote /\ S.pc = "new"
      BY <1>2, <1>5, <3>2, RunObjectIs
    <3> HIDE DEF S, N
    <3>4. Head(R.queue).type = "joined" /\ S.queue = Tail(R.queue)
      BY <2>5, <3>3 DEF m, t
    <3> HIDE DEF R, L
    <3>5. Ordered(S, L)
      BY <1>1, <1>2, <2>0, <2>2, <3>3, <3>4, ReceivedOrder
    <3> QED  BY <1>2, <1>7, <3>5 DEF S, L
  <2>6. CASE m.type = "offer" /\ (R.pc = "none" \/ R.remote)
    <3>1. S = T
      BY <1>3, <1>5, <2>1, <2>6
    <3>2. /\ S.queue = t /\ S.added = R.added /\ S.adding = R.adding
          /\ S.ice = R.ice /\ S.step = "idle" /\ S.remote = R.remote /\ S.pc = R.pc
      BY <1>2, <1>5, <3>1
    <3> HIDE DEF S
    <3>4. Head(R.queue).type = "offer" /\ S.queue = Tail(R.queue)
      BY <2>6, <3>2 DEF m, t
    <3> HIDE DEF R, L
    <3>5. Ordered(S, L)
      BY <1>1, <1>2, <2>0, <2>2, <3>2, <3>4, ReceivedOrder
    <3> QED  BY <1>2, <1>7, <3>5 DEF S, L
  <2>7. CASE m.type = "offer" /\ R.pc # "none" /\ ~R.remote
    <3> DEFINE N == [T EXCEPT !.step = "remote"]
    <3>1. run' = [rs EXCEPT ![r] = N]
      BY <1>3, <1>5, <2>1, <2>7
    <3>2. S = N
      BY <1>1, <1>3, <3>1
    <3>3. /\ S.queue = t /\ S.added = R.added /\ S.adding = R.adding
          /\ S.ice = R.ice /\ S.step = "remote" /\ S.remote = R.remote /\ S.pc = R.pc
      BY <1>5, <3>2, RunObjectIs
    <3> HIDE DEF S, N
    <3>4. Head(R.queue).type = "offer" /\ S.queue = Tail(R.queue) /\ ~R.remote
      BY <2>7, <3>3 DEF m, t
    <3> HIDE DEF R, L
    <3>5. Ordered(S, L)
      BY <1>1, <1>2, <2>0, <2>2, <3>3, <3>4, ReceivedOrder
    <3> QED  BY <1>2, <1>7, <3>5 DEF S, L
  <2>8. CASE m.type = "ice" /\ R.remote
    <3> DEFINE c == <<m.n>>
               N == [T EXCEPT !.step = "late", !.adding = c]
    <3>1. run' = [rs EXCEPT ![r] = N]
      BY <1>3, <1>5, <2>1, <2>4, <2>8
    <3>2. S = N /\ c \in Ices
      BY <1>1, <1>3, <2>3, <2>8, <3>1 DEF Ices
    <3> HIDE DEF c
    <3>3. /\ S.queue = t /\ S.added = R.added /\ S.adding = c
          /\ S.ice = R.ice /\ S.step = "late" /\ S.remote = R.remote /\ S.pc = R.pc
      BY <1>5, <3>2, RunObjectIs
    <3> HIDE DEF S, N
    <3>4. /\ Head(R.queue).type = "ice" /\ S.queue = Tail(R.queue) /\ R.remote
          /\ S.adding = <<Head(R.queue).n>>
      BY <2>8, <3>3 DEF m, t, c
    <3> HIDE DEF R, L
    <3>5. Ordered(S, L)
      BY <1>1, <1>2, <2>0, <2>2, <3>3, <3>4, ReceivedOrder
    <3> QED  BY <1>2, <1>7, <3>5 DEF S, L
  <2>9. CASE m.type = "ice" /\ ~R.remote
    <3> DEFINE c == Append(R.ice, m.n)
               N == [T EXCEPT !.ice = c]
    <3>1. run' = [rs EXCEPT ![r] = N]
      BY <1>3, <1>5, <2>1, <2>4, <2>9
    <3>2. S = N /\ c \in Ices
      <4>1. c \in Ices
        BY <1>1, <2>3, <2>9 DEF Ices
      <4> QED  BY <1>1, <1>3, <3>1, <4>1
    <3> HIDE DEF c
    <3>3. /\ S.queue = t /\ S.added = R.added /\ S.adding = R.adding
          /\ S.ice = c /\ S.step = "idle" /\ S.remote = R.remote /\ S.pc = R.pc
      BY <1>2, <1>5, <3>2, RunObjectIs
    <3> HIDE DEF S, N
    <3>4. /\ Head(R.queue).type = "ice" /\ S.queue = Tail(R.queue) /\ ~R.remote
          /\ S.ice = Append(R.ice, Head(R.queue).n)
      BY <2>9, <3>3 DEF m, t, c
    <3> HIDE DEF R, L
    <3>5. Ordered(S, L)
      BY <1>1, <1>2, <2>0, <2>2, <3>3, <3>4, ReceivedOrder
    <3> QED  BY <1>2, <1>7, <3>5 DEF S, L
  <2> QED  BY <2>1, <2>5, <2>6, <2>7, <2>8, <2>9
<1> QED  BY <1>6, <1>7

LEMMA JoinOrder ==
    ASSUME IInv, OrderInv, NEW r \in Run, Join(r)
    PROVE  Ordered(run'[active'], link'[active'])
<1> DEFINE L == link[r]
           R == Opening
<1>1. active' = r /\ run'[r] = R /\ link'[r] = L /\ L.inbox = <<>> /\ L.trickled = 0
      /\ L.member = "no"
  BY DEF IInv, Typed, Join, far, OrderInv, Fresh
<1>2. /\ R.added = <<>> /\ R.adding = <<>> /\ R.ice = <<>> /\ R.queue = <<>>
      /\ R.step = "idle" /\ R.remote = FALSE /\ R.pc = "none"
  BY DEF Opening, Unused
<1> HIDE DEF L, R
<1>3. Len(<<>>) = 0 /\ <<>> \o <<>> = <<>>
  OBVIOUS
<1>4. Awaiting(R)
  BY <1>2 DEF Awaiting
<1>5. Lined(R) /\ Taken(R) = 0
  BY <1>2, <1>3 DEF Lined, Counted, Taken
<1>6. InTurn(<<>>, 0, 0) /\ Welcomed("none", "no", <<>>)
  BY <1>3 DEF InTurn, Welcomed
<1>7. R.queue \o L.inbox = <<>>
  BY <1>1, <1>2, <1>3
<1> QED  BY <1>1, <1>2, <1>4, <1>5, <1>6, <1>7 DEF Ordered, Comes

(* The steps that change no candidate and nothing that comes. *)
LEMMA PlainOrder ==
    ASSUME IInv, IInv', OrderInv, active \in Run, active' = active, NEW r \in Run,
           Opens(r) \/ LocalCandidate(r) \/ PeerConnects(r) \/ LinkDies(r)
    PROVE  Ordered(run'[active'], link'[active'])
<1>1. run \in [Run -> Object] /\ link \in [Run -> Link] /\ run[r] \in RunObject
  BY DEF IInv, Typed, Object
<1>2. Keeps(run[active], run[active]) /\ Unheard(link[active], link[active])
  BY DEF Keeps, Unheard
<1>3. CASE Opens(r)
  <2> DEFINE S == [run[r] EXCEPT !.socket = "open", !.watchdog = TRUE]
  <2>1. run' = [run EXCEPT ![r] = S] /\ link' = [link EXCEPT ![r].sent = Append(@, "join")]
    BY <1>1, <1>3 DEF Opens
  <2>2. Keeps(run[r], S)
    BY <1>1, RunObjectIs DEF Keeps
  <2> HIDE DEF S
  <2>3. Keeps(run[active], run'[active])
    BY <1>1, <1>2, <2>1, <2>2
  <2> QED  BY <1>1, <2>1, <2>3, SendsUnheard, QuietOrder
<1>4. CASE LocalCandidate(r)
  <2>1. UNCHANGED run /\ (UNCHANGED link \/ link' = [link EXCEPT ![r].sent = Append(@, "ice")])
    BY <1>4 DEF LocalCandidate, Send
  <2> QED  BY <1>1, <1>2, <2>1, SendsUnheard, QuietOrder
<1>5. CASE PeerConnects(r)
  <2> DEFINE S == Connected(run[r])
  <2>1. run' = [run EXCEPT ![r] = S] /\ UNCHANGED link
    BY <1>1, <1>5 DEF PeerConnects, far
  <2>2. Keeps(run[r], S)
    BY <1>1, RunObjectIs DEF Keeps, Connected
  <2> HIDE DEF S
  <2>3. Keeps(run[active], run'[active])
    BY <1>1, <1>2, <2>1, <2>2
  <2> QED  BY <1>2, <2>1, <2>3, QuietOrder
<1>6. CASE LinkDies(r)
  <2> DEFINE K == [link[r] EXCEPT !.silent = TRUE]
  <2>1. UNCHANGED run /\ link' = [link EXCEPT ![r] = K] /\ link[r] \in Link
    BY <1>1, <1>6 DEF LinkDies
  <2>2. Unheard(link[r], K)
    BY <2>1 DEF Unheard, Link
  <2> HIDE DEF K
  <2>3. Unheard(link[active], link'[active])
    BY <1>1, <1>2, <2>1, <2>2
  <2> QED  BY <1>2, <2>1, <2>3, QuietOrder
<1> QED  BY <1>3, <1>4, <1>5, <1>6

LEMMA OrderKept ==
    ASSUME IInv, IInv', OrderInv, [Next]_vars, active' # None
    PROVE  Ordered(run'[active'], link'[active'])
<1>1. active' \in Run /\ active \in Run \cup {None} /\ None \notin Run
      /\ Typed /\ StaleRunsClosed /\ link \in [Run -> Link] /\ run \in [Run -> Object]
  BY ViewerAssumption DEF IInv, Typed, PageTyped
<1>2. CASE \E r \in Run : Join(r)
  BY <1>2, JoinOrder
<1>3. CASE ~\E r \in Run : Join(r)
  <2>1. active' = active /\ active \in Run
    <3>1. CASE CleansUp
      BY <3>1 DEF CleansUp, CleanupFrom
    <3>2. CASE Quiet \/ UNCHANGED vars
      BY <1>1, <3>2 DEF Quiet, page, vars
    <3>3. CASE \/ PlayClicked \/ VideoPlays
               \/ \E r \in Run : \/ Joined(r) \/ Opens(r)
                                 \/ TrackArrives(r) \/ PeerConnects(r)
                                 \/ \E cause \in {"track", "click"} : PlaySettles(r, cause)
      BY <1>1, <3>3 DEF PlayClicked, VideoPlays, Joined, Opens, TrackArrives, PeerConnects,
                   PlaySettles, page
    <3> QED  BY <1>1, <1>3, <3>1, <3>2, <3>3, Kinds
  <2>2. ASSUME UNCHANGED <<run, link>> PROVE Ordered(run'[active'], link'[active'])
    BY <2>1, <2>2, OthersOrder
  <2>3. CASE \/ PlayClicked \/ VideoPlays \/ UNCHANGED vars
             \/ \E r \in Run : \/ TrackArrives(r)
                               \/ \E cause \in {"track", "click"} : PlaySettles(r, cause)
    BY <2>2, <2>3 DEF PlayClicked, VideoPlays, TrackArrives, PlaySettles, vars, page, far
  <2>4. ASSUME NEW r \in Run, NEW why, CleanupIfActive(r, why), UNCHANGED far
        PROVE  Ordered(run'[active'], link'[active'])
    BY <2>2, <2>4 DEF CleanupIfActive, Cleanup, CleanupFrom, far
  <2>5. ASSUME NEW r \in Run,
               SocketCloses(r) \/ TimerFires(r) \/ WatchdogFires(r) \/ TrackEnds(r)
        PROVE  Ordered(run'[active'], link'[active'])
    BY <2>4, <2>5 DEF SocketCloses, TimerFires, WatchdogFires, TrackEnds
  <2>6. ~PageHides /\ \A r \in Run : ~PeerFails(r)
    BY DEF PageHides, PeerFails, Cleanup, CleanupFrom
  <2>7. CASE SessionEnds
    BY <2>1, <2>7, EndOrder
  <2>8. ASSUME NEW r \in Run,
               \/ ServerAdmits(r) \/ ServerRejects(r) \/ SharerOffers(r) \/ SharerTrickles(r)
               \/ ServerBeats(r)
        PROVE  Ordered(run'[active'], link'[active'])
    BY <2>1, <2>8, FarOrder
  <2>9. ASSUME NEW r \in Run,
               Opens(r) \/ LocalCandidate(r) \/ PeerConnects(r) \/ LinkDies(r)
        PROVE  Ordered(run'[active'], link'[active'])
    BY <2>1, <2>9, PlainOrder
  <2>10. ASSUME NEW r \in Run,
               \/ RemoteSet(r) \/ CandidateAdded(r) \/ AnswerCreated(r) \/ LocalSet(r)
               \/ NegotiationFails(r)
        PROVE  Ordered(run'[active'], link'[active'])
    BY <2>1, <2>10, PromiseOrder
  <2> QED
    BY <1>3, <2>1, <2>3, <2>5, <2>6, <2>7, <2>8, <2>9, <2>10, ArrivesOrder, MicrotaskOrder
    DEF Next, Submit, Reconnect
<1> QED  BY <1>2, <1>3

(* A socket that is not open was not before either, and brings nothing new.  *)
Early == {"unused", "opening"}
LEMMA StillEarly ==
    ASSUME IInv, [Next]_vars, NEW o \in Run, run'[o].socket \in Early
    PROVE  run[o].socket \in Early
<1>1. run \in [Run -> Object] /\ Typed /\ StaleRunsClosed
  BY DEF IInv, Typed
<1>2. CASE Quiet \/ UNCHANGED run
  BY <1>2 DEF Quiet, Same
<1>3. CASE CleansUp
  <2>1. PICK rs \in [Run -> Object] :
            Same(rs) /\ run' = [r \in Run |-> IF r = active THEN Closed(rs[r]) ELSE rs[r]]
    BY <1>3 DEF CleansUp, CleanupFrom
  <2> QED  BY <2>1, ObjectSteps DEF Same, Early
<1>4. ASSUME NEW r \in Run, Joined(r) PROVE run[o].socket \in Early
  <2>1. PICK rs \in [Run -> Object] :
            Same(rs) /\ run' = [rs EXCEPT ![r].pc = "new", ![r].timer = "direct"]
    BY <1>4 DEF Joined
  <2> DEFINE S == [rs[r] EXCEPT !.pc = "new", !.timer = "direct"]
  <2>2. run' = [rs EXCEPT ![r] = S] /\ rs[r] \in RunObject
    BY <2>1 DEF Object
  <2>3. S.socket = rs[r].socket
    BY <2>2, RunObjectIs
  <2> HIDE DEF S
  <2> QED  BY <2>1, <2>2, <2>3 DEF Same
<1>5. ASSUME NEW r \in Run, Join(r) PROVE run[o].socket \in Early
  BY <1>1, <1>5 DEF Join, Early
<1>6. ASSUME NEW r \in Run, Opens(r) PROVE run[o].socket \in Early
  BY <1>1, <1>6 DEF Opens, Early
<1>7. ASSUME NEW r \in Run, PeerConnects(r) PROVE run[o].socket \in Early
  <2>1. run' = [run EXCEPT ![r] = Connected(run[r])] /\ run[r] \in RunObject
    BY <1>1, <1>7 DEF PeerConnects, Object
  <2>2. Connected(run[r]).socket = run[r].socket
    BY <2>1, RunObjectIs DEF Connected
  <2> QED  BY <1>1, <2>1, <2>2
<1>8. CASE \/ PlayClicked \/ VideoPlays
           \/ \E r \in Run : \/ TrackArrives(r)
                             \/ \E cause \in {"track", "click"} : PlaySettles(r, cause)
  BY <1>2, <1>8 DEF PlayClicked, VideoPlays, TrackArrives, PlaySettles
<1>9. CASE UNCHANGED vars
  BY <1>2, <1>9 DEF vars
<1> QED  BY <1>1, <1>2, <1>3, <1>4, <1>5, <1>6, <1>7, <1>8, <1>9, Kinds

LEMMA FreshUnheard ==
    ASSUME IInv, [Next]_vars, NEW o \in Run, run[o].socket \in Early,
           Fresh(run[o], link[o])
    PROVE  Unheard(link[o], link'[o])
<1>1. link \in [Run -> Link] /\ run[o].socket # "open" /\ link[o].member = "no"
  BY DEF IInv, Typed, Fresh, Early
<1>2. CASE UNCHANGED link
  BY <1>2 DEF Unheard
<1>3. ASSUME NEW r \in Run, NEW K, link' = [link EXCEPT ![r] = K], r # o
      PROVE  Unheard(link[o], link'[o])
  BY <1>1, <1>3 DEF Unheard
<1>4. ASSUME NEW r \in Run,
             \/ ServerAdmits(r) \/ ServerRejects(r) \/ SharerOffers(r) \/ SharerTrickles(r)
             \/ ServerBeats(r) \/ Arrives(r)
      PROVE  Unheard(link[o], link'[o])
  <2>1. r # o
    BY <1>1, <1>4 DEF ServerAdmits, ServerRejects, SharerOffers, SharerTrickles, ServerBeats,
                      Arrives, Reachable
  <2>2. \E K : link' = [link EXCEPT ![r] = K]
    BY <1>4 DEF ServerAdmits, ServerRejects, SharerOffers, SharerTrickles, ServerBeats, Arrives
  <2> QED  BY <1>3, <2>1, <2>2
<1>5. CASE SessionEnds
  <2>1. link'[o] = link[o]
    BY <1>1, <1>5 DEF SessionEnds
  <2> QED  BY <2>1 DEF Unheard
<1>6. ASSUME NEW r \in Run, LocalSet(r) \/ LocalCandidate(r) \/ Opens(r)
      PROVE  Unheard(link[o], link'[o])
  <2>1. \E type \in {"join", "ice", "answer"} :
            UNCHANGED link \/ link' = [link EXCEPT ![r].sent = Append(@, type)]
    <3>1. CASE LocalSet(r)
      BY <3>1 DEF LocalSet, Send
    <3>2. CASE LocalCandidate(r)
      BY <3>2 DEF LocalCandidate, Send
    <3>3. CASE Opens(r)
      BY <3>3 DEF Opens
    <3> QED  BY <1>6, <3>1, <3>2, <3>3
  <2> QED  BY <1>1, <2>1, SendsUnheard
<1>7. ASSUME NEW r \in Run, LinkDies(r) PROVE Unheard(link[o], link'[o])
  <2> DEFINE K == [link[r] EXCEPT !.silent = TRUE]
  <2>1. link' = [link EXCEPT ![r] = K] /\ link[r] \in Link
    BY <1>1, <1>7 DEF LinkDies
  <2>2. Unheard(link[r], K)
    BY <2>1 DEF Unheard, Link
  <2> HIDE DEF K
  <2> QED  BY <1>1, <1>3, <2>1, <2>2
<1>8. ASSUME NEW r \in Run,
             \/ Submit(r) \/ Reconnect(r) \/ \E cause \in {"track", "click"} : PlaySettles(r, cause)
             \/ Microtask(r) \/ SocketCloses(r) \/ TimerFires(r) \/ WatchdogFires(r)
       PROVE  UNCHANGED far
  BY <1>8 DEF Submit, Reconnect, Join, PlaySettles, Microtask, SocketCloses, TimerFires,
              WatchdogFires
<1>9. ASSUME NEW r \in Run,
              \/ RemoteSet(r) \/ CandidateAdded(r) \/ AnswerCreated(r) \/ NegotiationFails(r)
              \/ TrackArrives(r) \/ TrackEnds(r) \/ PeerConnects(r) \/ PeerFails(r)
       PROVE  UNCHANGED far
  BY <1>9 DEF RemoteSet, CandidateAdded, AnswerCreated, NegotiationFails, TrackArrives,
               TrackEnds, PeerConnects, PeerFails
<1>10. PageHides \/ PlayClicked \/ VideoPlays \/ UNCHANGED vars => UNCHANGED link
  BY DEF PageHides, PlayClicked, VideoPlays, vars, far
<1>11. UNCHANGED far => UNCHANGED link
  BY DEF far
<1> QED  BY <1>2, <1>4, <1>5, <1>6, <1>7, <1>8, <1>9, <1>10, <1>11 DEF Next

LEMMA OrderInductive ==
    ASSUME IInv, OrderInv, [Next]_vars
    PROVE  OrderInv'
<1>1. IInv'
  BY Inductive
<1>2. ASSUME NEW o \in Run PROVE Fresh(run'[o], link'[o])
  <2>1. CASE run'[o].socket \in Early
    <3>1. run[o].socket \in Early /\ Fresh(run[o], link[o])
      BY <2>1, StillEarly DEF OrderInv
    <3>2. Unheard(link[o], link'[o])
      BY <3>1, FreshUnheard
    <3> QED  BY <3>1, <3>2 DEF Fresh, Unheard, Early
  <2>2. CASE run'[o].socket \notin Early
    BY <2>2 DEF Fresh, Early
  <2> QED  BY <2>1, <2>2
<1>3. active' # None => Ordered(run'[active'], link'[active'])
  BY <1>1, OrderKept
<1> QED  BY <1>2, <1>3 DEF OrderInv

LEMMA OrderInvariant == Spec => []OrderInv
<1>1. Init => OrderInv
  <2> SUFFICES ASSUME Init PROVE OrderInv
    OBVIOUS
  <2>1. \A r \in Run : link[r].inbox = <<>> /\ link[r].trickled = 0 /\ link[r].member = "no"
    BY DEF Init
  <2>2. active = None
    BY DEF Init
  <2> QED  BY <2>1, <2>2 DEF OrderInv, Fresh
<1>2. IInv /\ OrderInv /\ [Next]_vars => OrderInv'
  BY OrderInductive
<1> QED  BY <1>1, <1>2, Invariant, PTL DEF Spec

(* What the page has added, is adding and has set aside, one after another.  *)
LEMMA TakenInLine ==
    ASSUME NEW R \in RunObject, Lined(R)
    PROVE  LET taken == R.added \o R.adding \o R.ice IN
           taken = [i \in 1 .. Len(taken) |-> i] /\ Len(taken) = Taken(R)
<1> DEFINE a == R.added
           b == R.adding
           c == R.ice
           S == 1 .. Candidates
<1>1. a \in Seq(S) /\ b \in Seq(S) /\ c \in Seq(S)
  BY RunObjectIs DEF Ices
<1>2. Counted(a, 0) /\ Counted(b, Len(a)) /\ Counted(c, Len(a) + Len(b))
  BY DEF Lined
<1>3. Taken(R) = Len(a) + Len(b) + Len(c)
  BY DEF Taken
<1> HIDE DEF a, b, c, S
<1>4. LET taken == a \o b \o c IN
      taken = [i \in 1 .. Len(taken) |-> i] /\ Len(taken) = Taken(R)
  BY <1>1, <1>2, <1>3, CountedInLine
<1> QED  BY <1>4 DEF a, b, c

(* Whatever the page awaits while they come, and however its queue and its   *)
(* promises interleave, no candidate is lost, doubled or out of its turn.    *)
THEOREM CandidatesKeepOrder == Spec => []CandidatesInOrder
<1>1. IInv /\ OrderInv => CandidatesInOrder
  <2> SUFFICES ASSUME IInv, OrderInv, active # None PROVE CandidatesInOrder
    BY DEF CandidatesInOrder
  <2> DEFINE R == run[active]
             L == link[active]
             taken == R.added \o R.adding \o R.ice
  <2>1. R \in RunObject /\ Ordered(R, L)
    BY DEF IInv, Typed, PageTyped, Object, OrderInv
  <2>2. Awaiting(R) /\ Lined(R) /\ InTurn(R.queue \o L.inbox, Taken(R), L.trickled)
    BY <2>1 DEF Ordered, Comes
  <2>3. taken = [i \in 1 .. Len(taken) |-> i] /\ Len(taken) = Taken(R)
    BY <2>1, <2>2, TakenInLine
  <2>4. R.step = "idle" /\ R.remote => R.ice = <<>>
    BY <2>2 DEF Awaiting
  <2>5. InTurn(R.queue \o L.inbox, Len(taken), L.trickled)
    BY <2>2, <2>3
  <2> QED  BY <2>3, <2>4, <2>5 DEF CandidatesInOrder
<1> QED  BY <1>1, Invariant, OrderInvariant, PTL
=============================================================================
