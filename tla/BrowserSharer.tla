---------------------------- MODULE BrowserSharer ----------------------------
(***************************************************************************)
(* The sharer page where it captures by itself (Windows),                  *)
(* web/sharer/sharer.js without its native branch, and the App it calls    *)
(* for app audio, cmd/sharer/main_windows.go.  A Run is one press of       *)
(* Start; "active" is the current one.  Each await of the page is a step   *)
(* that may come after the run, or the viewer it is about, is gone.  The   *)
(* far end is the server's session of the active run and its viewers.      *)
(***************************************************************************)
EXTENDS Integers, Sequences, FiniteSets

CONSTANTS
    Run,        \* presses of Start, each used once
    PeerId,     \* viewer tokens, each used once
    MaxViewers, \* four, for the server
    Candidates, \* bound: candidates a viewer sends
    Buffer,     \* bound: messages in flight to the page
    None

ASSUME SharerAssumption ==
    /\ MaxViewers \in Nat \ {0} /\ Candidates \in Nat /\ Buffer \in Nat \ {0}
    /\ None \notin Run \cup PeerId

VARIABLES
    active,    \* the current run
    ui,        \* what the page shows
    run,       \* the run objects, each with its start handler
    ops,       \* the promise chain audioOperation
    capturing, \* App.cancel: the run whose app audio was started last
    peer,      \* the entries of run.peers; stop empties it
    far,       \* the server's session of the active run, and the link to it
    toSharer, toServer,
    broke      \* history: peers that failed or left by themselves

audio == <<ops, capturing>>
share == <<peer, far, toSharer, toServer, broke>>
vars == <<active, ui, run, audio, share>>

ToSharer == [type : {"started", "viewer-joined", "viewer-left", "answer", "ice",
                     "error", "heartbeat"},
             peer : PeerId \cup {None}, n : Nat]
ToServer == [type : {"start", "offer", "ice", "disconnect-peer"}, peer : PeerId \cup {None}]
Told(t, p, n) == [type |-> t, peer |-> p, n |-> n]
Ask(t, p) == [type |-> t, peer |-> p]

Page == [screen : {"STOPPED", "CHOOSING", "CONNECTING", "SHARING"},
         startable : BOOLEAN, \* the start button is enabled
         count : Nat]

RunObject ==
    [phase : {"idle", "picker", "worklet", "audio", "constraints", "done"}, \* what it awaits
     stream : {"none", "live", "ended", "stopped"},
     context : {"none", "running", "suspended", "closed"}, \* none without app audio
     socket : {"none", "opening", "open", "closed"},       \* closed by close() already
     timer : BOOLEAN, watchdog : BOOLEAN]

PeerObject ==
    [life : {"none", "creating", "local", "offered", "answered", "connected", "gone"},
     timer : BOOLEAN,
     iced : BOOLEAN,                   \* its own candidate was sent
     queue : Seq(ToSharer),            \* messages behind peer.queue
     step : {"idle", "answer", "early", "late"}, \* what an earlier one's handler awaits
     ice : Seq(Nat), adding : Seq(Nat),\* candidates held, and those still to add
     added : Seq(Nat)]                 \* history: those that pc has

Far == [open : BOOLEAN, silent : BOOLEAN, members : SUBSET PeerId, offered : SUBSET PeerId,
        answered : SUBSET PeerId, trickled : [PeerId -> 0 .. Candidates]]

TypeOK ==
    /\ active \in Run \cup {None} /\ ui \in Page
    /\ run \in [Run -> RunObject] /\ peer \in [PeerId -> PeerObject]
    /\ ops \in Seq([op : {"start", "stop"}, run : Run, called : BOOLEAN])
    /\ capturing \in Run \cup {None}
    /\ far \in Far /\ toSharer \in Seq(ToSharer) /\ toServer \in Seq(ToServer)
    /\ broke \subseteq PeerId

NoShare == [open |-> FALSE, silent |-> FALSE, members |-> {}, offered |-> {},
            answered |-> {}, trickled |-> [p \in PeerId |-> 0]]

Init ==
    /\ active = None /\ ui = [screen |-> "STOPPED", startable |-> TRUE, count |-> 0]
    /\ run = [r \in Run |-> [phase |-> "idle", stream |-> "none", context |-> "none",
                             socket |-> "none", timer |-> FALSE, watchdog |-> FALSE]]
    /\ peer = [p \in PeerId |->
                  [life |-> "none", timer |-> FALSE, iced |-> FALSE, queue |-> <<>>,
                   step |-> "idle", ice |-> <<>>, adding |-> <<>>, added |-> <<>>]]
    /\ ops = <<>> /\ capturing = None
    /\ far = NoShare /\ toSharer = <<>> /\ toServer = <<>> /\ broke = {}

-----------------------------------------------------------------------------
Current(p) == peer[p].life \notin {"none", "gone"}
Peers == {p \in PeerId : Current(p)}
RemoteSet(p) == peer[p].life \in {"answered", "connected"}

(* A microtask of a peer's queue comes before the next task. *)
Ready(p) == peer[p].queue # <<>> /\ peer[p].step = "idle"
Drained == \A p \in PeerId : ~Ready(p)

(* removePeer *)
Removed(P) == [P EXCEPT !.life = IF @ = "none" THEN @ ELSE "gone", !.timer = FALSE]

(* send; the socket of a run with peers is open. *)
Send(m) == toServer' = Append(toServer, m)

(* failPeer, for a peer that is current *)
FailPeer(p, P) ==
    /\ peer' = [peer EXCEPT ![p] = Removed(P)]
    /\ Send(Ask("disconnect-peer", p))
    /\ broke' = broke \cup {p}

-----------------------------------------------------------------------------
(* stop *)

Closed(R) ==
    [R EXCEPT !.stream = IF @ = "none" THEN @ ELSE "stopped",
              !.context = IF @ = "none" THEN @ ELSE "closed",
              !.socket = IF @ = "none" THEN @ ELSE "closed",
              !.timer = FALSE, !.watchdog = FALSE]

AudioOp(op, r) == [op |-> op, run |-> r, called |-> FALSE]

StopsStarted == active # None /\ capturing = active \* the bug: a running StartAudio is forgotten
StopsAudio == active # None /\ run[active].context # "none"

(* It sends "stop" if it can and closes the socket; what the server and the  *)
(* viewers then do no longer reaches the page.  rs and chain are the runs    *)
(* and the audio operations as the caller leaves them.                       *)
StopFrom(rs, chain) ==
    /\ active' = None
    /\ run' = [r \in Run |-> IF r = active THEN Closed(rs[r]) ELSE rs[r]]
    /\ ops' = IF StopsAudio THEN Append(chain, AudioOp("stop", active)) ELSE chain
    /\ ui' = [screen |-> "STOPPED", count |-> 0,
              startable |-> active = None \/ run[active].context = "none"]
    /\ peer' = [p \in PeerId |-> Removed(peer[p])]
    /\ far' = NoShare /\ toSharer' = <<>> /\ toServer' = <<>>
    /\ UNCHANGED <<capturing, broke>>
Stop == StopFrom(run, ops)

(* An event of run r stops the share if r is the active run. *)
StopIfActive(r) == IF active = r THEN Stop ELSE UNCHANGED vars

StopClicked == Drained /\ active # None /\ Stop
PageHides == Drained /\ Stop

-----------------------------------------------------------------------------
(* The start handler. *)

Goto(r, where) == [run EXCEPT ![r].phase = where]
Returns(r, where) == Drained /\ run[r].phase = where
TooLateNever(r) == FALSE \* the bug: active is not compared after the await
TooLate(r) == active # r

(* With app audio selected the run has an AudioContext from the start. *)
StartClicked(r) ==
    /\ Returns(r, "idle") /\ active = None /\ ui.startable
    /\ active' = r
    /\ ui' = [ui EXCEPT !.startable = FALSE, !.screen = "CHOOSING"]
    /\ \E c \in {"none", "running"} : run' = [Goto(r, "picker") EXCEPT ![r].context = c]
    /\ UNCHANGED <<audio, share>>

(* getDisplayMedia resolves: too late, with a source that is refused, or     *)
(* with one to share. *)
PickerReturns(r) ==
    LET next == IF run[r].context = "none" THEN "constraints" ELSE "worklet" IN
    /\ Returns(r, "picker")
    /\ \/ /\ TooLate(r)
          /\ run' = [Goto(r, "done") EXCEPT ![r].stream = "stopped"]
          /\ UNCHANGED <<active, ui, audio, share>>
       \/ ~TooLate(r) /\ StopFrom([Goto(r, "done") EXCEPT ![r].stream = "live"], ops)
       \/ /\ ~TooLate(r)
          /\ run' = [Goto(r, next) EXCEPT ![r].stream = "live"]
          /\ UNCHANGED <<active, ui, audio, share>>

(* startAppAudio: the context resumed, the worklet loaded. *)
WorkletReady(r) ==
    /\ Returns(r, "worklet")
    /\ \/ TooLate(r) /\ run' = Goto(r, "done") /\ UNCHANGED <<active, ui, audio, share>>
       \/ ~TooLate(r) /\ run[r].context # "running" /\ StopFrom(Goto(r, "done"), ops)
       \/ /\ ~TooLate(r) /\ run[r].context = "running"
          /\ run' = Goto(r, "audio")
          /\ ops' = Append(ops, AudioOp("start", r))
          /\ UNCHANGED <<active, ui, capturing, share>>

LiveUnchecked(r) == TRUE \* the bug: the tracks are not looked at again
Live(r) == run[r].stream = "live"

(* The track listeners are installed before the constraints are applied. *)
ConstraintsApplied(r) ==
    /\ Returns(r, "constraints")
    /\ \/ TooLate(r) /\ run' = Goto(r, "done") /\ UNCHANGED <<active, ui, audio, share>>
       \/ ~TooLate(r) /\ ~Live(r) /\ StopFrom(Goto(r, "done"), ops)
       \/ /\ ~TooLate(r) /\ Live(r)
          /\ ui' = [ui EXCEPT !.screen = "CONNECTING"]
          /\ run' = [Goto(r, "done") EXCEPT ![r].socket = "opening", ![r].timer = TRUE]
          /\ UNCHANGED <<active, audio, share>>

(* An await of the handler rejects; that of audioOperation is AudioRefused. *)
StartFails(r) ==
    /\ Drained /\ run[r].phase \in {"picker", "worklet", "constraints"}
    /\ IF active = r THEN StopFrom(Goto(r, "done"), ops)
       ELSE run' = Goto(r, "done") /\ UNCHANGED <<active, ui, audio, share>>

(* The user ends the capture in the system's own control.  Before the        *)
(* listeners are there nobody hears of it.                                   *)
TrackEnds(r) ==
    /\ Drained /\ run[r].stream = "live"
    /\ IF run[r].phase \in {"constraints", "done"} THEN StopIfActive(r)
       ELSE /\ run' = [run EXCEPT ![r].stream = "ended"]
            /\ UNCHANGED <<active, ui, audio, share>>

ContextSuspends(r) ==
    /\ Drained /\ run[r].context = "running"
    /\ IF run[r].phase \in {"audio", "constraints", "done"} THEN StopIfActive(r)
       ELSE /\ run' = [run EXCEPT ![r].context = "suspended"]
            /\ UNCHANGED <<active, ui, audio, share>>

-----------------------------------------------------------------------------
(* audioOperation and the App behind it.  A rejection reaches the start      *)
(* handler, whose stop (or an earlier one) catches it in the chain.          *)

AudioCalled(op) == Drained /\ ops # <<>> /\ Head(ops).called /\ Head(ops).op = op

(* A start whose run is over is skipped. *)
AudioOpBegins ==
    LET r == Head(ops).run IN
    /\ Drained /\ ops # <<>> /\ ~Head(ops).called
    /\ IF Head(ops).op = "start" /\ active # r
       THEN ops' = Tail(ops) /\ run' = Goto(r, "done")
       ELSE ops' = [ops EXCEPT ![1].called = TRUE] /\ UNCHANGED run
    /\ UNCHANGED <<active, ui, capturing, share>>

AudioStarts ==
    LET r == Head(ops).run IN
    /\ AudioCalled("start") /\ capturing = None
    /\ capturing' = r
    /\ ops' = Tail(ops)
    /\ run' = Goto(r, IF active = r THEN "constraints" ELSE "done")
    /\ UNCHANGED <<active, ui, share>>

(* StartAudio fails; it always does while App.cancel is set. *)
AudioRefused ==
    LET rs == Goto(Head(ops).run, "done") IN
    /\ AudioCalled("start")
    /\ IF active = Head(ops).run THEN StopFrom(rs, Tail(ops))
       ELSE run' = rs /\ ops' = Tail(ops) /\ UNCHANGED <<active, ui, capturing, share>>

Reenabled == ui.startable \/ active = None
AudioStops ==
    /\ AudioCalled("stop")
    /\ capturing' = None
    /\ ops' = Tail(ops)
    /\ ui' = [ui EXCEPT !.startable = Reenabled]
    /\ UNCHANGED <<active, run, share>>

(* The capture dies and its app-audio-error event reaches the page. *)
AudioFails == Drained /\ capturing # None /\ StopIfActive(capturing)

-----------------------------------------------------------------------------
(* The socket. *)

Opens(r) ==
    /\ Drained /\ run[r].socket = "opening"
    /\ run' = [run EXCEPT ![r].socket = "open", ![r].watchdog = TRUE]
    /\ Send(Ask("start", None))
    /\ UNCHANGED <<active, ui, audio, peer, far, toSharer, broke>>

(* onclose or onerror, also the one that the page's own close() causes. *)
SocketCloses(r) == Drained /\ run[r].socket # "none" /\ StopIfActive(r)
TimerFires(r) == Drained /\ run[r].timer /\ StopIfActive(r)
WatchdogFires(r) == Drained /\ run[r].watchdog /\ StopIfActive(r)

(* onmessage: every message sets the watchdog anew.  Three messages end the  *)
(* share and are left out, because no page that is listening gets them: the  *)
(* server answers "start" before it sends anything else (so nothing comes    *)
(* before "started"), sends "stopped" only after the page's own "stop" and   *)
(* close, and an error without a peer only for a request out of place.       *)
Arrives(types) ==
    /\ Drained /\ active # None /\ run[active].socket = "open" /\ ~far.silent
    /\ toSharer # <<>> /\ Head(toSharer).type \in types

Receive(types) ==
    /\ Arrives(types)
    /\ toSharer' = Tail(toSharer)
    /\ UNCHANGED <<active, audio, far>>

Watch(rs) == run' = [rs EXCEPT ![active].watchdog = TRUE]

ReceiveStarted ==
    /\ Receive({"started"}) /\ Watch([run EXCEPT ![active].timer = FALSE])
    /\ ui' = [ui EXCEPT !.screen = "SHARING", !.count = Head(toSharer).n]
    /\ UNCHANGED <<peer, toServer, broke>>

(* A link to another server or an empty code: the handler throws. *)
StartedRefused(r) ==
    /\ active = r /\ Arrives({"started"})
    /\ StopIfActive(r)

ReceiveHeartbeat == Receive({"heartbeat"}) /\ Watch(run) /\ UNCHANGED <<ui, peer, toServer, broke>>

ReceivePeerError ==
    LET p == Head(toSharer).peer IN
    /\ Receive({"error"}) /\ p # None /\ Watch(run)
    /\ IF Current(p) THEN FailPeer(p, peer[p]) ELSE UNCHANGED <<peer, toServer, broke>>
    /\ UNCHANGED ui

CountKnown(m) == IF Current(m.peer) THEN m.n ELSE ui.count \* the bug: old news is ignored
CountLeft(m) == m.n
ReceiveLeft ==
    LET m == Head(toSharer) IN
    /\ Receive({"viewer-left"}) /\ Watch(run)
    /\ peer' = [peer EXCEPT ![m.peer] = Removed(@)]
    /\ ui' = [ui EXCEPT !.count = CountLeft(m)]
    /\ UNCHANGED <<toServer, broke>>

ReceiveJoined ==
    LET m == Head(toSharer) IN
    /\ Receive({"viewer-joined"}) /\ Watch(run)
    /\ IF Current(m.peer) THEN UNCHANGED <<ui, peer>>
       ELSE /\ peer' = [peer EXCEPT ![m.peer].life = "creating", ![m.peer].timer = TRUE]
            /\ ui' = [ui EXCEPT !.count = m.n]
    /\ UNCHANGED <<toServer, broke>>

(* Only negotiation is queued. *)
ReceiveNegotiation ==
    LET m == Head(toSharer) IN
    /\ Receive({"answer", "ice"}) /\ Watch(run)
    /\ peer' = IF Current(m.peer) THEN [peer EXCEPT ![m.peer].queue = Append(@, m)] ELSE peer
    /\ UNCHANGED <<ui, toServer, broke>>

-----------------------------------------------------------------------------
(* A viewer's negotiation.  fixed: what these steps never touch.             *)

fixed == <<active, ui, run, audio, far, toSharer>>
Becomes(p, P) == peer' = [peer EXCEPT ![p] = P] /\ UNCHANGED <<fixed, broke>>

OfferCreated(p) ==
    /\ Drained /\ peer[p].life = "creating"
    /\ Becomes(p, [peer[p] EXCEPT !.life = "local"])
    /\ UNCHANGED toServer

OfferSet(p) ==
    /\ Drained /\ peer[p].life = "local"
    /\ Becomes(p, [peer[p] EXCEPT !.life = "offered"])
    /\ Send(Ask("offer", p))

Abandon(P) == [P EXCEPT !.step = "idle", !.adding = <<>>]
NextCandidate(P, rest) ==
    [P EXCEPT !.adding = rest, !.step = IF rest = <<>> THEN "idle" ELSE "early"]

(* The queued handler up to its first await. *)
Microtask(p) ==
    LET m == Head(peer[p].queue)
        P == [peer[p] EXCEPT !.queue = Tail(@)] IN
    /\ Ready(p)
    /\ \/ ~Current(p) /\ Becomes(p, P)
       \/ /\ Current(p) /\ m.type = "answer"
          /\ Becomes(p, [P EXCEPT !.step = IF P.life = "offered" THEN "answer" ELSE @])
       \/ /\ Current(p) /\ m.type = "ice" /\ RemoteSet(p)
          /\ Becomes(p, [P EXCEPT !.step = "late", !.adding = <<m.n>>])
       \/ /\ Current(p) /\ m.type = "ice" /\ ~RemoteSet(p)
          /\ Becomes(p, [P EXCEPT !.ice = Append(@, m.n)])
    /\ UNCHANGED toServer

AnsweredForgetful(P) == [P EXCEPT !.life = "answered", !.step = "idle"] \* the bug: P.ice is kept
Answered(P) == [NextCandidate(P, P.ice) EXCEPT !.life = "answered", !.ice = <<>>]
AnswerSet(p) ==
    /\ Drained /\ peer[p].step = "answer"
    /\ Becomes(p, IF Current(p) THEN Answered(peer[p]) ELSE Abandon(peer[p]))
    /\ UNCHANGED toServer

CandidateAdded(p) ==
    LET P == [peer[p] EXCEPT !.added = Append(@, Head(peer[p].adding))] IN
    /\ Drained /\ peer[p].step \in {"early", "late"}
    /\ Becomes(p, IF Current(p) THEN NextCandidate(P, Tail(P.adding)) ELSE Abandon(P))
    /\ UNCHANGED toServer

(* A promise about the viewer rejects; the rest of its queue with it. *)
NegotiationFails(p) ==
    LET P == [Abandon(peer[p]) EXCEPT !.queue = <<>>] IN
    /\ Drained /\ (peer[p].life \in {"creating", "local"} \/ peer[p].step # "idle")
    /\ IF Current(p) THEN FailPeer(p, P) /\ UNCHANGED fixed
       ELSE Becomes(p, P) /\ UNCHANGED toServer

PeerConnects(p) ==
    /\ Drained /\ peer[p].life = "answered"
    /\ Becomes(p, [peer[p] EXCEPT !.life = "connected", !.timer = FALSE])
    /\ UNCHANGED toServer

(* The connection fails, or its timer fires. *)
FailsByState(p) == RemoteSet(p) \* the bug: no timer
Fails(p) == peer[p].timer \/ RemoteSet(p)
PeerFails(p) == Drained /\ Current(p) /\ Fails(p) /\ FailPeer(p, peer[p]) /\ UNCHANGED fixed

LocalCandidate(p) ==
    /\ Drained /\ (peer[p].life = "offered" \/ RemoteSet(p)) /\ ~peer[p].iced
    /\ Becomes(p, [peer[p] EXCEPT !.iced = TRUE])
    /\ Send(Ask("ice", p))

-----------------------------------------------------------------------------
(* The far end. *)

ours == <<active, ui, run, audio, peer>>
Notify(m) == toSharer' = Append(toSharer, m)
Serving == far.open /\ Len(toSharer) < Buffer
Joined(p) == far' = [far EXCEPT !.members = @ \cup {p}]
Left(p) == far' = [far EXCEPT !.members = @ \ {p}]

ViewerJoins(p) ==
    /\ Serving /\ peer[p].life = "none" /\ p \notin far.members \cup broke
    /\ Cardinality(far.members) < MaxViewers
    /\ \A i \in 1 .. Len(toSharer) : toSharer[i].peer # p
    /\ Joined(p)
    /\ Notify(Told("viewer-joined", p, Cardinality(far.members) + 1))
    /\ UNCHANGED <<ours, toServer, broke>>

ViewerLeaves(p) ==
    /\ Serving /\ p \in far.members
    /\ Left(p)
    /\ broke' = broke \cup {p}
    /\ Notify(Told("viewer-left", p, Cardinality(far.members) - 1))
    /\ UNCHANGED <<ours, toServer>>

ViewerAnswers(p) ==
    /\ Serving /\ p \in (far.members \cap far.offered) \ far.answered
    /\ far' = [far EXCEPT !.answered = @ \cup {p}]
    /\ Notify(Told("answer", p, 0))
    /\ UNCHANGED <<ours, toServer, broke>>

ViewerTrickles(p) ==
    /\ Serving /\ p \in far.members \cap far.offered /\ far.trickled[p] < Candidates
    /\ far' = [far EXCEPT !.trickled[p] = @ + 1]
    /\ Notify(Told("ice", p, far.trickled[p] + 1))
    /\ UNCHANGED <<ours, toServer, broke>>

(* The server handles the page's next request; see NativeSession. *)
ServerReceives ==
    LET m == Head(toServer)
        p == m.peer IN
    /\ toServer # <<>> /\ ~far.silent
    /\ toServer' = Tail(toServer)
    /\ \/ /\ m.type = "start"
          /\ far' = [far EXCEPT !.open = TRUE]
          /\ Notify(Told("started", None, 0))
          /\ UNCHANGED broke
       \/ m.type # "start" /\ p \notin far.members /\ UNCHANGED <<far, toSharer, broke>>
       \/ /\ m.type = "disconnect-peer" /\ p \in far.members
          /\ Left(p)
          /\ Notify(Told("viewer-left", p, Cardinality(far.members) - 1))
          /\ UNCHANGED broke
       \/ /\ m.type \in {"offer", "ice"} /\ p \in far.members
          /\ far' = IF m.type = "offer" THEN [far EXCEPT !.offered = @ \cup {p}] ELSE far
          /\ UNCHANGED <<toSharer, broke>>
       \/ /\ m.type \in {"offer", "ice"} /\ p \in far.members
          /\ Notify(Told("error", p, 0))
          /\ broke' = broke \cup {p}
          /\ UNCHANGED far
    /\ UNCHANGED ours

ServerBeats ==
    /\ Serving /\ \A i \in 1 .. Len(toSharer) : toSharer[i].type # "heartbeat"
    /\ Notify(Told("heartbeat", None, 0))
    /\ UNCHANGED <<ours, far, toServer, broke>>

LinkDies ==
    /\ active # None /\ run[active].socket \in {"opening", "open"} /\ ~far.silent
    /\ far' = [far EXCEPT !.silent = TRUE]
    /\ UNCHANGED <<ours, toSharer, toServer, broke>>

-----------------------------------------------------------------------------
AudioChain == AudioOpBegins \/ AudioStarts \/ AudioRefused \/ AudioStops

Next ==
    \/ StopClicked \/ PageHides \/ AudioChain \/ AudioFails
    \/ \E r \in Run : \/ StartClicked(r) \/ PickerReturns(r) \/ StartFails(r)
                      \/ WorkletReady(r) \/ ConstraintsApplied(r) \/ TrackEnds(r)
                      \/ ContextSuspends(r) \/ Opens(r) \/ SocketCloses(r)
                      \/ TimerFires(r) \/ WatchdogFires(r) \/ StartedRefused(r)
    \/ ReceiveStarted \/ ReceiveHeartbeat \/ ReceivePeerError \/ ReceiveLeft
    \/ ReceiveJoined \/ ReceiveNegotiation
    \/ \E p \in PeerId : \/ OfferCreated(p) \/ OfferSet(p) \/ Microtask(p) \/ AnswerSet(p)
                         \/ CandidateAdded(p) \/ NegotiationFails(p) \/ PeerConnects(p)
                         \/ PeerFails(p) \/ LocalCandidate(p)
                         \/ ViewerJoins(p) \/ ViewerLeaves(p)
                         \/ ViewerAnswers(p) \/ ViewerTrickles(p)
    \/ ServerReceives \/ ServerBeats \/ LinkDies

(* Timers fire, what has arrived is handled, and the App's audio calls       *)
(* return.  The picker, the browser's promises and the user may never.       *)
Fairness ==
    /\ \A p \in PeerId : WF_vars(Microtask(p)) /\ WF_vars(peer[p].timer /\ PeerFails(p))
    /\ \A r \in Run : WF_vars(TimerFires(r)) /\ WF_vars(far.silent /\ WatchdogFires(r))
    /\ WF_vars(AudioChain)

Spec == Init /\ [][Next]_vars
FairSpec == Spec /\ Fairness

-----------------------------------------------------------------------------
(* Properties. *)

(* Nothing of a share outlives it: whenever the picker, the audio chain or   *)
(* a viewer's negotiation comes back, no screen is captured, no audio        *)
(* context, socket or timer is left on for a run that is not the active one. *)
NothingOutlivesRun ==
    /\ \A r \in Run : r # active =>
          /\ run[r].stream \in {"none", "stopped"} /\ run[r].context \in {"none", "closed"}
          /\ run[r].socket \in {"none", "closed"} /\ ~run[r].timer /\ ~run[r].watchdog
    /\ active = None => \A p \in PeerId : ~Current(p) /\ ~peer[p].timer

(* What is offered to viewers is a capture that is alive, with the audio of  *)
(* the app that was selected: an end in any window of the start handler is   *)
(* noticed before the share is announced.                                    *)
SharedIsLive ==
    active # None /\ run[active].socket # "none" =>
        /\ run[active].stream = "live"
        /\ run[active].context \in {"none", "running"}
        /\ run[active].context = "running" => capturing = active

(* App audio that a run started is stopped by that run's own place in the    *)
(* chain, before the next one may start: StartAudio never finds a capture    *)
(* the page has forgotten.                                                   *)
AudioChainClean ==
    /\ capturing \notin {None, active} =>
          \E i \in 1 .. Len(ops) : ops[i].op = "stop" /\ ops[i].run = capturing
    /\ AudioCalled("start") => capturing = None

(* The candidates of p after the first low ones, up to the one numbered top, *)
(* are those among msgs, in order.                                           *)
InTurn(msgs, p, low, top) ==
    LET ices == {i \in 1 .. Len(msgs) : msgs[i].type = "ice" /\ msgs[i].peer = p} IN
    /\ low <= top /\ {msgs[i].n : i \in ices} = (low + 1) .. top
    /\ \A i, j \in ices : i < j => msgs[i].n < msgs[j].n

(* A viewer's candidates reach its peer connection in order, none lost or    *)
(* added twice, whether they come before its answer, while a handler awaits  *)
(* something, or after it.                                                   *)
CandidatesInOrder ==
    \A p \in Peers :
        LET P == peer[p]
            taken == P.added \o P.adding \o P.ice IN
        /\ taken = [i \in 1 .. Len(taken) |-> i]
        /\ InTurn(P.queue \o toSharer, p, Len(taken), far.trickled[p])
        /\ P.step = "idle" /\ RemoteSet(p) => P.ice = <<>>

(* With nothing in flight, the peers map and the shown viewer count are the  *)
(* server's.                                                                 *)
PeersAgree ==
    ui.screen = "SHARING" /\ toSharer = <<>>
        /\ (\A i \in 1 .. Len(toServer) : toServer[i].type # "disconnect-peer")
    => Peers = far.members /\ ui.count = Cardinality(far.members)

(* A share that connects is announced or stopped, and one whose signaling    *)
(* died stops; a viewer that joined is connected or dropped, however its     *)
(* negotiation hangs; and after a share its app audio ends too and Start can *)
(* be pressed again.                                                         *)
ShareResolves ==
    /\ (ui.screen = "CONNECTING" \/ far.silent)
          ~> (ui.screen \in {"STOPPED", "SHARING"} /\ ~far.silent)
    /\ \A p \in PeerId : Current(p) ~> peer[p].life \in {"connected", "gone"}
    /\ (active = None) ~> (active # None \/ (ui.startable /\ capturing = None))
=============================================================================
