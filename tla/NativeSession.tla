---------------------------- MODULE NativeSession ----------------------------
(***************************************************************************)
(* The native Linux sharer, internal/sharer/session_linux.go, from the     *)
(* return of Start on: the run goroutine that reads signaling, the pump of *)
(* captured media, Stop, and per viewer the timer and WebRTC callbacks     *)
(* that call fail, setBitrate and send from goroutines of their own.       *)
(* The far end is one session of the signaling server (module Signaling)   *)
(* with the viewers in it, reached by two ordered streams over one link.   *)
(***************************************************************************)
EXTENDS Integers, Sequences, FiniteSets

CONSTANTS
    PeerId,   \* viewer tokens, each used once
    MaxPeers, \* four, for the server and for the sharer
    IceCap,   \* candidates held per peer before its answer: 256
    MinRate,  \* 200000
    MaxRate,  \* 4000000
    Buffer,   \* bound: messages in flight each way
    None

ASSUME SessionAssumption ==
    /\ MaxPeers \in Nat \ {0} /\ IceCap \in Nat /\ Buffer \in Nat \ {0}
    /\ MinRate \in Nat \ {0} /\ MaxRate \in Nat /\ MinRate <= MaxRate
    /\ None \notin PeerId

VARIABLES
    \* the server's session and its viewers
    open,     \* the session exists
    members,  \* its viewers
    departed, \* those that left by themselves
    offered,  \* viewers that were relayed the offer and have not answered
    toSharer, toServer,
    linkUp,
    \* the Session
    run,      \* where the run goroutine is
    peer,     \* the life of each peer, see below
    held,     \* len(peer.ice)
    failure,  \* run's failure
    cancelled,\* the run context
    pump,     \* the pump goroutine
    media,    \* stopMedia: "live", "stopping" (mediaCancel called), "closed"
    stop,     \* where the one call of Stop is
    state,    \* Session.state: State, Viewers, Error, Notice
    bitrates, \* Session.bitrates, 0 where the map has no key
    encoder,  \* the encoder's target bitrate
    \* the peers' callbacks
    connected,\* peers that reached Connected, whose timer is stopped
    failing,  \* fail() is past its context check and has not reported yet
    iced,     \* each peer's local candidate; bound: one per peer
    broke     \* history: peers that failed by a cause of their own

server == <<open, members, departed, offered>>
callbacks == <<connected, failing, iced>>
vars == <<server, toSharer, toServer, linkUp, run, peer, held, failure, cancelled,
          pump, media, stop, state, bitrates, encoder, callbacks, broke>>

(* "offered" and "answered" are the keys of run's peers map; a peer that is  *)
(* "dropped" is closed here and the server's viewer-left has not been read.  *)
Live(p) == peer[p] \in {"offered", "answered"}
Peers == {p \in PeerId : Live(p)}

ToSharer == [type : {"viewer-joined", "viewer-left", "answer", "ice", "error", "stopped"},
             peer : PeerId \cup {None}, viewers : Nat]
ToServer == [type : {"offer", "ice", "disconnect-peer", "stop"}, peer : PeerId \cup {None}]
Told(t, p, n) == [type |-> t, peer |-> p, viewers |-> n]
Ask(t, p) == [type |-> t, peer |-> p]

TypeOK ==
    /\ open \in BOOLEAN /\ linkUp \in BOOLEAN /\ cancelled \in BOOLEAN
    /\ members \subseteq PeerId /\ departed \subseteq PeerId /\ offered \subseteq PeerId
    /\ toSharer \in Seq(ToSharer) /\ toServer \in Seq(ToServer)
    /\ run \in {"reading", "media", "final", "done"}
    /\ peer \in [PeerId -> {"new", "offered", "answered", "dropped", "left"}]
    /\ held \in [PeerId -> 0 .. IceCap]
    /\ failure \in {"", "lost", "rejected"}
    /\ pump \in {"running", "failed", "reported", "done"}
    /\ media \in {"live", "stopping", "closed"}
    /\ stop \in {"none", "media", "wait", "done"}
    /\ state \in [state : {"sharing", "stopped"}, viewers : Nat,
                  error : {"", "media", "lost", "rejected"}, notice : BOOLEAN]
    /\ bitrates \in [PeerId -> 0 .. MaxRate]
    /\ encoder \in MinRate .. MaxRate
    /\ connected \subseteq PeerId /\ failing \subseteq PeerId /\ broke \subseteq PeerId
    /\ iced \in [PeerId -> {"no", "sending", "sent"}]

Init ==
    /\ open = TRUE /\ linkUp = TRUE /\ cancelled = FALSE
    /\ members = {} /\ departed = {} /\ offered = {}
    /\ toSharer = <<>> /\ toServer = <<>>
    /\ run = "reading" /\ failure = ""
    /\ peer = [p \in PeerId |-> "new"]
    /\ held = [p \in PeerId |-> 0]
    /\ pump = "running" /\ media = "live" /\ stop = "none"
    /\ state = [state |-> "sharing", viewers |-> 0, error |-> "", notice |-> FALSE]
    /\ bitrates = [p \in PeerId |-> 0]
    /\ encoder = MaxRate
    /\ connected = {} /\ failing = {} /\ broke = {}
    /\ iced = [p \in PeerId |-> "no"]

-----------------------------------------------------------------------------
(* The server's side. *)

sharerSide == <<run, peer, held, failure, cancelled, pump, media, stop, state,
                bitrates, encoder, callbacks>>

Notify(m) == toSharer' = Append(toSharer, m)

(* What viewers do on their own leaves room for an answer of the server. *)
Serving == open /\ linkUp /\ Len(toSharer) < Buffer - 1

ViewerJoins(p) ==
    /\ Serving /\ peer[p] = "new" /\ p \notin members \cup departed
    /\ Cardinality(members) < MaxPeers
    /\ \A i \in 1 .. Len(toSharer) : toSharer[i].peer # p
    /\ members' = members \cup {p}
    /\ Notify(Told("viewer-joined", p, Cardinality(members) + 1))
    /\ UNCHANGED <<open, departed, offered, toServer, linkUp, broke, sharerSide>>

ViewerLeaves(p) ==
    /\ Serving /\ p \in members
    /\ members' = members \ {p}
    /\ departed' = departed \cup {p}
    /\ Notify(Told("viewer-left", p, Cardinality(members) - 1))
    /\ UNCHANGED <<open, offered, toServer, linkUp, broke, sharerSide>>

ViewerAnswers(p) ==
    /\ Serving /\ p \in members \cap offered
    /\ offered' = offered \ {p}
    /\ Notify(Told("answer", p, 0))
    /\ UNCHANGED <<open, members, departed, toServer, linkUp, broke, sharerSide>>

ViewerSendsIce(p) ==
    /\ Serving /\ p \in members
    /\ Notify(Told("ice", p, 0))
    /\ UNCHANGED <<server, toServer, linkUp, broke, sharerSide>>

(* The server handles the sharer's next request (Signaling: Relay,           *)
(* DisconnectPeer, Stop).  A relayed offer or candidate may be refused with  *)
(* an error that names the peer.                                             *)
ServerReceives ==
    /\ linkUp /\ toServer # <<>> /\ Len(toSharer) < Buffer
    /\ toServer' = Tail(toServer)
    /\ LET m == Head(toServer)
           p == m.peer IN
       \/ /\ ~open
          /\ Notify(Told("error", None, 0))
          /\ UNCHANGED <<server, broke>>
       \/ /\ open /\ m.type = "stop"
          /\ open' = FALSE /\ members' = {}
          /\ Notify(Told("stopped", None, 0))
          /\ UNCHANGED <<departed, offered, broke>>
       \/ /\ open /\ m.type # "stop" /\ p \notin members
          /\ UNCHANGED <<server, toSharer, broke>>
       \/ /\ open /\ m.type = "disconnect-peer" /\ p \in members
          /\ members' = members \ {p}
          /\ Notify(Told("viewer-left", p, Cardinality(members) - 1))
          /\ UNCHANGED <<open, departed, offered, broke>>
       \/ /\ open /\ m.type \in {"offer", "ice"} /\ p \in members
          /\ offered' = IF m.type = "offer" THEN offered \cup {p} ELSE offered
          /\ UNCHANGED <<open, members, departed, toSharer, broke>>
       \/ /\ open /\ m.type \in {"offer", "ice"} /\ p \in members
          /\ Notify(Told("error", p, 0))
          /\ broke' = broke \cup {p}
          /\ UNCHANGED server
    /\ UNCHANGED <<linkUp, sharerSide>>

LinkBreaks ==
    /\ linkUp /\ linkUp' = FALSE
    /\ UNCHANGED <<server, toSharer, toServer, broke, sharerSide>>

-----------------------------------------------------------------------------
(* send: the message goes out, or the write fails or times out and the run   *)
(* context is cancelled.                                                     *)
Sent(m) ==
    /\ linkUp /\ ~cancelled /\ run # "done" /\ Len(toServer) < Buffer
    /\ toServer' = Append(toServer, m)
    /\ UNCHANGED cancelled
NotSent == cancelled' = TRUE /\ UNCHANGED toServer
Send(m) == Sent(m) \/ NotSent

(* setBitrate: 0 forgets the peer, a report counts only for a peer with an   *)
(* entry, and the encoder follows the slowest entry until capture is closed. *)
Slowest(rates) == CHOOSE r \in rates : \A q \in rates : r <= q
Clamp(r) == IF r < MinRate THEN MinRate ELSE r
Target(b) == Clamp(Slowest({MaxRate} \cup {b[p] : p \in {q \in PeerId : b[q] > 0}}))
SetBitrateAlways(p, r) == \* the bug: a report makes an entry
    /\ bitrates' = [bitrates EXCEPT ![p] = r]
    /\ encoder' = IF media = "closed" THEN encoder ELSE Target(bitrates')
SetBitrate(p, r) ==
    IF r > 0 /\ bitrates[p] = 0 THEN UNCHANGED <<bitrates, encoder>>
    ELSE /\ bitrates' = [bitrates EXCEPT ![p] = r]
         /\ encoder' = IF media = "closed" THEN encoder ELSE Target(bitrates')

(* peer.close and, where the code deletes it, off the map *)
Closing(ps, where) ==
    peer' = [p \in PeerId |-> IF p \in ps THEN where ELSE peer[p]]

-----------------------------------------------------------------------------
(* run: one action per message. *)

quiet == <<server, linkUp, run, failure, pump, media, stop, callbacks>>

Receive(type) ==
    /\ run = "reading" /\ ~cancelled /\ toSharer # <<>>
    /\ Head(toSharer).type = type
    /\ toSharer' = Tail(toSharer)

DisconnectNever(p) == UNCHANGED <<toServer, cancelled>> \* the bug: the server is not asked
Disconnect(p) == Send(Ask("disconnect-peer", p))

(* A failed peer is closed here and the server asked to drop it. *)
Drop(p) ==
    /\ Closing({p}, "dropped")
    /\ broke' = broke \cup {p}
    /\ Disconnect(p)

RoomTooSmall == Cardinality(Peers) < MaxPeers - 1 \* the bug: off by one
Room == Cardinality(Peers) < MaxPeers

(* The peer is made, its offer sent and its bitrate entered; or a step of    *)
(* that fails and the viewer is given up.                                    *)
AddPeer(p, n) ==
    \/ /\ Sent(Ask("offer", p))
       /\ Closing({p}, "offered")
       /\ bitrates' = [bitrates EXCEPT ![p] = MaxRate]
       /\ state' = [state EXCEPT !.viewers = n]
       /\ UNCHANGED broke
    \/ Drop(p) /\ UNCHANGED <<state, bitrates>>

(* A viewer beyond the sharer's own limit is refused. *)
ReadJoined ==
    /\ Receive("viewer-joined")
    /\ LET m == Head(toSharer)
           p == m.peer IN
       \/ /\ Live(p)
          /\ UNCHANGED <<toServer, cancelled, peer, state, bitrates, broke>>
       \/ /\ ~Live(p) /\ ~Room
          /\ Closing({p}, "dropped")
          /\ Disconnect(p)
          /\ UNCHANGED <<state, bitrates, broke>>
       \/ ~Live(p) /\ Room /\ AddPeer(p, m.viewers)
    /\ UNCHANGED <<quiet, held, encoder>>

ShownKept(n) == state.viewers \* the bug: the shown count is not updated
Shown(n) == n
ReadLeft ==
    /\ Receive("viewer-left")
    /\ LET m == Head(toSharer) IN
       /\ Closing({m.peer}, "left")
       /\ SetBitrate(m.peer, 0)
       /\ state' = [state EXCEPT !.viewers = Shown(m.viewers)]
    /\ UNCHANGED <<quiet, toServer, cancelled, held, broke>>

ReadAnswer ==
    /\ Receive("answer")
    /\ LET p == Head(toSharer).peer IN
       \/ /\ peer[p] # "offered"
          /\ UNCHANGED <<toServer, cancelled, peer, held, broke>>
       \/ /\ peer[p] = "offered"
          /\ Closing({p}, "answered")
          /\ held' = [held EXCEPT ![p] = 0]
          /\ UNCHANGED <<toServer, cancelled, broke>>
       \/ peer[p] = "offered" /\ Drop(p) /\ UNCHANGED held
    /\ UNCHANGED <<quiet, state, bitrates, encoder>>

IceRoom(p) == held[p] < IceCap
ReadIce ==
    /\ Receive("ice")
    /\ LET p == Head(toSharer).peer IN
       \/ /\ ~Live(p) \/ peer[p] = "answered"
          /\ UNCHANGED <<toServer, cancelled, peer, held, broke>>
       \/ /\ peer[p] = "offered" /\ IceRoom(p)
          /\ held' = [held EXCEPT ![p] = @ + 1]
          /\ UNCHANGED <<toServer, cancelled, peer, broke>>
       \/ /\ peer[p] = "answered" \/ (peer[p] = "offered" /\ ~IceRoom(p))
          /\ Drop(p)
          /\ UNCHANGED held
    /\ UNCHANGED <<quiet, state, bitrates, encoder>>

ReadError ==
    /\ Receive("error") /\ Head(toSharer).peer # None
    /\ LET p == Head(toSharer).peer IN
       IF Live(p) THEN Drop(p) ELSE UNCHANGED <<toServer, cancelled, peer, broke>>
    /\ UNCHANGED <<quiet, held, state, bitrates, encoder>>

(* The deferred end of run: cancel, close the peers, begin stopMedia. *)
Finish(why) ==
    /\ failure' = why
    /\ run' = "media"
    /\ cancelled' = TRUE
    /\ Closing(Peers, "dropped")
    /\ media' = IF media = "live" THEN "stopping" ELSE media
    /\ UNCHANGED <<server, toServer, linkUp, held, pump, stop, state, bitrates, encoder,
                   callbacks, broke>>

ReadEndIgnoresStopped == \* the bug: run reads on after "stopped"
    \/ /\ Receive("stopped")
       /\ UNCHANGED <<quiet, toServer, cancelled, peer, held, state, bitrates, encoder, broke>>
    \/ Receive("error") /\ Head(toSharer).peer = None /\ Finish("rejected")

(* "stopped", or an error that names no peer: the server refused a request. *)
ReadEnd ==
    /\ Receive("stopped") \/ (Receive("error") /\ Head(toSharer).peer = None)
    /\ Finish(IF Head(toSharer).type = "stopped" THEN "" ELSE "rejected")

ReadFails ==
    /\ run = "reading" /\ (cancelled \/ ~linkUp)
    /\ Finish("lost")
    /\ UNCHANGED toSharer

(* stopMedia is over, whoever ran it; the connection is closed. *)
RunCloses ==
    /\ run = "media" /\ media = "closed"
    /\ run' = "final" /\ linkUp' = FALSE
    /\ UNCHANGED <<server, toSharer, toServer, peer, held, failure, cancelled, pump,
                   media, stop, state, bitrates, encoder, callbacks, broke>>

ReasonOwn == failure \* the bug: run's own error wins
Reason == IF state.error # "" THEN state.error ELSE failure
(* The final state; an error the pump recorded wins over run's own. *)
RunEnds ==
    /\ run = "final"
    /\ run' = "done"
    /\ state' = [state |-> "stopped", viewers |-> 0, notice |-> FALSE, error |-> Reason]
    /\ UNCHANGED <<server, toSharer, toServer, linkUp, peer, held, failure, cancelled,
                   pump, media, stop, bitrates, encoder, callbacks, broke>>

-----------------------------------------------------------------------------
(* The pump and stopMedia. *)

others == <<server, toSharer, toServer, linkUp, run, peer, held, failure, stop,
            bitrates, encoder, callbacks, broke>>

MediaCancelled == cancelled \/ media # "live"

(* Capture or encoding fails, and the media context is still live. *)
PumpFails ==
    /\ pump = "running" /\ ~MediaCancelled
    /\ pump' = "failed"
    /\ UNCHANGED <<others, cancelled, media, state>>

PumpReports ==
    /\ pump = "failed"
    /\ pump' = "reported"
    /\ state' = [state EXCEPT !.error = "media"]
    /\ UNCHANGED <<others, cancelled, media>>

Cancels == pump = "reported"
PumpEnds ==
    /\ pump = "reported" \/ (pump = "running" /\ MediaCancelled)
    /\ pump' = "done"
    /\ cancelled' = (cancelled \/ Cancels)
    /\ UNCHANGED <<others, media, state>>

MediaCloses ==
    /\ media = "stopping" /\ pump = "done"
    /\ media' = "closed"
    /\ UNCHANGED <<others, cancelled, pump, state>>

-----------------------------------------------------------------------------
(* Stop, by the user or by the end of the caller's context. *)

stopRest == <<server, toSharer, linkUp, run, peer, held, failure, pump, state,
              bitrates, encoder, callbacks, broke>>

StopBegins ==
    /\ stop = "none"
    /\ stop' = "media"
    /\ media' = IF media = "live" THEN "stopping" ELSE media
    /\ UNCHANGED <<stopRest, toServer, cancelled>>

MediaStopping == media # "live" \* the bug: the server is told before capture has ended
MediaStopped == media = "closed"

(* The write of "stop" may fail; its error is ignored. *)
StopWrites ==
    /\ stop = "media" /\ MediaStopped
    /\ stop' = "wait"
    /\ \/ linkUp /\ Len(toServer) < Buffer /\ toServer' = Append(toServer, Ask("stop", None))
       \/ UNCHANGED toServer
    /\ UNCHANGED <<stopRest, media, cancelled>>

StopWaitsForever == FALSE \* the bug: no timeout
StopTimesOut ==
    /\ stop = "wait" /\ run # "done"
    /\ cancelled' = TRUE
    /\ UNCHANGED <<stopRest, stop, media, toServer>>

StopReturns ==
    /\ stop = "wait" /\ run = "done"
    /\ stop' = "done"
    /\ UNCHANGED <<stopRest, media, cancelled, toServer>>

-----------------------------------------------------------------------------
(* Callbacks of a peer's connection. *)

callbackRest == <<server, toSharer, linkUp, run, peer, held, failure, pump, media, stop>>

Connects(p) ==
    /\ peer[p] = "answered" /\ p \notin connected
    /\ connected' = connected \cup {p}
    /\ UNCHANGED <<callbackRest, toServer, cancelled, state, bitrates, encoder, failing,
                   iced, broke>>

(* A cause to call fail: the timer of a peer that is not connected, the link *)
(* of one that is, or ReadRTCP's error once the connection is closed.        *)
OwnCause(p) == Live(p)
ClosedCause(p) == peer[p] \in {"dropped", "left"}
PeerContextLive(p) == Live(p) /\ ~cancelled

(* fail up to its context check. *)
FailBegins(p) ==
    /\ OwnCause(p) \/ ClosedCause(p)
    /\ PeerContextLive(p)
    /\ failing' = failing \cup {p}
    /\ broke' = IF OwnCause(p) THEN broke \cup {p} ELSE broke
    /\ UNCHANGED <<callbackRest, toServer, cancelled, state, bitrates, encoder,
                   connected, iced>>

(* The rest of fail, whenever its goroutine runs again. *)
FailReports(p) ==
    /\ p \in failing
    /\ failing' = failing \ {p}
    /\ state' = [state EXCEPT !.notice = TRUE]
    /\ Disconnect(p)
    /\ UNCHANGED <<callbackRest, bitrates, encoder, connected, iced, broke>>

(* A bandwidth estimate, possibly read before the connection was closed. *)
Estimate(p, r) ==
    /\ p \in connected
    /\ SetBitrate(p, r)
    /\ UNCHANGED <<callbackRest, toServer, cancelled, state, callbacks, broke>>

(* A local candidate: OnICECandidate waits for the offer to be out, and if   *)
(* the peer's context ends in that moment select may still let it go on.     *)
CandidateBegins(p) ==
    /\ PeerContextLive(p) /\ iced[p] = "no"
    /\ iced' = [iced EXCEPT ![p] = "sending"]
    /\ UNCHANGED <<callbackRest, toServer, cancelled, state, bitrates, encoder, connected,
                   failing, broke>>
CandidateSends(p) ==
    /\ iced[p] = "sending"
    /\ iced' = [iced EXCEPT ![p] = "sent"]
    /\ Send(Ask("ice", p))
    /\ UNCHANGED <<callbackRest, state, bitrates, encoder, connected, failing, broke>>

-----------------------------------------------------------------------------
Server == \/ ServerReceives
          \/ \E p \in PeerId : ViewerJoins(p) \/ ViewerLeaves(p)
                                  \/ ViewerAnswers(p) \/ ViewerSendsIce(p)
Run == \/ ReadJoined \/ ReadLeft \/ ReadAnswer \/ ReadIce \/ ReadError \/ ReadEnd
       \/ ReadFails \/ RunCloses \/ RunEnds
Media == PumpReports \/ PumpEnds \/ MediaCloses
Stopping == StopWrites \/ StopTimesOut \/ StopReturns
Callback(p) == \/ Connects(p) \/ FailBegins(p) \/ FailReports(p)
               \/ CandidateBegins(p) \/ CandidateSends(p)
               \/ \E r \in 1 .. MaxRate : Estimate(p, r)
Ended == run = "done" /\ stop \in {"none", "done"} /\ UNCHANGED vars

Next == \/ Server \/ LinkBreaks \/ Run \/ PumpFails \/ Media \/ StopBegins \/ Stopping
        \/ \E p \in PeerId : Callback(p)
        \/ Ended

(* Goroutines that can run do; the server answers; a peer that never         *)
(* connects times out.  Nobody has to stop, join, leave or fail.             *)
Fairness ==
    /\ WF_vars(ServerReceives)
    /\ WF_vars(Run)
    /\ WF_vars(Media)
    /\ WF_vars(StopWrites) /\ WF_vars(StopReturns) /\ WF_vars(StopTimesOut)
    /\ \A p \in PeerId : WF_vars(FailReports(p))
    /\ \A p \in PeerId : WF_vars(p \notin connected /\ FailBegins(p))

Spec == Init /\ [][Next]_vars
FairSpec == Spec /\ Fairness

-----------------------------------------------------------------------------
(* Properties. *)

(* An end that anyone is told of is real.  Whoever reads the state "stopped" *)
(* may rely on it that capture is closed, the pump has returned and no peer  *)
(* connection is open; and while a "stop" is on its way to the viewers the   *)
(* screen is captured no more.                                               *)
StoppedMeansStopped ==
    /\ state.state = "stopped" => media = "closed" /\ pump = "done" /\ Peers = {}
    /\ \A i \in 1 .. Len(toServer) : toServer[i].type = "stop" => media = "closed"

(* The capture failure that the pump recorded is what the user is shown in   *)
(* the end, whatever ends the session: Stop, the server or the lost link     *)
(* that cancelling the run looks like.                                       *)
ErrorSticks == [][state.error # "" => state'.error = state.error]_vars

(* The server never refuses a request of the native sharer: all of them      *)
(* reach it while the share exists, or "stopped" is read before the refusal. *)
NeverRejected == failure # "rejected"

(* Only its own failure or departure ends a viewer's connection while the    *)
(* share goes on; one viewer's failure, the sharer's own limit and late      *)
(* callbacks of departed peers never cost another viewer its connection, and *)
(* closing a peer, which ends its ReadRTCP goroutines, shows no notice.      *)
HealthyPeersStay ==
    /\ run = "reading" =>
          \A p \in PeerId : peer[p] \in {"dropped", "left"} => p \in broke \cup departed
    /\ state.notice => broke # {}

(* With nothing in flight, the peers map and the shown viewer count are      *)
(* those of the server.                                                      *)
PeersAgree ==
    (/\ run = "reading" /\ ~cancelled /\ linkUp /\ open /\ toSharer = <<>>
     /\ \A i \in 1 .. Len(toServer) : toServer[i].type # "disconnect-peer")
    => Peers = members /\ state.viewers = Cardinality(members)

(* The encoder runs at the slowest rate any viewer reports, within limits,   *)
(* and no estimate of a viewer that left holds it down.                      *)
EncoderFollows ==
    /\ media # "closed" => encoder = Target(bitrates)
    /\ \A p \in PeerId : peer[p] = "left" => bitrates[p] = 0

(* Stop returns, however the pump, the server and the link behave; and a     *)
(* capture failure and a lost link end the session by themselves.            *)
SessionEnds ==
    /\ stop # "none" ~> stop = "done"
    /\ (pump = "failed" \/ ~linkUp) ~> state.state = "stopped"

(* A viewer whose connection failed does not keep its place. *)
BrokenPeerRemoved == \A p \in PeerId : p \in failing ~> ~Live(p)
=============================================================================
