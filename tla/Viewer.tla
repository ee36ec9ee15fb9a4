-------------------------------- MODULE Viewer --------------------------------
(***************************************************************************)
(* The viewer page, web/viewer/viewer.js.  A Run is one attempt to join;   *)
(* "active" is the current one, and every callback of an older one must do *)
(* nothing.  Around it, the server and the sharer at the far end of each   *)
(* run's socket.  JavaScript runs to completion: a step is one task of the *)
(* event loop, or one microtask of a run's promise queue, and no task      *)
(* starts while a microtask is ready.                                      *)
(***************************************************************************)
EXTENDS Integers, Sequences

CONSTANTS
    Run,        \* attempts to join, each used once
    Candidates, \* bound: candidates the sharer sends to one run
    Buffer,     \* bound: messages in flight to one run
    None

ASSUME ViewerAssumption ==
    Candidates \in Nat /\ Buffer \in Nat \ {0} /\ None \notin Run

VARIABLES
    active,   \* the current run
    lastCode, \* a code was entered: lastCode is not ""
    ui,       \* what the page shows
    plays,    \* calls of video.play() that have not settled
    run,      \* the run objects, with their sockets and peer connections
    open,     \* the far end: the session exists
    link      \* and what it and the network made of each run

page == <<active, lastCode, ui, plays>>
far == <<open, link>>
vars == <<page, run, far>>

Message == [type : {"joined", "offer", "heartbeat", "stopped", "error"}, n : {0}]
           \cup [type : {"ice"}, n : 1 .. Candidates]
Msg(t, n) == [type |-> t, n |-> n]

Page == [screen : {"DISCONNECTED", "JOINING", "CONNECTING", "LIVE"},
         status : {"ready", "opening", "connecting", "live", "blocked", "stopped", "error",
                   "timeout", "nat", "silent", "lost", "failed", "ended", "hidden"},
         reconnect : BOOLEAN, \* the reconnect and play buttons are shown
         playable : BOOLEAN,
         shown : SUBSET Run]  \* whose tracks video.srcObject has

RunObject ==
    [socket : {"unused", "opening", "open", "closed"}, \* closed by close() already
     timer : {"off", "signaling", "direct"},
     watchdog : BOOLEAN,
     pc : {"none", "new", "connected", "closed"},
     remote : BOOLEAN,             \* pc.remoteDescription is set
     ice : Seq(1 .. Candidates),
     queue : Seq(Message),         \* messages behind the promise in queue
     step : {"idle", "remote", "early", "answer", "local", "late"}, \* what it awaits
     adding : Seq(1 .. Candidates),\* candidates its handler has still to add
     added : Seq(1 .. Candidates)] \* history: those that pc has

Link == [silent : BOOLEAN, member : {"no", "yes", "out"}, offered : BOOLEAN,
         trickled : 0 .. Candidates, inbox : Seq(Message),
         sent : Seq({"join", "ice", "answer"})] \* history

TypeOK ==
    /\ active \in Run \cup {None} /\ lastCode \in BOOLEAN /\ ui \in Page
    /\ plays \subseteq Run \X {"track", "click"}
    /\ run \in [Run -> RunObject] /\ open \in BOOLEAN /\ link \in [Run -> Link]

Unused == [socket |-> "unused", timer |-> "off", watchdog |-> FALSE, pc |-> "none",
           remote |-> FALSE, ice |-> <<>>, queue |-> <<>>, step |-> "idle",
           adding |-> <<>>, added |-> <<>>]

Init ==
    /\ active = None /\ lastCode = FALSE /\ plays = {} /\ open = TRUE
    /\ ui = [screen |-> "DISCONNECTED", status |-> "ready", reconnect |-> FALSE,
             playable |-> FALSE, shown |-> {}]
    /\ run = [r \in Run |-> Unused]
    /\ link = [r \in Run |-> [silent |-> FALSE, member |-> "no", offered |-> FALSE,
                              trickled |-> 0, inbox |-> <<>>, sent |-> <<>>]]

-----------------------------------------------------------------------------
Closed(R) == [R EXCEPT !.socket = "closed", !.timer = "off", !.watchdog = FALSE,
                       !.pc = IF @ = "none" THEN @ ELSE "closed"]

Blank(why, retry) ==
    [screen |-> "DISCONNECTED", status |-> why, reconnect |-> retry /\ lastCode,
     playable |-> FALSE, shown |-> {}]

(* cleanup, on the runs as rs has them *)
CleanupFrom(rs, why, retry) ==
    /\ active' = None
    /\ run' = [r \in Run |-> IF r = active THEN Closed(rs[r]) ELSE rs[r]]
    /\ ui' = Blank(why, retry)
    /\ UNCHANGED <<lastCode, plays>>
Cleanup(why, retry) == CleanupFrom(run, why, retry)

(* An event of run r: its handler ignores it unless r is the active run. *)
CleanupAlways(r, why) == Cleanup(why, TRUE) \* the bug: stale events count
CleanupIfActive(r, why) ==
    IF active = r THEN Cleanup(why, TRUE) ELSE UNCHANGED <<page, run>>

Send(r, type) ==
    link' = IF active = r /\ run[r].socket = "open"
            THEN [link EXCEPT ![r].sent = Append(@, type)] ELSE link
HasSent(r, type) == \E i \in 1 .. Len(link[r].sent) : link[r].sent[i] = type

(* A promise of the queue is settled and the next message waits for nothing. *)
Ready(r) == run[r].queue # <<>> /\ run[r].step = "idle"
Drained == \A r \in Run : ~Ready(r)

-----------------------------------------------------------------------------
(* The user. *)

Opening == [Unused EXCEPT !.socket = "opening", !.timer = "signaling"]

(* join, by the form or the reconnect button; the form's controls are        *)
(* disabled while a run is active.  cleanup finds nothing to close.          *)
Join(r) ==
    /\ Drained /\ active = None /\ run[r].socket = "unused"
    /\ active' = r /\ lastCode' = TRUE
    /\ run' = [run EXCEPT ![r] = Opening]
    /\ ui' = [Blank("opening", FALSE) EXCEPT !.screen = "JOINING"]
    /\ UNCHANGED <<plays, far>>

Submit(r) == Join(r)
Reconnect(r) == ui.reconnect /\ Join(r)

PageHides == Drained /\ Cleanup("hidden", FALSE) /\ UNCHANGED far

PlayClicked ==
    /\ Drained /\ ui.playable
    /\ plays' = plays \cup {<<active, "click">>}
    /\ UNCHANGED <<active, lastCode, ui, run, far>>

(* play() settles: the click's hides the button or gives a hint, a new       *)
(* track's shows the button if the browser refuses to play by itself.        *)
PlaySettles(r, cause) ==
    /\ Drained /\ <<r, cause>> \in plays
    /\ plays' = plays \ {<<r, cause>>}
    /\ \E refused \in BOOLEAN :
          ui' = IF active # r THEN ui
                ELSE IF cause = "track"
                THEN [ui EXCEPT !.playable = @ \/ refused]
                ELSE IF refused THEN [ui EXCEPT !.status = "blocked"]
                ELSE [ui EXCEPT !.playable = FALSE]
    /\ UNCHANGED <<active, lastCode, run, far>>

(* The "playing" event of the video. *)
VideoPlays ==
    /\ Drained /\ ui.shown # {} /\ active # None
    /\ ui' = [ui EXCEPT !.playable = FALSE]
    /\ UNCHANGED <<active, lastCode, plays, run, far>>

-----------------------------------------------------------------------------
(* The socket and its timers. *)

Opens(r) ==
    /\ Drained /\ run[r].socket = "opening"
    /\ run' = [run EXCEPT ![r].socket = "open", ![r].watchdog = TRUE]
    /\ link' = [link EXCEPT ![r].sent = Append(@, "join")]
    /\ UNCHANGED <<page, open>>

(* receive, up to its first await; rs: the runs with m off the queue. *)
Receive(rs, r, m) ==
    \/ active # r /\ run' = rs /\ UNCHANGED page
    \/ active = r /\ m.type = "stopped" /\ CleanupFrom(rs, "stopped", FALSE)
    \/ active = r /\ m.type = "error" /\ CleanupFrom(rs, "error", TRUE)
    \/ active = r /\ m.type = "joined" /\ rs[r].pc # "none" /\ CleanupFrom(rs, "failed", TRUE)
    \/ /\ active = r /\ m.type = "joined" /\ rs[r].pc = "none"
       /\ run' = [rs EXCEPT ![r].pc = "new", ![r].timer = "direct"]
       /\ ui' = [ui EXCEPT !.screen = "CONNECTING", !.status = "connecting"]
       /\ UNCHANGED <<active, lastCode, plays>>
    \/ /\ active = r /\ m.type \in {"offer", "ice"}
       /\ run' = IF rs[r].pc = "none" \/ (m.type = "offer" /\ rs[r].remote) THEN rs
                 ELSE IF m.type = "offer" THEN [rs EXCEPT ![r].step = "remote"]
                 ELSE IF rs[r].remote
                 THEN [rs EXCEPT ![r].step = "late", ![r].adding = <<m.n>>]
                 ELSE [rs EXCEPT ![r].ice = Append(@, m.n)]
       /\ UNCHANGED page

(* The messages that do not wait for pending WebRTC promises. *)
UrgentErrors == {"error"} \* the bug: "stopped" waits behind the promises
Urgent == {"stopped", "error"}

Arrives(r) ==
    LET m == Head(link[r].inbox)
        rs == [run EXCEPT ![r].watchdog = TRUE] IN
    /\ Drained /\ run[r].socket = "open" /\ ~link[r].silent /\ link[r].inbox # <<>>
    /\ link' = [link EXCEPT ![r].inbox = Tail(@)]
    /\ IF m.type \in Urgent THEN Receive(rs, r, m)
       ELSE /\ run' = IF m.type = "heartbeat" THEN rs
                      ELSE [rs EXCEPT ![r].queue = Append(@, m)]
            /\ UNCHANGED page
    /\ UNCHANGED open

Microtask(r) ==
    /\ Ready(r)
    /\ Receive([run EXCEPT ![r].queue = Tail(@)], r, Head(run[r].queue))
    /\ UNCHANGED far

(* onclose or onerror, also the one that the page's own close() causes. *)
SocketCloses(r) ==
    Drained /\ run[r].socket # "unused" /\ CleanupIfActive(r, "lost") /\ UNCHANGED far

TimerFires(r) ==
    /\ Drained /\ run[r].timer # "off"
    /\ CleanupIfActive(r, IF run[r].timer = "signaling" THEN "timeout" ELSE "nat")
    /\ UNCHANGED far

WatchdogFires(r) ==
    Drained /\ run[r].watchdog /\ CleanupIfActive(r, "silent") /\ UNCHANGED far

-----------------------------------------------------------------------------
(* The promises of the offer and ice handlers. *)

Settled(r, steps) == Drained /\ run[r].step \in steps

(* Where the offer handler is when it has rest to add. *)
NextCandidate(R, rest) ==
    [R EXCEPT !.adding = rest, !.step = IF rest = <<>> THEN "answer" ELSE "early"]

(* An await returns to a run that is no longer current. *)
Abandon(R) == [R EXCEPT !.step = "idle", !.adding = <<>>]

ContinueForgetful(R) == NextCandidate(R, <<>>) \* the bug: early candidates are not added
Continue(R) == [NextCandidate(R, R.ice) EXCEPT !.ice = <<>>]

RemoteSet(r) ==
    LET R == [run[r] EXCEPT !.remote = TRUE] IN
    /\ Settled(r, {"remote"})
    /\ run' = [run EXCEPT ![r] = IF active = r THEN Continue(R) ELSE Abandon(R)]
    /\ UNCHANGED <<page, far>>

CandidateAdded(r) ==
    LET R == [run[r] EXCEPT !.added = Append(@, Head(run[r].adding))] IN
    /\ Settled(r, {"early", "late"})
    /\ run' = [run EXCEPT ![r] = IF active # r \/ R.step = "late" THEN Abandon(R)
                                 ELSE NextCandidate(R, Tail(R.adding))]
    /\ UNCHANGED <<page, far>>

AnswerCreated(r) ==
    /\ Settled(r, {"answer"})
    /\ run' = [run EXCEPT ![r].step = IF active = r THEN "local" ELSE "idle"]
    /\ UNCHANGED <<page, far>>

LocalSet(r) ==
    /\ Settled(r, {"local"})
    /\ run' = [run EXCEPT ![r].step = "idle"]
    /\ Send(r, "answer")
    /\ UNCHANGED <<page, open>>

(* The awaited promise rejects, and with it every one queued behind it. *)
NegotiationFails(r) ==
    LET rs == [run EXCEPT ![r] = [Abandon(@) EXCEPT !.queue = <<>>]] IN
    /\ Drained /\ run[r].step # "idle"
    /\ IF active = r THEN CleanupFrom(rs, "failed", TRUE) ELSE run' = rs /\ UNCHANGED page
    /\ UNCHANGED far

-----------------------------------------------------------------------------
(* The peer connection's events. *)

CurrentUnchecked(r) == run[r].pc # "none" \* the bug: a replaced run's events count
Current(r) == run[r].pc # "none" /\ active = r

LocalCandidate(r) ==
    /\ Drained /\ Current(r)
    /\ (run[r].step = "local" \/ HasSent(r, "answer")) /\ ~HasSent(r, "ice")
    /\ Send(r, "ice")
    /\ UNCHANGED <<page, run, open>>

TrackArrives(r) ==
    /\ Drained /\ Current(r) /\ run[r].remote /\ r \notin ui.shown
    /\ ui' = [ui EXCEPT !.shown = @ \cup {r}]
    /\ plays' = plays \cup {<<r, "track">>}
    /\ UNCHANGED <<active, lastCode, run, far>>

TrackEnds(r) ==
    Drained /\ r \in ui.shown /\ CleanupIfActive(r, "ended") /\ UNCHANGED far

ConnectedTimed(R) == [R EXCEPT !.pc = "connected"] \* the bug: the timer is not cleared
Connected(R) == [R EXCEPT !.pc = "connected", !.timer = "off"]

PeerConnects(r) ==
    /\ Drained /\ Current(r) /\ run[r].pc = "new" /\ HasSent(r, "answer")
    /\ run' = [run EXCEPT ![r] = Connected(@)]
    /\ ui' = [ui EXCEPT !.screen = "LIVE", !.status = "live"]
    /\ UNCHANGED <<active, lastCode, plays, far>>

PeerFails(r) ==
    Drained /\ Current(r) /\ run[r].remote /\ Cleanup("nat", TRUE) /\ UNCHANGED far

-----------------------------------------------------------------------------
(* The far end (Signaling, and the sharer behind it). *)

Reachable(r) == run[r].socket = "open" /\ ~link[r].silent /\ Len(link[r].inbox) < Buffer
Tell(L, m) == [L EXCEPT !.inbox = Append(@, m)]

ServerAdmits(r) ==
    /\ Reachable(r) /\ link[r].sent # <<>> /\ link[r].member = "no" /\ open
    /\ link' = [link EXCEPT ![r] = [Tell(@, Msg("joined", 0)) EXCEPT !.member = "yes"]]
    /\ UNCHANGED <<page, run, open>>

(* A join is refused, or the sharer has the viewer disconnected. *)
ServerRejects(r) ==
    /\ Reachable(r) /\ link[r].sent # <<>> /\ link[r].member # "out"
    /\ link' = [link EXCEPT ![r] = [Tell(@, Msg("error", 0)) EXCEPT !.member = "out"]]
    /\ UNCHANGED <<page, run, open>>

SessionEnds ==
    LET told == {r \in Run : link[r].member = "yes"} IN
    /\ open /\ \A r \in told : Len(link[r].inbox) < Buffer
    /\ open' = FALSE
    /\ link' = [r \in Run |-> IF r \in told
                              THEN [Tell(link[r], Msg("stopped", 0)) EXCEPT !.member = "out"]
                              ELSE link[r]]
    /\ UNCHANGED <<page, run>>

SharerOffers(r) ==
    /\ Reachable(r) /\ link[r].member = "yes" /\ ~link[r].offered
    /\ link' = [link EXCEPT ![r] = [Tell(@, Msg("offer", 0)) EXCEPT !.offered = TRUE]]
    /\ UNCHANGED <<page, run, open>>

SharerTrickles(r) ==
    LET n == link[r].trickled + 1 IN
    /\ Reachable(r) /\ link[r].member = "yes" /\ n <= Candidates
    /\ link' = [link EXCEPT ![r] = [Tell(@, Msg("ice", n)) EXCEPT !.trickled = n]]
    /\ UNCHANGED <<page, run, open>>

ServerBeats(r) ==
    /\ Reachable(r)
    /\ ~\E i \in 1 .. Len(link[r].inbox) : link[r].inbox[i].type = "heartbeat"
    /\ link' = [link EXCEPT ![r] = Tell(@, Msg("heartbeat", 0))]
    /\ UNCHANGED <<page, run, open>>

LinkDies(r) ==
    /\ run[r].socket \in {"opening", "open"} /\ ~link[r].silent
    /\ link' = [link EXCEPT ![r].silent = TRUE]
    /\ UNCHANGED <<page, run, open>>

-----------------------------------------------------------------------------
Next ==
    \/ PageHides \/ PlayClicked \/ VideoPlays \/ SessionEnds
    \/ \E r \in Run :
          \/ Submit(r) \/ Reconnect(r) \/ \E cause \in {"track", "click"} : PlaySettles(r, cause)
          \/ Opens(r) \/ Arrives(r) \/ Microtask(r) \/ SocketCloses(r)
          \/ TimerFires(r) \/ WatchdogFires(r)
          \/ RemoteSet(r) \/ CandidateAdded(r) \/ AnswerCreated(r) \/ LocalSet(r)
          \/ NegotiationFails(r)
          \/ LocalCandidate(r) \/ TrackArrives(r) \/ TrackEnds(r)
          \/ PeerConnects(r) \/ PeerFails(r)
          \/ ServerAdmits(r) \/ ServerRejects(r) \/ SharerOffers(r) \/ SharerTrickles(r)
          \/ ServerBeats(r) \/ LinkDies(r)

(* Timers fire and what has arrived is handled; a heartbeat can outrun the   *)
(* watchdog for ever while the link lives, and no WebRTC promise has to      *)
(* settle, no socket to open, no user to act.                                *)
Fairness ==
    \A r \in Run :
        /\ WF_vars(Microtask(r))
        /\ WF_vars(Arrives(r))
        /\ WF_vars(TimerFires(r))
        /\ WF_vars(link[r].silent /\ WatchdogFires(r))

Spec == Init /\ [][Next]_vars
FairSpec == Spec /\ Fairness

-----------------------------------------------------------------------------
(* Properties. *)

(* Nothing of an earlier attempt survives it: whatever its late events do,   *)
(* its socket and peer connection stay closed, its timers unset and its      *)
(* tracks off the screen.                                                    *)
StaleRunsClosed ==
    \A r \in Run : r # active =>
        /\ run[r].socket \in {"unused", "closed"} /\ run[r].pc \in {"none", "closed"}
        /\ run[r].timer = "off" /\ ~run[r].watchdog /\ r \notin ui.shown

(* What the page says is what the active run is doing, and every state in    *)
(* which it waits has a timer that ends the wait.                            *)
ScreenMatchesRun ==
    /\ ui.screen = "DISCONNECTED" <=> active = None
    /\ ui.screen = "JOINING" => run[active].timer = "signaling" /\ run[active].pc = "none"
    /\ ui.screen = "CONNECTING" => run[active].timer = "direct" /\ run[active].pc = "new"
    /\ ui.screen = "LIVE" => run[active].timer = "off" /\ run[active].pc = "connected"
    /\ ui.playable => active # None /\ ui.shown = {active}
    /\ ui.reconnect => active = None

(* The candidates after the first low ones, up to the one numbered top, are  *)
(* those among msgs, in order.                                               *)
InTurn(msgs, low, top) ==
    LET ices == {i \in 1 .. Len(msgs) : msgs[i].type = "ice"} IN
    /\ low <= top /\ {msgs[i].n : i \in ices} = (low + 1) .. top
    /\ \A i, j \in ices : i < j => msgs[i].n < msgs[j].n

(* The sharer's candidates reach the active peer connection in order, none   *)
(* lost or added twice, whether they come before the offer, while its        *)
(* handler awaits something, or after it.                                    *)
CandidatesInOrder ==
    active # None =>
        LET R == run[active]
            taken == R.added \o R.adding \o R.ice IN
        /\ taken = [i \in 1 .. Len(taken) |-> i]
        /\ InTurn(R.queue \o link[active].inbox, Len(taken), link[active].trickled)
        /\ R.step = "idle" /\ R.remote => R.ice = <<>>

(* The reason a run ended stays on the page until the user acts: no late     *)
(* event of the run, its socket or its promises overwrites it.               *)
ReasonStays ==
    [][ui.screen = "DISCONNECTED" /\ ui'.screen = "DISCONNECTED" /\ ui'.status # "hidden"
          => ui'.status = ui.status]_vars

(* An attempt to join ends in a live picture or a message, whatever the      *)
(* server, the sharer and the browser's promises do; and a viewer whom the   *)
(* server has put out, or whose signaling has died, stops watching, also in  *)
(* a live picture and while a WebRTC promise is pending that never settles.  *)
RunResolves ==
    \A r \in Run :
        /\ (active = r) ~> (active # r \/ ui.screen = "LIVE")
        /\ (active = r /\ (link[r].member = "out" \/ link[r].silent)) ~> (active # r)
=============================================================================
