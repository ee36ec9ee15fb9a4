------------------------------ MODULE DesktopApp ------------------------------
(***************************************************************************)
(* The Linux desktop app: App of cmd/sharer/main_linux.go, its page (the   *)
(* native branch of web/sharer/sharer.js) and the events and replies that  *)
(* the webview hands to the page in the order they were issued.  App's     *)
(* share goroutine calls the Source of PortalSource; a Session is what     *)
(* NativeSession promises of it: it ends by itself or once it is stopped.  *)
(***************************************************************************)
EXTENDS PortalSource

CONSTANT MaxStarts \* bound: presses of Start

ASSUME MaxStartsAssumption == MaxStarts \in Nat \ {0}

VARIABLES
    page,    \* buttons, flags and calls of the page
    halt,    \* the page's call of App.Stop
    toPage,  \* events and replies on their way to the page
    app,     \* App and its share goroutine
    session  \* the Session that share started

vars == <<ctx, source, portal, page, halt, toPage, app, session>>
appVars == <<page, halt, toPage, app, session>>

Event(state, error) == [type |-> "share-state", state |-> state, error |-> error, call |-> 0]
Reply(type, call) == [type |-> type, state |-> "", error |-> FALSE, call |-> call]
ToPage == [type : {"share-state", "begun", "refused", "returned"},
           state : {"", "choosing", "connecting", "sharing", "stopped"},
           error : BOOLEAN, call : 0..MaxStarts]

TypeOK ==
    /\ SourceTypeOK
    /\ page \in [start : BOOLEAN, stop : BOOLEAN, stopping : BOOLEAN, error : BOOLEAN,
                 calls : Seq({"asked", "begun", "refused", "replied", "settled"})]
    /\ halt \in [at : {"no", "waits", "stopping", "returned"}, share : 0..MaxStarts]
    /\ toPage \in Seq(ToPage)
    /\ app \in [active : BOOLEAN, n : 0..MaxStarts, run : BOOLEAN, told : BOOLEAN,
                pc : {"none", "begin", "select", "audio", "connect", "start", "loop",
                      "state", "unwind", "close", "closing", "final"},
                failure : {"", "canceled", "failed"}]
    /\ session \in [at : {"none", "live", "over"}, error : BOOLEAN]

NoSession == [at |-> "none", error |-> FALSE]
Init ==
    /\ SourceInit
    /\ page = [start |-> TRUE, stop |-> FALSE, stopping |-> FALSE, error |-> FALSE,
               calls |-> <<>>]
    /\ halt = [at |-> "no", share |-> 0]
    /\ toPage = <<>>
    /\ app = [active |-> FALSE, n |-> 0, pc |-> "none", run |-> FALSE, told |-> FALSE,
              failure |-> ""]
    /\ session = NoSession

-----------------------------------------------------------------------------
(* The page. *)

StartClick ==
    /\ page.start /\ Len(page.calls) < MaxStarts
    /\ page' = [page EXCEPT !.start = FALSE, !.stop = TRUE, !.stopping = FALSE,
                            !.calls = Append(@, "asked")]
    /\ UNCHANGED <<ctx, source, portal, halt, toPage, app, session>>

StopClick ==
    /\ page.stop
    /\ page' = [page EXCEPT !.start = FALSE, !.stop = FALSE, !.stopping = TRUE]
    /\ halt' = [halt EXCEPT !.at = "waits"]
    /\ UNCHANGED <<ctx, source, portal, toPage, app, session>>

Buttons(stopped) == [page EXCEPT !.start = stopped, !.stop = ~stopped]

(* The page's share-state handler and its continuations of Start and Stop. *)
PageHandles ==
    LET e == Head(toPage) IN
    /\ toPage # <<>> /\ toPage' = Tail(toPage)
    /\ \/ /\ e.type = "share-state"
          /\ page' = IF page.stopping THEN page
                     ELSE [Buttons(e.state = "stopped") EXCEPT !.error = e.error]
          /\ UNCHANGED halt
       \/ /\ e.type = "begun"
          /\ page' = [page EXCEPT !.calls[e.call] = "settled"]
          /\ UNCHANGED halt
       \/ /\ e.type = "refused"
          /\ page' = [(IF page.stopping THEN page ELSE Buttons(TRUE))
                        EXCEPT !.calls[e.call] = "settled"]
          /\ UNCHANGED halt
       \/ /\ e.type = "returned"
          /\ page' = [Buttons(TRUE) EXCEPT !.stopping = FALSE, !.error = FALSE]
          /\ halt' = [halt EXCEPT !.at = "no"]
    /\ UNCHANGED <<ctx, source, portal, app, session>>

-----------------------------------------------------------------------------
(* App.Start and App.Stop; mu is not held across any other step. *)

AppStart(n) ==
    /\ page.calls[n] = "asked"
    /\ \/ /\ app.active
          /\ page' = [page EXCEPT !.calls[n] = "refused"]
          /\ UNCHANGED <<sourceVars, app, session>>
       \/ /\ ~app.active
          /\ page' = [page EXCEPT !.calls[n] = "begun"]
          /\ NewContext
          /\ app' = [active |-> TRUE, n |-> app.n + 1, pc |-> "begin", run |-> FALSE,
                     told |-> FALSE, failure |-> ""]
          /\ session' = NoSession
    /\ UNCHANGED <<halt, toPage>>

AppStartReplies(n) ==
    /\ page.calls[n] \in {"begun", "refused"}
    /\ page' = [page EXCEPT !.calls[n] = "replied"]
    /\ toPage' = Append(toPage, Reply(page.calls[n], n))
    /\ UNCHANGED <<ctx, source, portal, halt, app, session>>

(* stop calls it once the last Start has settled. *)
AppStop ==
    /\ halt.at = "waits" /\ page.calls[Len(page.calls)] = "settled"
    /\ halt' = [at |-> "stopping", share |-> IF app.active THEN app.n ELSE 0]
    /\ IF app.active THEN Cancel ELSE UNCHANGED sourceVars
    /\ UNCHANGED <<page, toPage, app, session>>

(* done of the share that Stop found was closed. *)
Cancelling(n) == TRUE \* the bug: Stop cancels and does not wait
Done(n) == n < app.n \/ ~app.active
AppStopReturns ==
    /\ halt.at = "stopping" /\ Done(halt.share)
    /\ halt' = [at |-> "returned", share |-> 0]
    /\ toPage' = Append(toPage, Reply("returned", 0))
    /\ UNCHANGED <<ctx, source, portal, page, app, session>>

-----------------------------------------------------------------------------
(* share, and the goroutine that cancels run when the Source is done. *)

Emit(state, error) == toPage' = Append(toPage, Event(state, error))
Goto(pc) == app' = [app EXCEPT !.pc = pc]
Return(pc, failure) == app' = [app EXCEPT !.pc = pc, !.failure = failure]
RunCancelled == ctx \/ app.run

Begin ==
    /\ app.pc = "begin" /\ SelectSource
    /\ Emit("choosing", FALSE) /\ Goto("select")
    /\ UNCHANGED <<page, halt, session>>

(* With an audio app chosen or without. *)
Selected ==
    /\ app.pc = "select"
    /\ \/ source.at = "ready" /\ \E pc \in {"audio", "connect"} : Goto(pc)
       \/ source.at = "failed" /\ Return("final", source.why)
    /\ UNCHANGED <<ctx, source, portal, page, halt, toPage, session>>

WatchSource ==
    /\ app.pc \notin {"none", "begin", "select", "final"}
    /\ source.end # "no" /\ ~app.run
    /\ app' = [app EXCEPT !.run = TRUE]
    /\ UNCHANGED <<ctx, source, portal, page, halt, toPage, session>>

Errors == {"failed"} \cup (IF RunCancelled THEN {"canceled"} ELSE {})

Audio ==
    /\ app.pc = "audio"
    /\ \/ ~RunCancelled /\ UseAppAudio /\ Goto("connect")
       \/ (\E f \in Errors : Return("close", f)) /\ UNCHANGED sourceVars
    /\ UNCHANGED <<page, halt, toPage, session>>

Connect ==
    /\ app.pc = "connect"
    /\ Emit("connecting", FALSE) /\ Goto("start")
    /\ UNCHANGED <<ctx, source, portal, page, halt, session>>

SessionStarts ==
    /\ app.pc = "start"
    /\ \/ session' = [session EXCEPT !.at = "live"] /\ Goto("loop")
       \/ (\E f \in Errors : Return("close", f)) /\ UNCHANGED session
    /\ UNCHANGED <<ctx, source, portal, page, halt, toPage>>

(* Media, signaling or the server end the session, or Stop and run do. *)
SessionEnds(error) ==
    /\ session.at = "live"
    /\ session' = [at |-> "over", error |-> error]
    /\ UNCHANGED <<ctx, source, portal, page, halt, toPage, app>>

(* The loop reads run first and the session after it. *)
Loop ==
    /\ app.pc = "loop"
    /\ IF RunCancelled THEN Goto("unwind") ELSE Goto("state")
    /\ UNCHANGED <<ctx, source, portal, page, halt, toPage, session>>

ErrorIgnored == "" \* the bug: the session's error is not taken over
SessionFailure == IF session.error THEN "failed" ELSE ""
StatePolled ==
    /\ app.pc = "state"
    /\ \/ /\ session.at = "over"
          /\ Return("unwind", SessionFailure)
          /\ UNCHANGED toPage
       \/ /\ session.at = "live" /\ ~app.told
          /\ Emit("sharing", FALSE)
          /\ app' = [app EXCEPT !.pc = "loop", !.told = TRUE]
       \/ /\ session.at = "live" /\ app.told
          /\ Goto("loop") /\ UNCHANGED toPage
    /\ UNCHANGED <<ctx, source, portal, page, halt, session>>

(* The deferred calls: session.Stop, then run's cancel and source.Close. *)
Unwinding == app.pc \in {"unwind", "close"} \* the bug: the Source is closed first
Stopped == (app.pc = "unwind" /\ session.at = "over") \/ app.pc = "close"
CloseBegins ==
    /\ Stopped
    /\ CloseSource
    /\ app' = [app EXCEPT !.pc = "closing", !.run = TRUE]
    /\ UNCHANGED <<page, halt, toPage, session>>
CloseReturns ==
    /\ app.pc = "closing" /\ source.at = "closed"
    /\ Goto("final")
    /\ UNCHANGED <<ctx, source, portal, page, halt, toPage, session>>

(* The first deferred function, all of it under mu. *)
Final ==
    /\ app.pc = "final"
    /\ Cancel
    /\ Emit("stopped", app.failure = "failed")
    /\ app' = [app EXCEPT !.pc = "none", !.active = FALSE]
    /\ UNCHANGED <<page, halt, session>>

-----------------------------------------------------------------------------
SourceSteps == (Select \/ End \/ Far) /\ UNCHANGED appVars
Clicks == StartClick \/ StopClick
Calls == \/ \E n \in 1..Len(page.calls) : AppStart(n) \/ AppStartReplies(n)
         \/ AppStop \/ AppStopReturns
Share == Begin \/ Selected \/ Audio \/ Connect \/ SessionStarts \/ Loop \/ StatePolled
         \/ CloseBegins \/ CloseReturns \/ Final
Session == \E error \in BOOLEAN : SessionEnds(error)
Next == SourceSteps \/ Clicks \/ PageHandles \/ Calls \/ Share \/ WatchSource \/ Session

Spec == Init /\ [][Next]_vars

(* A selection goes on once it was cancelled: its calls return then.         *)
SelectEnds == (Cancelled /\ Select) /\ UNCHANGED appVars
(* Session.Stop and the cancellation of run end the session.                 *)
SessionStops == (RunCancelled \/ app.pc = "unwind") /\ Session
Fairness ==
    /\ WF_vars(SelectEnds) /\ WF_vars(End /\ UNCHANGED appVars)
    /\ WF_vars(PageHandles) /\ WF_vars(Calls) /\ WF_vars(Share)
    /\ WF_vars(WatchSource) /\ WF_vars(SessionStops)
    /\ WF_vars(PortalHandles /\ UNCHANGED appVars)
FairSpec == Spec /\ Fairness
-----------------------------------------------------------------------------
(* Whenever GStreamer reads the selection, its descriptor and the audio pipe *)
(* are open: revocation, cancellation and errors close the Source only after *)
(* Session.Stop.                                                             *)
SourceOutlivesCapture ==
    app.pc = "start" \/ session.at = "live" =>
        source.fd /\ source.audio # "closed"

(* When App is idle again no part of the share is left, and once the portal  *)
(* has read what it was sent, nor is the picker or the selection.            *)
NothingOutlivesShare ==
    /\ ~app.active => Idle /\ session.at # "live"
    /\ NothingLeftOpen

(* A page that has nothing under way lets the user start exactly when App    *)
(* would accept it, and stop exactly when there is something to stop: no     *)
(* order of clicks, events and replies strands the page or has App refuse.   *)
PageTellsTruth ==
    /\ \A n \in 1..Len(page.calls) : page.calls[n] # "refused"
    /\ toPage = <<>> /\ halt.at = "no"
       /\ (\A n \in 1..Len(page.calls) : page.calls[n] = "settled")
       => page.start = ~app.active /\ page.stop = app.active

(* The error of a session that failed before share looked at it last is      *)
(* shown, unless the user pressed Stop meanwhile.                            *)
ErrorShown == (session.error /\ app.pc = "state") ~> (page.error \/ page.stopping)

(* A cancelled share, or one whose selection or session ended, ends; and     *)
(* after Stop the page can start again: the native picker and every wait of  *)
(* the share give way.                                                       *)
ShareEnds ==
    /\ (app.active /\ (ctx \/ session.at = "over" \/ (app.pc # "begin" /\ source.end # "no")))
          ~> ~app.active
    /\ page.stopping ~> page.start
=============================================================================
