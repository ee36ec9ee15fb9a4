----------------------------- MODULE PortalSource -----------------------------
(***************************************************************************)
(* The screen that the user picks on Linux: SelectSource, its Source and   *)
(* the app audio added to it, internal/sharer/portal_linux.go and          *)
(* audio_linux.go.  At the far end of the D-Bus connection is the desktop  *)
(* portal, which handles messages in order, asks the user, and may revoke  *)
(* the selection or crash.  The caller (module DesktopApp) owns ctx.       *)
(***************************************************************************)
EXTENDS Naturals, Sequences

CONSTANT Faults \* what may break by itself: "portal", "bus"

ASSUME FaultsAssumption == Faults \subseteq {"portal", "bus"}

VARIABLES
    ctx,    \* the caller's context is cancelled
    source, \* SelectSource and the Source it makes
    portal  \* the portal and what is on its way to it

sourceVars == <<ctx, source, portal>>

(* The calls that answer by a Response signal.  "start" stands for SelectSources *)
(* and Start, which follow each other and ask the user.                         *)
Method == {"create", "start"}
Message == Method \cup {"remote", "close-request", "close-session"}

Source ==
    [at : {"none", "bus", "setup", "remote", "ready", "closing", "failed", "closed"} \cup Method,
     asked : BOOLEAN,                 \* the call of "at" is out
     watched : BOOLEAN,               \* the goroutine that waits for signals was started
     end : {"no", "begun", "over"},   \* endOnce; done is closed when it begins
     conn : {"none", "open", "lost", "closed"},
     fd : BOOLEAN,                    \* remote, the PipeWire descriptor, is open
     audio : {"none", "open", "closed"},     \* the pipe that parec writes to
     why : {"", "canceled", "failed"}]       \* the error SelectSource returns

Portal ==
    [alive : BOOLEAN, inbox : Seq(Message), request : Method \cup {"none"},
     session : {"none", "open", "closed"},
     answer : {"none", "ok", "canceled", "failed"}] \* not read yet

SourceTypeOK == ctx \in BOOLEAN /\ source \in Source /\ portal \in Portal

Unselected == [at |-> "none", asked |-> FALSE, watched |-> FALSE, end |-> "no",
               conn |-> "none", fd |-> FALSE, audio |-> "none", why |-> ""]
Waiting == [alive |-> TRUE, inbox |-> <<>>, request |-> "none", session |-> "none",
            answer |-> "none"]
SourceInit == ctx = FALSE /\ source = Unselected /\ portal = Waiting

-----------------------------------------------------------------------------
(* The selection context is cancelled by its parent and by end. *)
CancelledByCaller == ctx \* the bug: not by end
Cancelled == ctx \/ source.end # "no"

(* An error return of SelectSource, which runs the deferred Close.  After a   *)
(* cancellation it is the context's error or the one that came just before.   *)
Fail(why) == [source EXCEPT !.at = "closing", !.asked = FALSE, !.why = why]
Whys == {"failed"} \cup (IF Cancelled THEN {"canceled"} ELSE {})
Fails == \E why \in Whys : source' = Fail(why)

(* A message gets out while the connection is up. *)
Told(m) == IF source.conn = "open" /\ portal.alive
           THEN [portal EXCEPT !.inbox = Append(@, m)] ELSE portal

Idle == source.at \in {"none", "failed", "closed"}

(* The call.  Bound: the portal has handled what an earlier Source sent. *)
SelectSource ==
    /\ Idle /\ portal.inbox = <<>>
    /\ source' = IF ctx THEN [Unselected EXCEPT !.at = "failed", !.why = "canceled"]
                 ELSE [Unselected EXCEPT !.at = "bus"]
    /\ portal' = Waiting
    /\ UNCHANGED ctx

(* The private bus is reached, or not: there is no Source to close yet. *)
BusConnects ==
    /\ source.at = "bus"
    /\ \/ ~ctx /\ source' = [source EXCEPT !.at = "setup", !.conn = "open"]
       \/ \E why \in Whys :
             source' = [source EXCEPT !.at = "failed", !.why = why, !.conn = "closed"]
    /\ UNCHANGED <<ctx, portal>>

(* Capabilities and owner are read, signals subscribed. *)
Subscribes ==
    /\ source.at = "setup"
    /\ \/ ~Cancelled /\ source' = [source EXCEPT !.at = "create", !.watched = TRUE]
       \/ Fails
    /\ UNCHANGED <<ctx, portal>>

(* The message of a call goes out even if the context was cancelled by then; *)
(* a request's own subscription may fail before it.                          *)
Asks ==
    /\ source.at \in Method \cup {"remote"} /\ ~source.asked
    /\ \/ source' = [source EXCEPT !.asked = TRUE] /\ portal' = Told(source.at)
       \/ source.at # "remote" /\ Fails /\ UNCHANGED portal
    /\ UNCHANGED ctx

Following(m) == IF m = "create" THEN "start" ELSE "remote"

(* request reads the Response; what it says may be unusable. *)
Answered ==
    /\ source.at \in Method /\ source.asked /\ portal.answer # "none"
    /\ \/ /\ ~Cancelled /\ portal.answer = "ok"
          /\ source' = [source EXCEPT !.at = Following(@), !.asked = FALSE]
       \/ portal.answer = "canceled" /\ source' = Fail("canceled")
       \/ portal.answer # "canceled" /\ Fails
    /\ portal' = [portal EXCEPT !.answer = "none"]
    /\ UNCHANGED ctx

(* A Response that cannot be read leaves its request to close; a session     *)
(* with an unexpected handle is closed.                                      *)
Misnamed == source.at = "create" /\ portal.answer = "ok"
Garbled ==
    /\ source.at \in Method /\ source.asked /\ portal.answer # "none"
    /\ Fails
    /\ \E m \in {"close-request", "close-session"} :
          /\ m = "close-session" => Misnamed
          /\ portal' = [Told(m) EXCEPT !.answer = "none"]
    /\ UNCHANGED ctx

(* request returns without a Response: cancelled, or the call itself failed. *)
(* The close stands for those of both handles, when the portal made another. *)
Aborts ==
    /\ source.at \in Method /\ source.asked
    /\ Fails
    /\ portal' = Told("close-request")
    /\ UNCHANGED ctx

(* OpenPipeWireRemote is never abandoned: after end, closing the connection  *)
(* makes the call return, with a descriptor if one had arrived.              *)
RemoteAborts ==
    /\ source.at = "remote" /\ source.asked /\ Cancelled
    /\ source.end = "over" /\ source.conn = "open"
    /\ source' = [source EXCEPT !.conn = "closed"]
    /\ UNCHANGED <<ctx, portal>>

RemoteReturns ==
    /\ source.at = "remote" /\ source.asked
    /\ \/ /\ portal.answer = "ok"
          /\ IF Cancelled
             THEN source' = [Fail("canceled") EXCEPT !.fd = TRUE]
             ELSE source' = [source EXCEPT !.at = "ready", !.asked = FALSE, !.fd = TRUE]
       \/ /\ portal.answer = "failed" \/ source.conn # "open" \/ ~portal.alive
          /\ Fails
    /\ portal' = [portal EXCEPT !.answer = "none"]
    /\ UNCHANGED ctx

-----------------------------------------------------------------------------
(* end, by the goroutine that waits for signals or by Close. *)

Revoked == ~portal.alive \/ portal.session = "closed" \/ source.conn = "lost"
EndBegins ==
    /\ source.end = "no"
    /\ (source.watched /\ (ctx \/ Revoked)) \/ source.at = "closing"
    /\ source' = [source EXCEPT !.end = "begun"]
    /\ UNCHANGED <<ctx, portal>>

EndTells ==
    /\ source.end = "begun"
    /\ source' = [source EXCEPT !.end = "over"]
    /\ portal' = Told("close-session")
    /\ UNCHANGED ctx

CloseSource ==
    /\ source.at = "ready"
    /\ source' = [source EXCEPT !.at = "closing"]
    /\ UNCHANGED <<ctx, portal>>

(* The rest of Close, after end.  The session is closed again: cancellation  *)
(* may have raced CreateSession before the session object existed.           *)
ClosedOnce == portal \* the bug: it is not
ClosedAgain == Told("close-session")
Closes ==
    /\ source.at = "closing" /\ source.end = "over"
    /\ portal' = [ClosedAgain EXCEPT !.answer = "none"] \* unread, it goes with conn
    /\ source' = [source EXCEPT
                     !.at = IF source.why = "" THEN "closed" ELSE "failed",
                     !.audio = IF @ = "open" THEN "closed" ELSE @,
                     !.conn = IF @ = "lost" THEN @ ELSE "closed",
                     !.watched = FALSE, !.fd = FALSE]
    /\ UNCHANGED ctx
(* UseAppAudio finds the stream that was selected and starts parec for it. *)
UseAppAudio ==
    /\ source.at = "ready" /\ source.audio = "none"
    /\ source' = [source EXCEPT !.audio = "open"]
    /\ UNCHANGED <<ctx, portal>>

NewContext == Idle /\ ctx' = FALSE /\ UNCHANGED <<source, portal>>
Cancel == ctx' = TRUE /\ UNCHANGED <<source, portal>>

-----------------------------------------------------------------------------
(* The portal.  Its answers are lost when the connection was closed. *)
Delivered(a) == IF source.conn = "open" THEN a ELSE portal.answer

PortalHandles ==
    LET m == Head(portal.inbox)
        P == [portal EXCEPT !.inbox = Tail(@)] IN
    /\ portal.inbox # <<>>
    /\ \/ m \in Method /\ portal' = [P EXCEPT !.request = m]
       \/ /\ m = "remote"
          /\ \E a \in {"ok", "failed"} :
                /\ a = "ok" => P.session = "open"
                /\ portal' = [P EXCEPT !.answer = Delivered(a)]
       \/ m = "close-request" /\ portal' = [P EXCEPT !.request = "none"]
       \/ /\ m = "close-session"
          /\ portal' = [P EXCEPT !.session = IF @ = "open" THEN "closed" ELSE @]
    /\ UNCHANGED <<ctx, source>>

(* It answers a request, the one to start after asking the user. *)
PortalAnswers ==
    /\ portal.request # "none"
    /\ \E a \in {"ok", "canceled", "failed"} :
          /\ a = "ok" /\ portal.request # "create" => portal.session = "open"
          /\ portal' = [portal EXCEPT
                           !.request = "none", !.answer = Delivered(a),
                           !.session = IF a = "ok" /\ portal.request = "create"
                                       THEN "open" ELSE @]
    /\ UNCHANGED <<ctx, source>>

(* The user or the portal ends the selection; its process ends. *)
PortalRevokes ==
    /\ portal.session = "open"
    /\ portal' = [portal EXCEPT !.session = "closed"]
    /\ UNCHANGED <<ctx, source>>
PortalDies ==
    /\ "portal" \in Faults /\ source.conn = "open" /\ portal.alive
    /\ portal' = [portal EXCEPT !.alive = FALSE, !.inbox = <<>>, !.request = "none",
                                !.session = IF @ = "open" THEN "closed" ELSE @]
    /\ UNCHANGED <<ctx, source>>
BusDies ==
    /\ "bus" \in Faults /\ source.conn = "open"
    /\ source' = [source EXCEPT !.conn = "lost"]
    /\ UNCHANGED <<ctx, portal>>

-----------------------------------------------------------------------------
(* The steps of the Source's own goroutines and of the portal; the others    *)
(* are the caller's.                                                         *)
Select == BusConnects \/ Subscribes \/ Asks \/ Answered \/ Garbled \/ Aborts
          \/ RemoteAborts \/ RemoteReturns
End == EndBegins \/ EndTells \/ Closes
Far == PortalHandles \/ PortalAnswers \/ PortalRevokes \/ PortalDies \/ BusDies
Caller == SelectSource \/ UseAppAudio \/ CloseSource \/ NewContext \/ Cancel

SourceSpec == SourceInit /\ [][Select \/ End \/ Far \/ Caller]_sourceVars

-----------------------------------------------------------------------------
(* A selection that failed or was closed leaves nothing behind, wherever the *)
(* cancellation, the revocation and the answers met: no picker or session of *)
(* the portal, no descriptor, pipe or connection.  (A bus that breaks by     *)
(* itself leaves the session to the portal.)                                 *)
HandlesClosed == ~source.fd /\ source.audio # "open" /\ source.conn # "open"
PortalCleared == portal.session # "open" /\ portal.request = "none"
NothingLeftOpen ==
    Idle => /\ HandlesClosed
            /\ portal.inbox = <<>> /\ source.conn # "lost" => PortalCleared
=============================================================================
