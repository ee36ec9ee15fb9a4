------------------------------- MODULE AppAudio -------------------------------
(***************************************************************************)
(* The sound of one application on Windows, from the process to the share: *)
(* Capture of internal/winaudio/audio_windows.go with the COM activation   *)
(* it waits for, StartAudio and StopAudio of cmd/sharer/main_windows.go,   *)
(* the app-audio events, and the ring of web/sharer/app-audio.js.  The     *)
(* page calls StartAudio and StopAudio one at a time, as BrowserSharer     *)
(* shows of its chain of audio operations.                                 *)
(***************************************************************************)
EXTENDS Naturals, Sequences, SequencesExt

CONSTANTS
    Cap, Threshold, Quantum, \* frames: of the ring, to start playing, of one process call
    Packets,                 \* lengths of the packets that a device delivers
    MaxFrames, MaxRuns,      \* bounds: frames of a capture, shares
    MaxProcesses, MaxQueue   \* bounds: processes with the same id, events on their way

ASSUME RingAssumption ==
    /\ {Cap, Threshold, Quantum} \subseteq Nat \ {0} /\ Threshold <= Cap
    /\ Packets \subseteq Nat \ {0}
    /\ {MaxFrames, MaxRuns, MaxProcesses, MaxQueue} \subseteq Nat /\ MaxProcesses # 0

VARIABLES
    process, \* which process has the id, and whether it runs
    page,    \* the share and its calls of App
    app,     \* App: cancel is set, its context is cancelled, StartAudio holds mu
    capture, \* Capture and the goroutine around it
    com,     \* the activation: COM still refers to it, references, rooted in activations
    events,  \* app-audio and app-audio-error events on their way to the page
    ring,    \* the worklet of the share
    heard    \* what its last process call played, after the last frame before it

vars == <<process, page, app, capture, com, events, ring, heard>>

Frame == [run : 1..MaxRuns, of : 1..MaxProcesses, n : 1..MaxFrames]
NoFrame == [run |-> 0, of |-> 0, n |-> 0]
Message == [run : 1..MaxRuns, error : BOOLEAN, frames : Seq(Frame)]

TypeOK ==
    /\ process \in [now : 1..MaxProcesses, alive : BOOLEAN]
    /\ page \in [run : 0..MaxRuns, runs : 0..MaxRuns, chosen : 0..MaxProcesses,
                 call : {"none", "start", "stop"}, owes : BOOLEAN]
    /\ app \in [set : BOOLEAN, cancelled : BOOLEAN, mu : {"free", "start", "failed", "stop"}]
    /\ capture \in [at : {"none", "open", "activating", "setup", "looking", "reading", "over", "done"},
                    run : 0..MaxRuns, of : 0..MaxProcesses, n : 0..MaxFrames,
                    ready : {"", "ok", "failed"}, error : BOOLEAN]
    /\ com \in [held : BOOLEAN, result : {"none", "ok", "failed"}, refs : 0..2,
                rooted : BOOLEAN]
    /\ events \in Seq(Message)
    /\ ring \in [samples : [0..(Cap - 1) -> Frame \cup {NoFrame}], read : 0..(Cap - 1),
                 length : 0..Cap, playing : BOOLEAN]
    /\ heard \in Seq(Frame \cup {NoFrame})

Silence == [samples |-> [i \in 0..(Cap - 1) |-> NoFrame], read |-> 0, length |-> 0,
            playing |-> FALSE]
NoCapture == [at |-> "none", run |-> 0, of |-> 0, n |-> 0, ready |-> "", error |-> FALSE]
NoActivation == [held |-> FALSE, result |-> "none", refs |-> 0, rooted |-> FALSE]

Init ==
    /\ process = [now |-> 1, alive |-> TRUE]
    /\ page = [run |-> 0, runs |-> 0, chosen |-> 0, call |-> "none", owes |-> FALSE]
    /\ app = [set |-> FALSE, cancelled |-> FALSE, mu |-> "free"]
    /\ capture = NoCapture /\ com = NoActivation
    /\ events = <<>> /\ ring = Silence /\ heard = <<NoFrame>>

-----------------------------------------------------------------------------
(* The page: a share with app audio, from startAppAudio to stop. *)

(* What was chosen may come from a list made before the process restarted. *)
PageStarts ==
    /\ page.run = 0 /\ page.call = "none" /\ ~page.owes /\ page.runs < MaxRuns
    /\ \E p \in 1..process.now :
          page' = [page EXCEPT !.run = page.runs + 1, !.runs = @ + 1, !.chosen = p,
                               !.call = "start"]
    /\ ring' = Silence /\ heard' = <<NoFrame>>
    /\ UNCHANGED <<process, app, capture, com, events>>

(* stop closes the worklet and puts a StopAudio behind the call that is out. *)
Stopped == [page EXCEPT !.run = 0, !.owes = TRUE]
PageStops ==
    /\ page.run # 0
    /\ page' = Stopped /\ ring' = Silence /\ heard' = <<NoFrame>>
    /\ UNCHANGED <<process, app, capture, com, events>>

CallsStop ==
    /\ page.owes /\ page.call = "none"
    /\ page' = [page EXCEPT !.call = "stop", !.owes = FALSE]
    /\ UNCHANGED <<process, app, capture, com, events, ring, heard>>

Current(e) == page.run # 0 /\ e.run = page.run

OverflowsLate(data) == ring.length + Len(data) > Cap + 1 \* the bug
Overflows(data) == ring.length + Len(data) > Cap
Written(data, from, length) ==
    [i \in 0..(Cap - 1) |->
        LET k == (i + Cap - from) % Cap IN \* the slot's place from read on
        IF k >= length /\ k < length + Len(data) THEN data[k - length + 1]
        ELSE ring.samples[i]]

(* port.onmessage: the newest that fit; an overflow empties the ring first. *)
ReadAfter(data) == IF Overflows(data) THEN 0 ELSE ring.read
Received(frames) ==
    LET data == IF Len(frames) > Cap THEN SubSeq(frames, Len(frames) - Cap + 1, Len(frames))
                ELSE frames
        length == IF Overflows(data) THEN 0 ELSE ring.length IN
    [samples |-> Written(data, ReadAfter(data), length), read |-> ReadAfter(data),
     length |-> length + Len(data), playing |-> ring.playing /\ ~Overflows(data)]

PageHandles ==
    LET e == Head(events) IN
    /\ events # <<>> /\ events' = Tail(events)
    /\ \/ ~Current(e) /\ UNCHANGED <<page, ring, heard>>
       \/ /\ Current(e) /\ ~e.error
          /\ ring' = Received(e.frames) /\ UNCHANGED <<page, heard>>
       \/ /\ Current(e) /\ e.error
          /\ page' = Stopped /\ ring' = Silence /\ heard' = <<NoFrame>>
    /\ UNCHANGED <<process, app, capture, com>>

(* process: once enough is there it plays until the ring is empty. *)
Plays ==
    LET playing == ring.playing \/ ring.length >= Threshold
        k == IF ~playing THEN 0 ELSE IF ring.length < Quantum THEN ring.length ELSE Quantum IN
    /\ page.run # 0
    /\ heard' = <<Last(heard)>> \o [i \in 1..k |-> ring.samples[(ring.read + i - 1) % Cap]]
    /\ ring' = [ring EXCEPT !.read = (@ + k) % Cap, !.length = @ - k,
                            !.playing = playing /\ ring.length > k]
    /\ UNCHANGED <<process, page, app, capture, com, events>>

-----------------------------------------------------------------------------
(* App.  mu is held from the call to the reply. *)

Replies == page' = [page EXCEPT !.call = "none"]
(* A rejection ends the share if it is still there. *)
Rejects == /\ page' = [(IF page.run # 0 THEN Stopped ELSE page) EXCEPT !.call = "none"]
           /\ ring' = Silence /\ heard' = <<NoFrame>>

StartAudio ==
    /\ page.call = "start" /\ app.mu = "free"
    /\ IF app.set
       THEN Rejects /\ UNCHANGED <<app, capture>>
       ELSE /\ app' = [set |-> TRUE, cancelled |-> FALSE, mu |-> "start"]
            /\ capture' = [NoCapture EXCEPT !.at = "open", !.run = page.runs]
            /\ UNCHANGED <<page, ring, heard>>
    /\ UNCHANGED <<process, com, events>>

StartReady ==
    /\ app.mu = "start" /\ capture.ready # ""
    /\ IF capture.ready = "ok"
       THEN app' = [app EXCEPT !.mu = "free"] /\ Replies
       ELSE app' = [app EXCEPT !.mu = "failed", !.cancelled = TRUE] /\ UNCHANGED page
    /\ UNCHANGED <<process, capture, com, events, ring, heard>>

StartFails ==
    /\ app.mu = "failed" /\ capture.at = "done"
    /\ app' = [app EXCEPT !.mu = "free", !.set = FALSE]
    /\ Rejects
    /\ UNCHANGED <<process, capture, com, events>>

StopAudio ==
    /\ page.call = "stop" /\ app.mu = "free"
    /\ IF app.set
       THEN app' = [app EXCEPT !.cancelled = TRUE, !.mu = "stop"] /\ UNCHANGED page
       ELSE Replies /\ UNCHANGED app
    /\ UNCHANGED <<process, capture, com, events, ring, heard>>

Unjoined == TRUE \* the bug: StopAudio does not wait for the goroutine
Joined == capture.at = "done"
StopReturns ==
    /\ app.mu = "stop" /\ Joined
    /\ app' = [app EXCEPT !.mu = "free", !.set = FALSE] /\ Replies
    /\ UNCHANGED <<process, capture, com, events, ring, heard>>

-----------------------------------------------------------------------------
(* Capture. *)

Ends(error) == capture' = [capture EXCEPT !.at = "over", !.error = error]

(* Its handle keeps the id from being used again.  It may be refused, or be  *)
(* that of a process which has just ended; COM and activation may fail.      *)
SameProcess(p) == p = process.now
Opens ==
    /\ capture.at = "open"
    /\ \/ /\ SameProcess(page.chosen)
          /\ capture' = [capture EXCEPT !.at = "activating", !.of = process.now]
          /\ com' = [held |-> TRUE, result |-> "none", refs |-> 2, rooted |-> TRUE]
       \/ Ends(TRUE) /\ UNCHANGED com
    /\ UNCHANGED <<process, page, app, events, ring, heard>>

(* ActivateCompleted, on a thread of COM, which drops its reference after it. *)
Completes ==
    /\ com.held /\ com.result = "none"
    /\ \E result \in {"ok", "failed"} : com' = [com EXCEPT !.result = result]
    /\ UNCHANGED <<process, page, app, capture, events, ring, heard>>
Drops == [com EXCEPT !.refs = @ - 1, !.rooted = com.refs # 1]
ComReleases ==
    /\ com.held /\ com.result # "none"
    /\ com' = [Drops EXCEPT !.held = FALSE]
    /\ UNCHANGED <<process, page, app, capture, events, ring, heard>>
Activated ==
    /\ capture.at = "activating" /\ com.result # "none"
    /\ IF com.result = "ok" THEN capture' = [capture EXCEPT !.at = "setup"] ELSE Ends(TRUE)
    /\ com' = Drops
    /\ UNCHANGED <<process, page, app, events, ring, heard>>

SetsUp ==
    /\ capture.at = "setup"
    /\ \/ capture' = [capture EXCEPT !.at = "looking", !.ready = "ok"]
       \/ Ends(TRUE)
    /\ UNCHANGED <<process, page, app, com, events, ring, heard>>

(* The loop looks at ctx and at the process, then waits at most 50 ms and    *)
(* reads packets until there are no more.                                    *)
GoneUnseen == FALSE \* the bug: the loop looks only at ctx
Gone == ~process.alive
Looks ==
    /\ capture.at = "looking"
    /\ \/ app.cancelled /\ Ends(FALSE)
       \/ ~app.cancelled /\ Gone /\ Ends(TRUE)
       \/ ~app.cancelled /\ ~Gone /\ capture' = [capture EXCEPT !.at = "reading"]
    /\ UNCHANGED <<process, page, app, com, events, ring, heard>>

(* One packet, perhaps the last before ctx is looked at. *)
Emits ==
    /\ capture.at = "reading" /\ Len(events) < MaxQueue
    /\ \E k \in Packets :
          /\ capture.n + k <= MaxFrames
          /\ capture' = [capture EXCEPT !.n = @ + k]
          /\ events' = Append(events, [run |-> capture.run, error |-> FALSE,
                 frames |-> [i \in 1..k |-> [run |-> capture.run, of |-> capture.of,
                                             n |-> capture.n + i]]])
    /\ UNCHANGED <<process, page, app, com, ring, heard>>
HasRead ==
    /\ capture.at = "reading"
    /\ capture' = [capture EXCEPT !.at = "looking"]
    /\ UNCHANGED <<process, page, app, com, events, ring, heard>>

(* A wait or a call of the loop fails. *)
Breaks ==
    /\ capture.at \in {"looking", "reading"} /\ Ends(TRUE)
    /\ UNCHANGED <<process, page, app, com, events, ring, heard>>

(* The goroutine: a failure is the reply of StartAudio or an event. *)
Told(failed) == failed /\ ~app.cancelled
Finishes ==
    /\ capture.at = "over"
    /\ capture' = [capture EXCEPT !.at = "done",
                                  !.ready = IF @ = "" THEN "failed" ELSE @]
    /\ events' = IF capture.ready = "ok" /\ Told(capture.error)
                 THEN Append(events, [run |-> capture.run, error |-> TRUE, frames |-> <<>>])
                 ELSE events
    /\ UNCHANGED <<process, page, app, com, ring, heard>>

Held == capture.at \in {"activating", "setup", "looking", "reading"} \* the process handle
ProcessEnds ==
    /\ process.alive /\ process' = [process EXCEPT !.alive = FALSE]
    /\ UNCHANGED <<page, app, capture, com, events, ring, heard>>
ProcessRestarts ==
    /\ ~process.alive /\ ~Held /\ process.now < MaxProcesses
    /\ process' = [now |-> process.now + 1, alive |-> TRUE]
    /\ UNCHANGED <<page, app, capture, com, events, ring, heard>>

-----------------------------------------------------------------------------
Page == PageStarts \/ PageStops
Calls == CallsStop \/ StartAudio \/ StartReady \/ StartFails \/ StopAudio \/ StopReturns
Activation == Completes \/ ComReleases
Capturing == Opens \/ Activated \/ SetsUp \/ Looks \/ HasRead \/ Breaks \/ Finishes
Next == Page \/ PageHandles \/ Plays \/ Calls \/ Activation \/ Capturing \/ Emits
        \/ ProcessEnds \/ ProcessRestarts
Spec == Init /\ [][Next]_vars

(* Calls of the system return, COM completes an activation, and the          *)
(* goroutine of Capture runs; packets do not keep it from looking for ever.  *)
FairSpec ==
    Spec /\ WF_vars(PageHandles) /\ WF_vars(Calls) /\ WF_vars(Activation)
         /\ WF_vars(Capturing)

-----------------------------------------------------------------------------
(* What a share plays is sound of its own capture of the process that was    *)
(* chosen, each frame once and in order, wherever the ring wrapped,          *)
(* overflowed or ran dry and whatever was still on its way from before.      *)
SoundInOrder ==
    \A i \in 2..Len(heard) :
        /\ heard[i].run = page.run /\ heard[i].of = page.chosen
        /\ heard[i].n > heard[i - 1].n

(* Between shares App is ready for the next StartAudio: no capture runs, no  *)
(* resource is held; and COM's callback object is rooted exactly as long as  *)
(* COM or Go refers to it.                                                   *)
NothingCapturedBetween ==
    /\ page.run = 0 /\ page.call = "none" /\ ~page.owes =>
          ~app.set /\ capture.at \in {"none", "done"}
    /\ com.held => com.rooted
    /\ com.rooted => com.held \/ capture.at = "activating"

(* A share does not go on without its sound: when the application ends while *)
(* it is captured, or its capture fails, the page stops the share.           *)
Lost == (Held /\ ~process.alive) \/ (capture.at = "over" /\ capture.error)
SoundLossStops ==
    (page.run # 0 /\ capture.run = page.run /\ Lost)
      ~> (page.run = 0 \/ capture.run # page.run)
=============================================================================
