------------------------------- MODULE Capture -------------------------------
(***************************************************************************)
(* The GStreamer capture of the Linux app: openCapture, the readers that   *)
(* pump starts, their join, close, and the calls that other goroutines     *)
(* make of a capture under controlMu, internal/sharer/capture_linux.go;    *)
(* Start and stopMedia of session_linux.go, which own it; and the          *)
(* correction of RTCP sender reports, clock_linux.go.                      *)
(***************************************************************************)
EXTENDS Naturals, Sequences

CONSTANTS
    Sink,         \* the appsinks: video, and audio when there is any
    Second,       \* in units of running time
    Rate, Offset, \* of the RTP clock of each sink, from its caps
    Word, Long,   \* 2^32 and 2^64
    Running       \* running times that the pipeline's clock may show

ASSUME ClockAssumption ==
    /\ Second \in Nat \ {0} /\ Word \in Nat \ {0} /\ Long \in Nat
    /\ Rate \in [Sink -> 1..Second] /\ \A s \in Sink : Second * Rate[s] < Long
    /\ Offset \in [Sink -> 0..(Word - 1)]
    /\ Running \subseteq 0..(Long - 1)

(* There is always video, and the sinks are not the names used here. *)
ASSUME SinkAssumption == Sink # {} /\ "open" \notin Sink /\ "" \notin Sink

VARIABLES
    start,    \* the goroutine in Start: where it is, first packets to come, ctx cancelled
    pipeline, \* the GStreamer pipeline with its sinks; "broken" if it is freed twice
    bus,      \* an error waits on the bus; busErr is set
    reader,   \* what each goroutine in read does: openCapture and one per sink
    failures, \* the channel
    pump,     \* pump and its goroutine: its own context cancelled, what it returned
    media,    \* the media context is cancelled
    run,      \* the session's run context is cancelled
    error,    \* the session's error
    stop,     \* stopMedia
    bound,    \* streams that a peer connection sends: those whose clock is known
    user      \* bitrate or clockTime on another goroutine, and the report it makes

vars == <<start, pipeline, bus, reader, failures, pump, media, run, error, stop, bound, user>>

Reader == Sink \cup {"open"}
Kind == {"", "capture", "cancelled"} \* of errors

TypeOK ==
    /\ start \in [at : {"new", "reading", "dialing", "started", "closing", "failed"},
                  left : SUBSET Sink, cancelled : BOOLEAN]
    /\ pipeline \in {"none", "playing", "freed", "broken"}
    /\ bus \in [pending : BOOLEAN, kept : BOOLEAN]
    /\ reader \in [Reader -> [at : {"none", "top", "read", "bus", "pull", "send", "cancel",
                                    "got", "failed", "done"}, err : Kind]]
    /\ failures \in Seq(Kind)
    /\ pump \in [at : {"none", "joining", "returned", "done"}, cancelled : BOOLEAN, err : Kind]
    /\ media \in BOOLEAN /\ run \in BOOLEAN /\ error \in Kind
    /\ stop \in {"no", "waiting", "closed"}
    /\ bound \subseteq Sink
    /\ user \in [at : {"no", "using", "reported"}, sink : Sink \cup {""},
                 running : {0} \cup Running, time : Nat]

NoUser == [at |-> "no", sink |-> "", running |-> 0, time |-> 0]
Init ==
    /\ start = [at |-> "new", left |-> Sink, cancelled |-> FALSE]
    /\ pipeline = "none" /\ bus = [pending |-> FALSE, kept |-> FALSE]
    /\ reader = [r \in Reader |-> [at |-> "none", err |-> ""]]
    /\ failures = <<>> /\ pump = [at |-> "none", cancelled |-> FALSE, err |-> ""]
    /\ media = FALSE /\ run = FALSE /\ error = "" /\ stop = "no"
    /\ bound = {} /\ user = NoUser

Freed == IF pipeline = "playing" THEN "freed" ELSE "broken"

-----------------------------------------------------------------------------
(* read, by openCapture and by the goroutines of pump. *)

Cancelled(r) == IF r = "open" THEN start.cancelled ELSE media \/ pump.cancelled

(* pump's goroutines tell pump first and cancel the others then. *)
CancelFirst == <<"cancel", "send">> \* the bug: the other way round
FailureSteps == <<"send", "cancel">>

Become(r, at, err) == reader' = [reader EXCEPT ![r] = [at |-> at, err |-> err]]
Fail(r, err) == Become(r, IF r = "open" THEN "failed" ELSE FailureSteps[1], err)

ChecksContext(r) ==
    /\ reader[r].at = "read"
    /\ IF Cancelled(r) THEN Fail(r, "cancelled") ELSE Become(r, "bus", "")
    /\ UNCHANGED <<start, pipeline, bus, failures, pump, media, run, error, stop, bound, user>>

(* A message is taken off the bus once; busErr keeps it for every reader. *)
ChecksBus(r) ==
    /\ reader[r].at = "bus"
    /\ bus' = [pending |-> FALSE, kept |-> bus.kept \/ bus.pending]
    /\ IF bus'.kept THEN Fail(r, "capture") ELSE Become(r, "pull", "")
    /\ UNCHANGED <<start, pipeline, failures, pump, media, run, error, stop, bound, user>>

(* Nothing for 100 ms, a packet, or the end, an unreadable or invalid one. *)
Pulls(r) ==
    /\ reader[r].at = "pull"
    /\ \/ Become(r, "read", "")
       \/ Become(r, IF r = "open" THEN "got" ELSE "top", "")
       \/ Fail(r, "capture")
    /\ UNCHANGED <<start, pipeline, bus, failures, pump, media, run, error, stop, bound, user>>

(* The loop of a goroutine of pump, which writes what it has and reads on. *)
Writes(r) ==
    /\ reader[r].at = "top"
    /\ Become(r, IF Cancelled(r) THEN "done" ELSE "read", "")
    /\ UNCHANGED <<start, pipeline, bus, failures, pump, media, run, error, stop, bound, user>>

Tells(r) ==
    /\ reader[r].at \in {"send", "cancel"}
    /\ IF reader[r].at = "send"
       THEN failures' = Append(failures, reader[r].err) /\ UNCHANGED pump
       ELSE pump' = [pump EXCEPT !.cancelled = TRUE] /\ UNCHANGED failures
    /\ Become(r, IF reader[r].at = FailureSteps[1] THEN FailureSteps[2] ELSE "done",
              reader[r].err)
    /\ UNCHANGED <<start, pipeline, bus, media, run, error, stop, bound, user>>

-----------------------------------------------------------------------------
(* Start. *)

Opens ==
    /\ start.at = "new"
    /\ \/ start' = [start EXCEPT !.at = "failed"] /\ UNCHANGED <<pipeline, reader>>
       \/ /\ ~start.cancelled /\ pipeline' = "playing"
          /\ \/ start' = [start EXCEPT !.at = "closing"] /\ UNCHANGED reader \* wrong sinks
             \/ start' = [start EXCEPT !.at = "reading"] /\ Become("open", "read", "")
    /\ UNCHANGED <<bus, failures, pump, media, run, error, stop, bound, user>>

(* A first packet of each sink, whose caps give its clock, within 5 s. *)
FirstPacket ==
    /\ start.at = "reading"
    /\ \/ /\ reader["open"].at = "got"
          /\ \E s \in start.left :
                /\ start.cancelled => start.left # {s}
                /\ start' = [start EXCEPT !.left = @ \ {s},
                                          !.at = IF start.left = {s} THEN "dialing" ELSE @]
                /\ Become("open", IF start.left = {s} THEN "done" ELSE "read", "")
       \/ /\ reader["open"].at \in {"got", "failed"}
          /\ start' = [start EXCEPT !.at = "closing"] /\ Become("open", "done", "")
    /\ UNCHANGED <<pipeline, bus, failures, pump, media, run, error, stop, bound, user>>

(* Dial and the started message; then pump and run are on their way. *)
Dials ==
    /\ start.at = "dialing"
    /\ \/ start' = [start EXCEPT !.at = "closing"] /\ UNCHANGED <<pump, reader>>
       \/ /\ start' = [start EXCEPT !.at = "started"]
          /\ pump' = [pump EXCEPT !.at = "joining"]
          /\ reader' = [r \in Reader |->
                          IF r \in Sink THEN [at |-> "top", err |-> ""] ELSE reader[r]]
    /\ UNCHANGED <<pipeline, bus, failures, media, run, error, stop, bound, user>>

StartCloses ==
    /\ start.at = "closing"
    /\ pipeline' = Freed
    /\ start' = [start EXCEPT !.at = "failed"]
    /\ UNCHANGED <<bus, reader, failures, pump, media, run, error, stop, bound, user>>

-----------------------------------------------------------------------------
(* The end of pump, and of the goroutine that Start put it on. *)

Joined == \A s \in Sink : reader[s].at = "done"

PumpReturns ==
    /\ pump.at = "joining" /\ Joined
    /\ pump' = [pump EXCEPT !.at = "returned",
                            !.err = IF failures # <<>> THEN Head(failures)
                                    ELSE IF media \/ pump.cancelled THEN "cancelled" ELSE ""]
    /\ UNCHANGED <<start, pipeline, bus, reader, failures, media, run, error, stop, bound, user>>

RunGoesOn == run \* the bug: the session is not cancelled
RunCancelled == run \/ (~media /\ pump.err # "")
PumpChecked ==
    /\ pump.at = "returned"
    /\ pump' = [pump EXCEPT !.at = "done"]
    /\ error' = IF ~media THEN pump.err ELSE error
    /\ run' = RunCancelled
    /\ media' = (media \/ run')
    /\ UNCHANGED <<start, pipeline, bus, reader, failures, stop, bound, user>>

(* stopMedia, by Stop or by run's deferred function: once. *)
StopsMedia ==
    /\ start.at = "started" /\ stop = "no"
    /\ media' = TRUE /\ stop' = "waiting"
    /\ UNCHANGED <<start, pipeline, bus, reader, failures, pump, run, error, bound, user>>

DoneUnheard == TRUE \* the bug: mediaDone is not waited for
MediaDone == pump.at = "done"
ClosesMedia ==
    /\ stop = "waiting" /\ MediaDone /\ user.at # "using"
    /\ stop' = "closed" /\ pipeline' = Freed
    /\ UNCHANGED <<start, bus, reader, failures, pump, media, run, error, bound, user>>

-----------------------------------------------------------------------------
(* Peers change the bitrate and report the clock as long as they exist. *)

Locks ==
    /\ start.at = "started" /\ user.at # "using" /\ stop # "closed"
    /\ user' = [NoUser EXCEPT !.at = "using"]
    /\ UNCHANGED <<start, pipeline, bus, reader, failures, pump, media, run, error, stop, bound>>

BindsStream(s) ==
    /\ start.at = "started" /\ bound' = (IF s \in bound THEN bound \ {s} ELSE bound \cup {s})
    /\ UNCHANGED <<start, pipeline, bus, reader, failures, pump, media, run, error, stop, user>>

(* BindRTCPWriter: scale in 64 bits, then reduce to 32. *)
ScaledAtOnce(s, running) == ((running * Rate[s]) % Long) \div Second \* the bug: overflow
Scaled(s, running) ==
    LET whole == ((running \div Second) * Rate[s]) % Long
        part == ((running % Second) * Rate[s]) % Long IN
    (whole + (part \div Second)) % Long
RTPTime(s, running) == (Offset[s] + (Scaled(s, running) % Word)) % Word

Uses ==
    /\ user.at = "using"
    /\ \/ user' = NoUser \* bitrate, or a report that is left out
       \/ \E s \in bound, t \in Running :
             user' = [at |-> "reported", sink |-> s, running |-> t, time |-> RTPTime(s, t)]
    /\ UNCHANGED <<start, pipeline, bus, reader, failures, pump, media, run, error, stop, bound>>

BusPosts ==
    /\ pipeline = "playing" /\ ~bus.pending /\ ~bus.kept
    /\ bus' = [bus EXCEPT !.pending = TRUE]
    /\ UNCHANGED <<start, pipeline, reader, failures, pump, media, run, error, stop, bound, user>>

(* The caller's context or the timeout. *)
StartCancelled ==
    /\ start.at \in {"new", "reading"} /\ ~start.cancelled
    /\ start' = [start EXCEPT !.cancelled = TRUE]
    /\ UNCHANGED <<pipeline, bus, reader, failures, pump, media, run, error, stop, bound, user>>

-----------------------------------------------------------------------------
Read(r) == ChecksContext(r) \/ ChecksBus(r) \/ Pulls(r) \/ Writes(r) \/ Tells(r)
Starting == Opens \/ FirstPacket \/ Dials \/ StartCloses
Pumping == PumpReturns \/ PumpChecked
Using == Locks \/ Uses \/ \E s \in Sink : BindsStream(s)
Environment == BusPosts \/ StartCancelled
Next == (\E r \in Reader : Read(r)) \/ Starting \/ Pumping
        \/ StopsMedia \/ ClosesMedia \/ Using \/ Environment
Spec == Init /\ [][Next]_vars

(* A pull takes at most 100 ms, dialing 15 s; a cancelled run stops media;  *)
(* the mutex does not starve close.                                         *)
Fairness ==
    /\ \A r \in Reader : WF_vars(Read(r))
    /\ WF_vars(Starting) /\ WF_vars(Pumping) /\ WF_vars(Uses)
    /\ WF_vars(run /\ StopsMedia) /\ SF_vars(ClosesMedia)
FairSpec == Spec /\ Fairness

-----------------------------------------------------------------------------
(* The error that ends the session is a failure of the capture, and a capture *)
(* that fails while nobody stops it has one: the cancellation that follows    *)
(* the first failure is never reported in its place.                          *)
ErrorKept ==
    /\ error # "cancelled"
    /\ pump.at = "done" => (error = "capture" <=> run) /\ (error = "" => media)

(* No goroutine is inside GStreamer with a pipeline or a sink that was freed, *)
(* and they are freed once, whichever of openCapture, Start, run and Stop     *)
(* does it.                                                                   *)
NoUseAfterClose ==
    /\ pipeline # "broken"
    /\ (user.at = "using" \/ \E r \in Reader : reader[r].at \in {"bus", "pull"})
          => pipeline = "playing"

(* Sender reports carry the exact RTP time of the running time, modulo 2^32,  *)
(* for every running time a clock can show.                                   *)
ReportsExact ==
    user.at = "reported" =>
        user.time =
            (Offset[user.sink] + ((user.running * Rate[user.sink]) \div Second)) % Word

(* An error on the bus, a failed reader, a failed or cancelled Start and a    *)
(* Stop each lead to the end of every reader and to a closed pipeline.        *)
CaptureCloses ==
    (\/ bus.pending \/ stop # "no" \/ start.at = "closing"
     \/ start.at = "reading" /\ start.cancelled
     \/ \E r \in Reader : reader[r].err # "")
      ~> (pipeline # "playing" /\ \A s \in Sink : reader[s].at \in {"none", "done"})
=============================================================================
