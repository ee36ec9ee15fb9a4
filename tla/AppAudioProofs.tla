---------------------------- MODULE AppAudioProofs ----------------------------
(* What holds of an application's sound for any size of the ring, any        *)
(* packets and any number of shares, with proofs checked by TLAPS.           *)
EXTENDS AppAudio, TLAPS

-----------------------------------------------------------------------------
(* The invariant, in parts. *)

Sound == Frame \cup {NoFrame}
SharePage == [run : 0..MaxRuns, runs : 0..MaxRuns, chosen : 0..MaxProcesses,
              call : {"none", "start", "stop"}, owes : BOOLEAN]
AppState == [set : BOOLEAN, cancelled : BOOLEAN, mu : {"free", "start", "failed", "stop"}]
CaptureState ==
    [at : {"none", "open", "activating", "setup", "looking", "reading", "over", "done"},
     run : 0..MaxRuns, of : 0..MaxProcesses, n : 0..MaxFrames,
     ready : {"", "ok", "failed"}, error : BOOLEAN]
ComState == [held : BOOLEAN, result : {"none", "ok", "failed"}, refs : 0..2, rooted : BOOLEAN]
Samples == [0..(Cap - 1) -> Sound]

ControlTyped ==
    /\ process \in [now : 1..MaxProcesses, alive : BOOLEAN]
    /\ page \in SharePage /\ app \in AppState /\ capture \in CaptureState /\ com \in ComState

(* A call of the page that is in App holds mu; a capture is App's until its  *)
(* goroutine is done; and it is left on only for a share that is there or    *)
(* whose StopAudio is to come.                                               *)
Calling ==
    /\ app.mu \in {"start", "failed"} => page.call = "start" /\ app.set
    /\ app.mu = "stop" => page.call = "stop" /\ app.set /\ app.cancelled
    /\ app.mu = "free" /\ page.call = "start" => ~app.set
    /\ page.call = "start" => page.run # 0 \/ page.owes
    /\ ~app.set => capture.at \in {"none", "done"}
    /\ app.set /\ app.mu = "free" => page.run # 0 \/ page.owes \/ page.call = "stop"

(* References are those of COM and of the goroutine that waits.              *)
Refer(x) == IF x THEN 1 ELSE 0
Rooted == /\ com.refs = Refer(com.held) + Refer(capture.at = "activating")
          /\ com.rooted <=> com.refs # 0

(* Runs are numbered; the capture is that of the last run or of one before,  *)
(* and it is of the process that its run chose.                              *)
Capturer == capture.at \in {"activating", "setup", "looking", "reading"}
Numbered ==
    /\ page.run \in {0, page.runs} /\ capture.run <= page.runs
    /\ app.mu = "free" /\ page.call = "start" => capture.run < page.runs
    /\ capture.at # "none" => capture.run # 0
    /\ page.run # 0 => page.chosen # 0
    /\ Capturer => capture.of # 0
    /\ Capturer /\ capture.run = page.run => capture.of = page.chosen
    /\ page.call = "start" => page.runs # 0
ControlInv == ControlTyped /\ Calling /\ Rooted /\ Numbered

(* What share run, of process of, has still to hear after the frame number   *)
(* last: the frames in the ring R, then those of its events ev on their way, *)
(* then those past top, which its capture has still to deliver.              *)
RingState == [samples : Samples, read : 0..(Cap - 1), length : 0..Cap, playing : BOOLEAN]
Slot(R, j) == R.samples[(R.read + j) % Cap]
Ordered(s, run, of, last) ==
    /\ \A i \in 1..Len(s) : s[i].run = run /\ s[i].of = of /\ last < s[i].n
    /\ \A i, j \in 1..Len(s) : i < j => s[i].n < s[j].n
Buffered(R, run, of, last, top) ==
    /\ \A j \in 0..(R.length - 1) : /\ Slot(R, j).run = run /\ Slot(R, j).of = of
                                    /\ last < Slot(R, j).n /\ Slot(R, j).n <= top
    /\ \A i, j \in 0..(R.length - 1) : i < j => Slot(R, i).n < Slot(R, j).n
Coming(ev, run, of, last, top) ==
    \A i \in 1..Len(ev) : ev[i].run = run =>
        /\ Ordered(ev[i].frames, run, of, last)
        /\ \A k \in 1..Len(ev[i].frames) : ev[i].frames[k].n <= top
Behind(R, ev, run) ==
    \A i \in 1..Len(ev) : ev[i].run = run =>
        \A k \in 1..Len(ev[i].frames), j \in 0..(R.length - 1) :
            Slot(R, j).n < ev[i].frames[k].n
InTurn(ev, run) ==
    \A i, j \in 1..Len(ev) : ev[i].run = run /\ ev[j].run = run /\ i < j =>
        \A k \in 1..Len(ev[i].frames), l \in 1..Len(ev[j].frames) :
            ev[i].frames[k].n < ev[j].frames[l].n
Flows(R, ev, run, of, last, top) ==
    /\ last <= top /\ Buffered(R, run, of, last, top) /\ Coming(ev, run, of, last, top)
    /\ Behind(R, ev, run) /\ InTurn(ev, run)

SoundTyped == /\ events \in Seq(Message) /\ ring \in RingState
              /\ heard \in Seq(Sound) /\ Len(heard) # 0

(* A share whose capture has not begun has heard and is to hear nothing.     *)
Final == heard[Len(heard)]
Unheard == ring.length = 0 /\ Final.n = 0 /\ \A i \in 1..Len(events) : events[i].run # page.run
Playing == page.run # 0 =>
    /\ Flows(ring, events, page.run, page.chosen, Final.n, capture.n)
    /\ capture.run # page.run => Unheard
Away == /\ page.run = 0 => heard = <<NoFrame>>
        /\ \A i \in 1..Len(events) : events[i].run <= page.runs
SoundInv == SoundTyped /\ Playing /\ Away /\ SoundInOrder
AudioInv == ControlInv /\ SoundInv

-----------------------------------------------------------------------------
(* The calls, the capture and its references. *)

LEMMA Bounds == /\ Cap \in Nat \ {0} /\ Threshold \in Nat \ {0} /\ Quantum \in Nat \ {0}
                /\ MaxFrames \in Nat /\ MaxRuns \in Nat /\ MaxProcesses \in Nat \ {0}
                /\ MaxQueue \in Nat /\ Packets \subseteq Nat \ {0} /\ Threshold <= Cap
  BY RingAssumption

LEMMA Zero == /\ 0 \in 0..MaxRuns /\ 0 \in 0..MaxProcesses /\ 0 \in 0..MaxFrames
              /\ 1 \in 1..MaxProcesses /\ 0 \in 0..Cap /\ 0 \in 0..(Cap - 1)
  BY Bounds

LEMMA ControlInit == Init => ControlInv
<1> SUFFICES ASSUME Init PROVE ControlInv
  OBVIOUS
<1>1. ControlTyped
  <2>1. process \in [now : 1..MaxProcesses, alive : BOOLEAN]
    BY Zero DEF Init
  <2>2. page \in SharePage /\ app \in AppState
    BY Zero DEF Init, SharePage, AppState
  <2>3. capture \in CaptureState
    BY Zero DEF Init, CaptureState, NoCapture
  <2>4. com \in ComState
    BY DEF Init, ComState, NoActivation
  <2> QED  BY <2>1, <2>2, <2>3, <2>4 DEF ControlTyped
<1>2. Calling /\ Rooted /\ Numbered
  <2>1. /\ page = [run |-> 0, runs |-> 0, chosen |-> 0, call |-> "none", owes |-> FALSE]
        /\ app = [set |-> FALSE, cancelled |-> FALSE, mu |-> "free"]
        /\ capture.at = "none" /\ capture.run = 0
        /\ com.held = FALSE /\ com.refs = 0 /\ com.rooted = FALSE
    BY DEF Init, NoCapture, NoActivation
  <2>2. Calling /\ Numbered
    BY <2>1 DEF Calling, Numbered, Capturer
  <2>3. Rooted
    BY <2>1 DEF Rooted, Refer
  <2> QED  BY <2>2, <2>3
<1> QED  BY <1>1, <1>2 DEF ControlInv

(* What each action does to the page, App, the capture and the activation.   *)
LEMMA PageControl ==
    ASSUME ControlInv, PageStarts \/ PageStops \/ CallsStop \/ PageHandles
    PROVE  ControlInv'
<1>0. /\ ControlTyped /\ Calling /\ Rooted /\ Numbered
      /\ process' = process /\ app' = app /\ capture' = capture /\ com' = com
  BY DEF ControlInv, PageStarts, PageStops, CallsStop, PageHandles
<1>1. CASE PageStarts
  <2>1. PICK p \in 1..process.now :
           page' = [page EXCEPT !.run = page.runs + 1, !.runs = page.runs + 1, !.chosen = p,
                                !.call = "start"]
    BY <1>1 DEF PageStarts
  <2>2. page.run = 0 /\ page.call = "none" /\ ~page.owes /\ page.runs < MaxRuns
    BY <1>1 DEF PageStarts
  <2>3. page \in SharePage /\ process.now \in 1..MaxProcesses /\ page.runs \in 0..MaxRuns
    BY <1>0 DEF ControlTyped, SharePage
  <2>4. /\ page' \in SharePage /\ page'.run = page.runs + 1 /\ page'.runs = page.runs + 1
        /\ page'.chosen = p /\ page'.call = "start" /\ page'.owes = FALSE
    <3>1. page.runs + 1 \in 0..MaxRuns /\ p \in 0..MaxProcesses
      BY <2>2, <2>3, Bounds
    <3> QED  BY <2>1, <2>2, <2>3, <3>1 DEF SharePage
  <2>5. capture \in CaptureState /\ capture.run \in 0..MaxRuns /\ app \in AppState
    BY <1>0 DEF ControlTyped, CaptureState
  <2>6. ~app.set /\ app.mu = "free"
    BY <1>0, <2>2, <2>5 DEF Calling, AppState
  <2>7. ControlTyped'
    BY <1>0, <2>4 DEF ControlTyped
  <2>8. Calling' /\ Rooted'
    BY <1>0, <2>3, <2>4, <2>6 DEF Calling, Rooted
  <2>9. Numbered'
    BY <1>0, <2>2, <2>3, <2>4, <2>5, <2>6 DEF Numbered, Capturer, Calling
  <2> QED  BY <2>7, <2>8, <2>9 DEF ControlInv
<1>2. ASSUME page.run # 0, page' = Stopped PROVE ControlInv'
  <2>1. page \in SharePage
    BY <1>0 DEF ControlTyped
  <2>2. /\ page' \in SharePage /\ page'.run = 0 /\ page'.runs = page.runs
        /\ page'.chosen = page.chosen /\ page'.call = page.call /\ page'.owes = TRUE
    <3>1. page' = [page EXCEPT !.run = 0, !.owes = TRUE]
      BY <1>2 DEF Stopped
    <3> QED  BY <2>1, <3>1, Zero DEF SharePage
  <2>3. ControlTyped'
    BY <1>0, <2>2 DEF ControlTyped
  <2>4. Calling' /\ Rooted'
    BY <1>0, <2>2 DEF Calling, Rooted
  <2>5. Numbered'
    BY <1>0, <2>2 DEF Numbered, Capturer
  <2> QED  BY <2>3, <2>4, <2>5 DEF ControlInv
<1>3. CASE CallsStop
  <2>1. /\ page' = [page EXCEPT !.call = "stop", !.owes = FALSE] /\ page \in SharePage
        /\ page.call = "none"
    BY <1>0, <1>3 DEF CallsStop, ControlTyped
  <2>2. /\ page' \in SharePage /\ page'.run = page.run /\ page'.runs = page.runs
        /\ page'.chosen = page.chosen /\ page'.call = "stop" /\ page'.owes = FALSE
    BY <2>1 DEF SharePage
  <2>3. ControlTyped'
    BY <1>0, <2>2 DEF ControlTyped
  <2>4. app.mu = "free"
    BY <1>0, <2>1 DEF Calling, ControlTyped, AppState
  <2>5. Calling' /\ Rooted'
    BY <1>0, <2>2, <2>4 DEF Calling, Rooted
  <2>6. Numbered'
    BY <1>0, <2>2 DEF Numbered, Capturer
  <2> QED  BY <2>3, <2>5, <2>6 DEF ControlInv
<1>4. CASE page' = page
  BY <1>0, <1>4 DEF ControlInv, ControlTyped, Calling, Rooted, Numbered, Capturer
<1>5. CASE PageStops
  BY <1>2, <1>5 DEF PageStops
<1>6. CASE PageHandles
  BY <1>2, <1>4, <1>6 DEF PageHandles, Current
<1> QED  BY <1>1, <1>3, <1>5, <1>6

LEMMA CallControl ==
    ASSUME ControlInv, StartAudio \/ StartReady \/ StartFails \/ StopAudio \/ StopReturns
    PROVE  ControlInv'
<1>0. /\ ControlTyped /\ Calling /\ Rooted /\ Numbered
      /\ process' = process /\ com' = com
      /\ page \in SharePage /\ app \in AppState /\ capture \in CaptureState
  BY DEF ControlInv, ControlTyped, StartAudio, StartReady, StartFails, StopAudio, StopReturns
<1>1. Replies => /\ page' \in SharePage /\ page'.run = page.run /\ page'.runs = page.runs
                 /\ page'.chosen = page.chosen /\ page'.call = "none" /\ page'.owes = page.owes
  BY <1>0 DEF Replies, SharePage
<1>2. Rejects => /\ page' \in SharePage /\ page'.run = 0 /\ page'.runs = page.runs
                 /\ page'.chosen = page.chosen /\ page'.call = "none"
                 /\ page.run # 0 => page'.owes = TRUE
                 /\ page.run = 0 => page'.owes = page.owes
  <2> SUFFICES ASSUME Rejects
               PROVE  /\ page' \in SharePage /\ page'.run = 0 /\ page'.runs = page.runs
                      /\ page'.chosen = page.chosen /\ page'.call = "none"
                      /\ page.run # 0 => page'.owes = TRUE
                      /\ page.run = 0 => page'.owes = page.owes
    OBVIOUS
  <2>1. CASE page.run # 0
    <3>1. page' = [page EXCEPT !.run = 0, !.owes = TRUE, !.call = "none"]
      BY <2>1 DEF Rejects, Stopped
    <3> QED  BY <1>0, <2>1, <3>1, Zero DEF SharePage
  <2>2. CASE page.run = 0
    <3>1. page' = [page EXCEPT !.call = "none"]
      BY <2>2 DEF Rejects
    <3> QED  BY <1>0, <2>2, <3>1 DEF SharePage
  <2> QED  BY <2>1, <2>2
<1>3. CASE StartAudio
  <2>1. ~app.set /\ app.mu = "free" /\ page.call = "start"
    BY <1>0, <1>3 DEF StartAudio, Calling
  <2>2. /\ app' = [set |-> TRUE, cancelled |-> FALSE, mu |-> "start"]
        /\ capture' = [at |-> "open", run |-> page.runs, of |-> 0, n |-> 0, ready |-> "",
                       error |-> FALSE]
        /\ page' = page
    <3>1. app' = [set |-> TRUE, cancelled |-> FALSE, mu |-> "start"] /\ page' = page
      BY <1>3, <2>1 DEF StartAudio
    <3>2. capture' = [NoCapture EXCEPT !.at = "open", !.run = page.runs]
      BY <1>3, <2>1 DEF StartAudio
    <3> QED  BY <3>1, <3>2 DEF NoCapture
  <2>3. ControlTyped'
    <3>1. page.runs \in 0..MaxRuns
      BY <1>0 DEF SharePage
    <3>2. app' \in AppState /\ capture' \in CaptureState
      BY <2>2, <3>1, Zero DEF AppState, CaptureState
    <3> QED  BY <1>0, <2>2, <3>2 DEF ControlTyped
  <2>4. Calling'
    BY <1>0, <2>1, <2>2 DEF Calling
  <2>5. Rooted'
    BY <1>0, <2>1, <2>2 DEF Rooted, Refer, Calling
  <2>6. Numbered'
    <3>1. page.runs \in 0..MaxRuns
      BY <1>0 DEF SharePage
    <3>2. ~Capturer' /\ capture'.run = page.runs /\ capture'.at = "open" /\ app'.mu = "start"
      BY <2>2 DEF Capturer
    <3>3. page.runs # 0 /\ page.run \in {0, page.runs} /\ (page.run # 0 => page.chosen # 0)
      BY <1>0, <2>1 DEF Numbered
    <3>4. page.runs <= page.runs
      BY <3>1, Bounds
    <3> QED  BY <2>2, <3>2, <3>3, <3>4 DEF Numbered
  <2> QED  BY <2>3, <2>4, <2>5, <2>6 DEF ControlInv
<1>4. CASE StartReady
  <2>0. app.mu = "start" /\ capture' = capture /\ app.set /\ page.call = "start"
    BY <1>0, <1>4 DEF StartReady, Calling
  <2>1. CASE app' = [app EXCEPT !.mu = "free"] /\ Replies
    <3>1. app' \in AppState /\ app'.mu = "free" /\ app'.set = app.set
      BY <1>0, <2>1 DEF AppState
    <3>2. ControlTyped'
      BY <1>0, <1>1, <2>0, <2>1, <3>1 DEF ControlTyped
    <3>3. Calling' /\ Rooted'
      BY <1>0, <1>1, <2>0, <2>1, <3>1 DEF Calling, Rooted
    <3>4. Numbered'
      BY <1>0, <1>1, <2>0, <2>1, <3>1 DEF Numbered, Capturer
    <3> QED  BY <3>2, <3>3, <3>4 DEF ControlInv
  <2>2. CASE app' = [app EXCEPT !.mu = "failed", !.cancelled = TRUE] /\ page' = page
    <3>1. app' \in AppState /\ app'.mu = "failed" /\ app'.set = app.set
      BY <1>0, <2>2 DEF AppState
    <3>2. ControlTyped'
      BY <1>0, <2>0, <2>2, <3>1 DEF ControlTyped
    <3>3. Calling' /\ Rooted'
      BY <1>0, <2>0, <2>2, <3>1 DEF Calling, Rooted
    <3>4. Numbered'
      BY <1>0, <2>0, <2>2, <3>1 DEF Numbered, Capturer
    <3> QED  BY <3>2, <3>3, <3>4 DEF ControlInv
  <2> QED  BY <1>4, <2>1, <2>2 DEF StartReady
<1>5. CASE StartFails
  <2>1. /\ app' = [app EXCEPT !.mu = "free", !.set = FALSE] /\ Rejects /\ capture' = capture
        /\ capture.at = "done"
    BY <1>5 DEF StartFails
  <2>2. app' \in AppState /\ app'.mu = "free" /\ app'.set = FALSE
    BY <1>0, <2>1 DEF AppState
  <2>3. ControlTyped'
    BY <1>0, <1>2, <2>1, <2>2 DEF ControlTyped
  <2>4. Calling' /\ Rooted'
    BY <1>0, <1>2, <2>1, <2>2 DEF Calling, Rooted
  <2>5. Numbered'
    BY <1>0, <1>2, <2>1, <2>2 DEF Numbered, Capturer
  <2> QED  BY <2>3, <2>4, <2>5 DEF ControlInv
<1>6. CASE StopAudio
  <2>0. app.mu = "free" /\ capture' = capture /\ page.call = "stop"
    BY <1>6 DEF StopAudio
  <2>1. CASE app.set /\ app' = [app EXCEPT !.cancelled = TRUE, !.mu = "stop"] /\ page' = page
    <3>1. app' \in AppState /\ app'.mu = "stop" /\ app'.set = app.set /\ app'.cancelled = TRUE
      BY <1>0, <2>1 DEF AppState
    <3>2. ControlTyped'
      BY <1>0, <2>0, <2>1, <3>1 DEF ControlTyped
    <3>3. Calling' /\ Rooted'
      BY <1>0, <2>0, <2>1, <3>1 DEF Calling, Rooted
    <3>4. Numbered'
      BY <1>0, <2>0, <2>1, <3>1 DEF Numbered, Capturer
    <3> QED  BY <3>2, <3>3, <3>4 DEF ControlInv
  <2>2. CASE ~app.set /\ Replies /\ app' = app
    <3>1. ControlTyped'
      BY <1>0, <1>1, <2>0, <2>2 DEF ControlTyped
    <3>2. Calling' /\ Rooted'
      BY <1>0, <1>1, <2>0, <2>2 DEF Calling, Rooted
    <3>3. Numbered'
      BY <1>0, <1>1, <2>0, <2>2 DEF Numbered, Capturer
    <3> QED  BY <3>1, <3>2, <3>3 DEF ControlInv
  <2> QED  BY <1>6, <2>1, <2>2 DEF StopAudio
<1>7. CASE StopReturns
  <2>1. /\ app' = [app EXCEPT !.mu = "free", !.set = FALSE] /\ Replies /\ capture' = capture
        /\ capture.at = "done"
    BY <1>7 DEF StopReturns, Joined
  <2>2. app' \in AppState /\ app'.mu = "free" /\ app'.set = FALSE
    BY <1>0, <2>1 DEF AppState
  <2>3. ControlTyped'
    BY <1>0, <1>1, <2>1, <2>2 DEF ControlTyped
  <2>4. Calling' /\ Rooted'
    BY <1>0, <1>1, <2>1, <2>2 DEF Calling, Rooted
  <2>5. Numbered'
    BY <1>0, <1>1, <2>1, <2>2 DEF Numbered, Capturer
  <2> QED  BY <2>3, <2>4, <2>5 DEF ControlInv
<1> QED  BY <1>3, <1>4, <1>5, <1>6, <1>7

(* The capture and the goroutine around it.  Nothing of the page or of App   *)
(* changes, and only Opens gives the capture its process.                    *)
LEMMA CapturingControl ==
    ASSUME ControlInv, Capturing \/ Emits
    PROVE  ControlInv'
<1>0. /\ ControlTyped /\ Calling /\ Rooted /\ Numbered
      /\ process' = process /\ page' = page /\ app' = app
  BY DEF ControlInv, Capturing, Opens, Activated, SetsUp, Looks, HasRead, Breaks,
         Finishes, Emits
<1>1. /\ process \in [now : 1..MaxProcesses, alive : BOOLEAN] /\ page \in SharePage
      /\ app \in AppState /\ capture \in CaptureState /\ com \in ComState
  BY <1>0 DEF ControlTyped
<1>2. capture.at \notin {"none", "done"} => app.set
  BY <1>0 DEF Calling
<1>3. ASSUME capture' \in CaptureState, com' \in ComState, Rooted',
             capture.at \notin {"none", "done"}, capture'.at # "none",
             capture'.run = capture.run,
             Capturer' => /\ capture'.of # 0
                          /\ capture'.run = page.run => capture'.of = page.chosen
      PROVE  ControlInv'
  <2>1. ControlTyped'
    BY <1>0, <1>1, <1>3 DEF ControlTyped
  <2>2. Calling'
    BY <1>0, <1>2, <1>3 DEF Calling
  <2>3. Numbered'
    <3>1. capture.run # 0
      BY <1>0, <1>3 DEF Numbered
    <3> QED  BY <1>0, <1>3, <3>1 DEF Numbered
  <2> QED  BY <1>3, <2>1, <2>2, <2>3 DEF ControlInv
<1>4. \A e \in BOOLEAN : Ends(e) =>
         /\ capture' \in CaptureState /\ capture'.at = "over" /\ capture'.run = capture.run
         /\ ~Capturer'
  <2> SUFFICES ASSUME NEW e \in BOOLEAN, Ends(e)
               PROVE  /\ capture' \in CaptureState /\ capture'.at = "over"
                      /\ capture'.run = capture.run /\ ~Capturer'
    OBVIOUS
  <2>1. capture' = [capture EXCEPT !.at = "over", !.error = e]
    BY DEF Ends
  <2>2. /\ capture' \in CaptureState /\ capture'.at = "over" /\ capture'.run = capture.run
    BY <1>1, <2>1 DEF CaptureState
  <2> QED  BY <2>2 DEF Capturer
<1>5. CASE Opens
  <2>0. capture.at = "open"
    BY <1>5 DEF Opens
  <2>1. CASE /\ SameProcess(page.chosen)
             /\ capture' = [capture EXCEPT !.at = "activating", !.of = process.now]
             /\ com' = [held |-> TRUE, result |-> "none", refs |-> 2, rooted |-> TRUE]
    <3>1. process.now \in 1..MaxProcesses /\ process.now = page.chosen
      BY <1>1, <2>1 DEF SameProcess
    <3>2. process.now \in 0..MaxProcesses /\ process.now # 0
      BY <3>1, Bounds
    <3>3. /\ capture' \in CaptureState /\ capture'.at = "activating"
          /\ capture'.run = capture.run /\ capture'.of = process.now
      BY <1>1, <2>1, <3>2 DEF CaptureState
    <3>4. com' \in ComState /\ com'.held = TRUE /\ com'.refs = 2 /\ com'.rooted = TRUE
      BY <2>1 DEF ComState
    <3>5. Rooted'
      BY <3>3, <3>4 DEF Rooted, Refer
    <3> QED  BY <1>3, <2>0, <3>1, <3>2, <3>3, <3>4, <3>5
  <2>2. CASE Ends(TRUE) /\ com' = com
    <3>1. /\ capture' \in CaptureState /\ capture'.at = "over"
          /\ capture'.run = capture.run /\ ~Capturer'
      BY <1>4, <2>2
    <3>2. Rooted'
      BY <1>0, <2>0, <2>2, <3>1 DEF Rooted, Refer
    <3> QED  BY <1>1, <1>3, <2>0, <2>2, <3>1, <3>2
  <2> QED  BY <1>5, <2>1, <2>2 DEF Opens
<1>6. CASE Activated
  <2>0. capture.at = "activating" /\ com' = Drops
    BY <1>6 DEF Activated
  <2>1. com.refs = Refer(com.held) + 1 /\ com.refs \in {1, 2} /\ com.held \in BOOLEAN
    BY <1>0, <1>1, <2>0 DEF Rooted, Refer, ComState
  <2>2. /\ com' \in ComState /\ com'.held = com.held /\ com'.refs = Refer(com.held)
        /\ com'.rooted = (com.refs # 1)
    <3>1. com' = [com EXCEPT !.refs = com.refs - 1, !.rooted = (com.refs # 1)]
      BY <2>0 DEF Drops
    <3>2. com.refs - 1 = Refer(com.held) /\ com.refs - 1 \in 0..2
      BY <2>1 DEF Refer
    <3> QED  BY <1>1, <3>1, <3>2 DEF ComState
  <2>3. /\ capture' \in CaptureState /\ capture'.at \in {"setup", "over"}
        /\ capture'.run = capture.run /\ (Capturer' => capture'.of = capture.of)
    <3>1. CASE capture' = [capture EXCEPT !.at = "setup"]
      BY <1>1, <3>1 DEF CaptureState
    <3>2. CASE Ends(TRUE)
      BY <1>4, <3>2
    <3> QED  BY <1>6, <3>1, <3>2 DEF Activated
  <2>4. Rooted'
    BY <2>1, <2>2, <2>3 DEF Rooted, Refer
  <2>5. /\ capture.of # 0
        /\ capture.run = page.run => capture.of = page.chosen
    BY <1>0, <2>0 DEF Numbered, Capturer
  <2> QED  BY <1>3, <2>0, <2>2, <2>3, <2>4, <2>5
<1>7. CASE SetsUp
  <2>0. capture.at = "setup" /\ com' = com
    BY <1>7 DEF SetsUp
  <2>1. /\ capture' \in CaptureState /\ capture'.at \in {"looking", "over"}
        /\ capture'.run = capture.run /\ (Capturer' => capture'.of = capture.of)
    <3>1. CASE capture' = [capture EXCEPT !.at = "looking", !.ready = "ok"]
      BY <1>1, <3>1 DEF CaptureState
    <3>2. CASE Ends(TRUE)
      BY <1>4, <3>2
    <3> QED  BY <1>7, <3>1, <3>2 DEF SetsUp
  <2>2. Rooted'
    BY <1>0, <2>0, <2>1 DEF Rooted, Refer
  <2>3. /\ capture.of # 0
        /\ capture.run = page.run => capture.of = page.chosen
    BY <1>0, <2>0 DEF Numbered, Capturer
  <2> QED  BY <1>1, <1>3, <2>0, <2>1, <2>2, <2>3
<1>8. CASE Looks \/ HasRead \/ Breaks
  <2>1. capture.at \in {"looking", "reading"} /\ com' = com
    BY <1>8 DEF Looks, HasRead, Breaks
  <2>2. /\ capture' \in CaptureState /\ capture'.at \in {"looking", "reading", "over"}
        /\ capture'.run = capture.run /\ (Capturer' => capture'.of = capture.of)
    <3>1. CASE \E at \in {"looking", "reading"} : capture' = [capture EXCEPT !.at = at]
      BY <1>1, <3>1 DEF CaptureState
    <3>2. CASE Ends(FALSE) \/ Ends(TRUE)
      BY <1>4, <3>2
    <3> QED  BY <1>8, <3>1, <3>2 DEF Looks, HasRead, Breaks
  <2>3. Rooted'
    BY <1>0, <2>1, <2>2 DEF Rooted, Refer
  <2>4. /\ capture.of # 0
        /\ capture.run = page.run => capture.of = page.chosen
    BY <1>0, <2>1 DEF Numbered, Capturer
  <2> QED  BY <1>1, <1>3, <2>1, <2>2, <2>3, <2>4
<1>9. CASE Finishes
  <2>1. capture.at = "over" /\ com' = com
    BY <1>9 DEF Finishes
  <2>2. PICK r \in {"", "ok", "failed"} : capture' = [capture EXCEPT !.at = "done", !.ready = r]
    <3>1. capture.ready \in {"", "ok", "failed"}
      BY <1>1 DEF CaptureState
    <3>2. (IF capture.ready = "" THEN "failed" ELSE capture.ready) \in {"", "ok", "failed"}
      BY <3>1
    <3> QED  BY <1>9, <3>2 DEF Finishes
  <2>3. /\ capture' \in CaptureState /\ capture'.at = "done" /\ capture'.run = capture.run
        /\ ~Capturer'
    BY <1>1, <2>2 DEF CaptureState, Capturer
  <2>4. Rooted'
    BY <1>0, <2>1, <2>3 DEF Rooted, Refer
  <2> QED  BY <1>1, <1>3, <2>1, <2>3, <2>4
<1>10. CASE Emits
  <2>1. PICK k \in Packets : /\ capture.n + k <= MaxFrames
                             /\ capture' = [capture EXCEPT !.n = capture.n + k]
    BY <1>10 DEF Emits
  <2>2. capture.at = "reading" /\ com' = com
    BY <1>10 DEF Emits
  <2>3. capture.n + k \in 0..MaxFrames
    <3>1. capture.n \in 0..MaxFrames
      BY <1>1 DEF CaptureState
    <3>2. k \in Nat \ {0} /\ MaxFrames \in Nat
      BY Bounds
    <3> QED  BY <2>1, <3>1, <3>2
  <2>4. /\ capture' \in CaptureState /\ capture'.at = "reading"
        /\ capture'.run = capture.run /\ capture'.of = capture.of
    BY <1>1, <2>1, <2>2, <2>3 DEF CaptureState
  <2>5. Rooted'
    BY <1>0, <2>2, <2>4 DEF Rooted, Refer
  <2>6. /\ capture.of # 0
        /\ capture.run = page.run => capture.of = page.chosen
    BY <1>0, <2>2 DEF Numbered, Capturer
  <2> QED  BY <1>1, <1>3, <2>2, <2>4, <2>5, <2>6
<1> QED  BY <1>5, <1>6, <1>7, <1>8, <1>9, <1>10 DEF Capturing

(* COM, the process and the worklet.                                         *)
LEMMA OtherControl ==
    ASSUME ControlInv, Activation \/ Plays \/ ProcessEnds \/ ProcessRestarts
    PROVE  ControlInv'
<1>0. /\ ControlTyped /\ Calling /\ Rooted /\ Numbered
      /\ page' = page /\ app' = app /\ capture' = capture
  BY DEF ControlInv, Activation, Completes, ComReleases, Plays, ProcessEnds, ProcessRestarts
<1>1. /\ process \in [now : 1..MaxProcesses, alive : BOOLEAN] /\ com \in ComState
      /\ capture \in CaptureState
  BY <1>0 DEF ControlTyped
<1>2. ASSUME process' \in [now : 1..MaxProcesses, alive : BOOLEAN], com' \in ComState, Rooted'
      PROVE  ControlInv'
  <2>1. ControlTyped'
    BY <1>0, <1>2 DEF ControlTyped
  <2>2. Calling' /\ Numbered'
    BY <1>0 DEF Calling, Numbered, Capturer
  <2> QED  BY <1>2, <2>1, <2>2 DEF ControlInv
<1>3. CASE Completes
  <2>1. PICK r \in {"ok", "failed"} : com' = [com EXCEPT !.result = r]
    BY <1>3 DEF Completes
  <2>2. /\ com' \in ComState /\ com'.held = com.held /\ com'.refs = com.refs
        /\ com'.rooted = com.rooted /\ process' = process
    BY <1>1, <1>3, <2>1 DEF ComState, Completes
  <2>3. Rooted'
    BY <1>0, <2>2 DEF Rooted, Refer
  <2> QED  BY <1>1, <1>2, <2>2, <2>3
<1>4. CASE ComReleases
  <2>1. /\ com.held = TRUE /\ process' = process
        /\ com' = [com EXCEPT !.refs = com.refs - 1, !.rooted = (com.refs # 1),
                              !.held = FALSE]
    <3>1. com' = [Drops EXCEPT !.held = FALSE]
      BY <1>4 DEF ComReleases
    <3>2. Drops = [com EXCEPT !.refs = com.refs - 1, !.rooted = (com.refs # 1)]
      BY DEF Drops
    <3>3. com.held = TRUE /\ process' = process
      BY <1>1, <1>4 DEF ComReleases, ComState
    <3> QED  BY <1>1, <3>1, <3>2, <3>3 DEF ComState
  <2>2. com.refs = 1 + Refer(capture.at = "activating") /\ com.refs \in {1, 2}
    BY <1>0, <1>1, <2>1 DEF Rooted, Refer, ComState
  <2>3. com.refs - 1 = Refer(capture.at = "activating") /\ com.refs - 1 \in 0..2
    BY <2>2 DEF Refer
  <2>4. /\ com' \in ComState /\ com'.held = FALSE
        /\ com'.refs = Refer(capture.at = "activating") /\ com'.rooted = (com.refs # 1)
    BY <1>1, <2>1, <2>3 DEF ComState
  <2>5. Rooted'
    <3>1. com'.rooted <=> com'.refs # 0
      <4>1. com.refs # 1 <=> com.refs - 1 # 0
        BY <2>2
      <4> QED  BY <2>3, <2>4, <4>1
    <3>2. com'.refs = Refer(com'.held) + Refer(capture'.at = "activating")
      BY <1>0, <2>4 DEF Refer
    <3> QED  BY <3>1, <3>2 DEF Rooted
  <2> QED  BY <1>1, <1>2, <2>1, <2>4, <2>5
<1>5. CASE Plays
  <2>1. process' = process /\ com' = com
    BY <1>5 DEF Plays
  <2>2. Rooted'
    BY <1>0, <2>1 DEF Rooted
  <2> QED  BY <1>1, <1>2, <2>1, <2>2
<1>6. CASE ProcessEnds
  <2>1. process' = [process EXCEPT !.alive = FALSE] /\ com' = com
    BY <1>6 DEF ProcessEnds
  <2>2. Rooted'
    BY <1>0, <2>1 DEF Rooted
  <2> QED  BY <1>1, <1>2, <2>1, <2>2
<1>7. CASE ProcessRestarts
  <2>1. /\ process' = [now |-> process.now + 1, alive |-> TRUE] /\ com' = com
        /\ process.now < MaxProcesses
    BY <1>7 DEF ProcessRestarts
  <2>2. process.now + 1 \in 1..MaxProcesses
    BY <1>1, <2>1, Bounds
  <2>3. Rooted'
    BY <1>0, <2>1 DEF Rooted
  <2> QED  BY <1>1, <1>2, <2>1, <2>2, <2>3
<1> QED  BY <1>3, <1>4, <1>5, <1>6, <1>7 DEF Activation

LEMMA ControlStep == ControlInv /\ [Next]_vars => ControlInv'
<1> SUFFICES ASSUME ControlInv, [Next]_vars PROVE ControlInv'
  OBVIOUS
<1>1. CASE PageStarts \/ PageStops \/ CallsStop \/ PageHandles
  BY <1>1, PageControl
<1>2. CASE StartAudio \/ StartReady \/ StartFails \/ StopAudio \/ StopReturns
  BY <1>2, CallControl
<1>3. CASE Capturing \/ Emits
  BY <1>3, CapturingControl
<1>4. CASE Activation \/ Plays \/ ProcessEnds \/ ProcessRestarts
  BY <1>4, OtherControl
<1>5. CASE UNCHANGED vars
  BY <1>5 DEF vars, ControlInv, ControlTyped, Calling, Rooted, Numbered, Capturer
<1> QED  BY <1>1, <1>2, <1>3, <1>4, <1>5 DEF Next, Page, Calls

(* Whatever the order of the page's calls, the replies of App and the end of *)
(* the capture, the control of a capture agrees between them.                *)
THEOREM ControlHolds == Spec => []ControlInv
<1>1. Init => ControlInv
  BY ControlInit
<1>2. ControlInv /\ [Next]_vars => ControlInv'
  BY ControlStep
<1> QED  BY <1>1, <1>2, PTL DEF Spec

(* Between shares no capture runs and App is ready for the next StartAudio;  *)
(* and COM's callback object is rooted exactly as long as COM or the         *)
(* goroutine that waits for it refers to it.                                 *)
THEOREM NothingLeft == Spec => []NothingCapturedBetween
<1>1. ControlInv => NothingCapturedBetween
  <2> SUFFICES ASSUME ControlInv PROVE NothingCapturedBetween
    OBVIOUS
  <2>0. ControlTyped /\ Calling /\ Rooted
    BY DEF ControlInv
  <2>1. page.run = 0 /\ page.call = "none" /\ ~page.owes =>
          ~app.set /\ capture.at \in {"none", "done"}
    <3>1. app.mu \in {"free", "start", "failed", "stop"}
      BY <2>0 DEF ControlTyped, AppState
    <3> QED  BY <2>0, <3>1 DEF Calling
  <2>2. /\ com.held => com.rooted
        /\ com.rooted => com.held \/ capture.at = "activating"
    BY <2>0 DEF Rooted, Refer
  <2> QED  BY <2>1, <2>2 DEF NothingCapturedBetween
<1> QED  BY <1>1, ControlHolds, PTL

-----------------------------------------------------------------------------
(* Places in the ring, and the frames in it and in the events. *)

(* How far round the ring a place lies, and which place a slot is.           *)
LEMMA Around ==
    ASSUME NEW c \in Nat \ {0}, NEW r \in 0..(c - 1), NEW j \in 0..c
    PROVE  /\ (r + j) % c = IF r + j < c THEN r + j ELSE r + j - c
           /\ (r + j) % c \in 0..(c - 1)
  OBVIOUS

LEMMA Back ==
    ASSUME NEW c \in Nat \ {0}, NEW r \in 0..(c - 1), NEW i \in 0..(c - 1)
    PROVE  (i + c - r) % c = IF i < r THEN i + c - r ELSE i - r
  OBVIOUS

(* The slot of the j-th place from r is that place.                          *)
LEMMA Place ==
    ASSUME NEW c \in Nat \ {0}, NEW r \in 0..(c - 1), NEW j \in 0..(c - 1)
    PROVE  (((r + j) % c) + c - r) % c = j
<1>0. j \in 0..c
  OBVIOUS
<1>1. /\ (r + j) % c = IF r + j < c THEN r + j ELSE r + j - c
      /\ (r + j) % c \in 0..(c - 1)
  BY <1>0, Around
<1>2. PICK i \in 0..(c - 1) : i = (r + j) % c
  BY <1>1
<1>3. (i + c - r) % c = IF i < r THEN i + c - r ELSE i - r
  BY Back
<1>4. (IF i < r THEN i + c - r ELSE i - r) = j
  BY <1>1, <1>2
<1> QED  BY <1>2, <1>3, <1>4

(* What is j places past the k-th from r.                                    *)
LEMMA Shift ==
    ASSUME NEW c \in Nat \ {0}, NEW r \in 0..(c - 1), NEW k \in Nat, NEW j \in Nat, j + k <= c
    PROVE  (((r + k) % c) + j) % c = (r + (j + k)) % c
<1>0. k \in 0..c /\ j \in 0..c /\ j + k \in 0..c
  OBVIOUS
<1>1. /\ (r + k) % c = IF r + k < c THEN r + k ELSE r + k - c
      /\ (r + k) % c \in 0..(c - 1)
  BY <1>0, Around
<1>2. (r + (j + k)) % c = IF r + (j + k) < c THEN r + (j + k) ELSE r + (j + k) - c
  BY <1>0, Around
<1>3. PICK i \in 0..(c - 1) : i = (r + k) % c
  BY <1>1
<1>4. (i + j) % c = IF i + j < c THEN i + j ELSE i + j - c
  BY <1>0, Around
<1>5. (IF i + j < c THEN i + j ELSE i + j - c)
        = (IF r + (j + k) < c THEN r + (j + k) ELSE r + (j + k) - c)
  <2>1. i = IF r + k < c THEN r + k ELSE r + k - c
    BY <1>1, <1>3
  <2> QED  BY <1>0, <2>1
<1> QED  BY <1>2, <1>3, <1>4, <1>5

LEMMA Numbers == /\ \A x \in Frame : x.n \in Nat
                 /\ \A x \in Sound : x.n \in Nat
                 /\ NoFrame \in Sound /\ NoFrame.n = 0
<1>1. \A x \in Frame : x.n \in Nat
  BY Bounds DEF Frame
<1>2. NoFrame.n = 0
  BY DEF NoFrame
<1> QED  BY <1>1, <1>2 DEF Sound

LEMMA Slots ==
    ASSUME NEW R \in RingState
    PROVE  /\ R.length \in 0..Cap /\ R.read \in 0..(Cap - 1)
           /\ \A j \in 0..(R.length - 1) : Slot(R, j) \in Sound /\ Slot(R, j).n \in Nat
<1>1. R.length \in 0..Cap /\ R.read \in 0..(Cap - 1) /\ R.samples \in Samples
  BY DEF RingState
<1>2. ASSUME NEW j \in 0..(R.length - 1) PROVE Slot(R, j) \in Sound
  <2>1. j \in 0..Cap
    BY <1>1, Bounds
  <2>2. (R.read + j) % Cap \in 0..(Cap - 1)
    BY <1>1, <2>1, Bounds, Around
  <2> QED  BY <1>1, <2>2 DEF Slot, Samples
<1> QED  BY <1>1, <1>2, Numbers

(* The frames of an event.                                                   *)
Frames == Seq(Frame)
LEMMA Messages ==
    /\ Message = [run : 1..MaxRuns, error : BOOLEAN, frames : Frames]
    /\ \A m \in Message : /\ m.run \in Nat /\ m.frames \in Seq(Frame) /\ Len(m.frames) \in Nat
                          /\ \A k \in 1..Len(m.frames) : m.frames[k].n \in Nat
<1>1. Message = [run : 1..MaxRuns, error : BOOLEAN, frames : Frames]
  BY DEF Message, Frames
<1>2. ASSUME NEW m \in Message
      PROVE  /\ m.run \in Nat /\ m.frames \in Seq(Frame) /\ Len(m.frames) \in Nat
             /\ \A k \in 1..Len(m.frames) : m.frames[k].n \in Nat
  <2>1. m.run \in 1..MaxRuns /\ m.frames \in Frames
    BY <1>1
  <2>2. m.frames \in Seq(Frame)
    BY <2>1 DEF Frames
  <2>3. PICK s \in Seq(Frame) : s = m.frames
    BY <2>2
  <2>4. Len(s) \in Nat /\ \A k \in 1..Len(s) : s[k] \in Frame
    OBVIOUS
  <2> QED  BY <2>1, <2>2, <2>3, <2>4, Numbers, Bounds
<1> QED  BY <1>1, <1>2

-----------------------------------------------------------------------------
(* How what a share has still to hear changes. *)

(* Nothing buffered and nothing on its way.                                  *)
LEMMA Nothing ==
    ASSUME NEW R \in RingState, NEW ev \in Seq(Message), NEW run, NEW of,
           NEW last \in Nat, NEW top \in Nat, last <= top, R.length = 0,
           \A i \in 1..Len(ev) : ev[i].run # run
    PROVE  Flows(R, ev, run, of, last, top)
<1>1. 0..(R.length - 1) = {}
  BY Bounds
<1>2. Buffered(R, run, of, last, top)
  BY <1>1 DEF Buffered
<1> QED  BY <1>2 DEF Flows, Coming, Behind, InTurn

(* The capture delivers: what it adds is after everything else.              *)
LEMMA Emitting ==
    ASSUME NEW R \in RingState, NEW ev \in Seq(Message), NEW m \in Message,
           NEW run, NEW of, NEW last \in Nat, NEW top \in Nat, NEW now \in Nat,
           Flows(R, ev, run, of, last, top), top <= now,
           m.run = run => /\ Ordered(m.frames, run, of, top)
                          /\ \A k \in 1..Len(m.frames) : m.frames[k].n <= now
    PROVE  Flows(R, Append(ev, m), run, of, last, now)
<1> DEFINE e == Append(ev, m)
<1>0. /\ last <= top /\ Buffered(R, run, of, last, top) /\ Coming(ev, run, of, last, top)
      /\ Behind(R, ev, run) /\ InTurn(ev, run)
  BY DEF Flows
<1>1. /\ Len(e) = Len(ev) + 1 /\ Len(ev) \in Nat /\ e[Len(ev) + 1] = m
      /\ \A i \in 1..Len(ev) : e[i] = ev[i]
      /\ \A i \in 1..Len(e) : i \in 1..Len(ev) \/ i = Len(ev) + 1
      /\ \A i \in 1..Len(ev) : ev[i] \in Message
  OBVIOUS
<1> HIDE DEF e
<1>2. \A k \in 1..Len(m.frames) : m.frames[k].n \in Nat
  BY Messages
<1>3. \A i \in 1..Len(ev) : \A k \in 1..Len(ev[i].frames) : ev[i].frames[k].n \in Nat
  BY <1>1, Messages
<1>4. \A j \in 0..(R.length - 1) : Slot(R, j).n \in Nat
  BY Slots
<1>5. Buffered(R, run, of, last, now)
  BY <1>0, <1>4 DEF Buffered
<1>6. Coming(e, run, of, last, now)
  <2> SUFFICES ASSUME NEW i \in 1..Len(e), e[i].run = run
               PROVE  /\ Ordered(e[i].frames, run, of, last)
                      /\ \A k \in 1..Len(e[i].frames) : e[i].frames[k].n <= now
    BY DEF Coming
  <2>1. CASE i \in 1..Len(ev)
    <3>1. /\ Ordered(ev[i].frames, run, of, last)
          /\ \A k \in 1..Len(ev[i].frames) : ev[i].frames[k].n <= top
      BY <1>0, <1>1, <2>1 DEF Coming
    <3> QED  BY <1>1, <1>3, <2>1, <3>1
  <2>2. CASE i = Len(ev) + 1
    <3>1. Ordered(m.frames, run, of, last)
      BY <1>0, <1>1, <1>2, <2>2 DEF Ordered
    <3> QED  BY <1>1, <2>2, <3>1
  <2> QED  BY <1>1, <2>1, <2>2
<1>7. Behind(R, e, run)
  <2> SUFFICES ASSUME NEW i \in 1..Len(e), e[i].run = run,
                      NEW k \in 1..Len(e[i].frames), NEW j \in 0..(R.length - 1)
               PROVE  Slot(R, j).n < e[i].frames[k].n
    BY DEF Behind
  <2>1. CASE i \in 1..Len(ev)
    BY <1>0, <1>1, <2>1 DEF Behind
  <2>2. CASE i = Len(ev) + 1
    <3>1. k \in 1..Len(m.frames) /\ top < m.frames[k].n /\ e[i] = m
      BY <1>1, <2>2 DEF Ordered
    <3>2. Slot(R, j).n <= top
      BY <1>0 DEF Buffered
    <3> QED  BY <1>2, <1>4, <3>1, <3>2
  <2> QED  BY <1>1, <2>1, <2>2
<1>8. InTurn(e, run)
  <2> SUFFICES ASSUME NEW i \in 1..Len(e), NEW j \in 1..Len(e), e[i].run = run, e[j].run = run,
                      i < j, NEW k \in 1..Len(e[i].frames), NEW l \in 1..Len(e[j].frames)
               PROVE  e[i].frames[k].n < e[j].frames[l].n
    BY DEF InTurn
  <2>1. i \in 1..Len(ev)
    BY <1>1
  <2>2. CASE j \in 1..Len(ev)
    BY <1>0, <1>1, <2>1, <2>2 DEF InTurn
  <2>3. CASE j = Len(ev) + 1
    <3>1. l \in 1..Len(m.frames) /\ top < m.frames[l].n /\ e[j] = m
      BY <1>1, <2>3 DEF Ordered
    <3>2. k \in 1..Len(ev[i].frames) /\ ev[i].frames[k].n <= top /\ e[i] = ev[i]
      BY <1>0, <1>1, <2>1 DEF Coming
    <3> QED  BY <1>2, <1>3, <2>1, <3>1, <3>2
  <2> QED  BY <1>1, <2>2, <2>3
<1> QED  BY <1>0, <1>5, <1>6, <1>7, <1>8 DEF Flows, e

(* The events behind the first.                                              *)
LEMMA Behinds ==
    ASSUME NEW ev \in Seq(Message), ev # <<>>
    PROVE  /\ Tail(ev) \in Seq(Message) /\ Head(ev) = ev[1] /\ ev[1] \in Message
           /\ Len(ev) \in Nat \ {0} /\ Len(Tail(ev)) = Len(ev) - 1
           /\ \A i \in 1..Len(Tail(ev)) : /\ Tail(ev)[i] = ev[i + 1] /\ ev[i + 1] \in Message
                                          /\ i + 1 \in 2..Len(ev)
  OBVIOUS

(* The page lets an event of another share go.                               *)
LEMMA Dropping ==
    ASSUME NEW R \in RingState, NEW ev \in Seq(Message), ev # <<>>, NEW run, NEW of,
           NEW last, NEW top, Flows(R, ev, run, of, last, top)
    PROVE  Flows(R, Tail(ev), run, of, last, top)
<1> DEFINE e == Tail(ev)
<1>0. /\ last <= top /\ Buffered(R, run, of, last, top) /\ Coming(ev, run, of, last, top)
      /\ Behind(R, ev, run) /\ InTurn(ev, run)
  BY DEF Flows
<1>1. \A i \in 1..Len(e) : e[i] = ev[i + 1] /\ i + 1 \in 1..Len(ev)
  BY Behinds
<1>2. \A i, j \in 1..Len(e) : i < j => i + 1 < j + 1
  BY Behinds
<1> HIDE DEF e
<1>3. Coming(e, run, of, last, top)
  BY <1>0, <1>1 DEF Coming
<1>4. Behind(R, e, run)
  BY <1>0, <1>1 DEF Behind
<1>5. InTurn(e, run)
  BY <1>0, <1>1, <1>2 DEF InTurn
<1> QED  BY <1>0, <1>3, <1>4, <1>5 DEF Flows, e

(* The worklet takes the first event: of its frames those past the o-th,     *)
(* behind the l frames that stay in the ring.                                *)
LEMMA Receiving ==
    ASSUME NEW R \in RingState, NEW Q \in RingState, NEW ev \in Seq(Message), ev # <<>>,
           NEW run, NEW of, NEW last \in Nat, NEW top \in Nat,
           Flows(R, ev, run, of, last, top), ev[1].run = run,
           NEW l \in {0, R.length}, NEW o \in Nat, l <= Q.length,
           o + (Q.length - l) = Len(ev[1].frames),
           \A j \in 0..(l - 1) : Slot(Q, j) = Slot(R, j),
           \A j \in l..(Q.length - 1) : Slot(Q, j) = ev[1].frames[o + (j - l) + 1]
    PROVE  Flows(Q, Tail(ev), run, of, last, top)
<1> DEFINE f == ev[1].frames
           e == Tail(ev)
<1>0. /\ last <= top /\ Buffered(R, run, of, last, top) /\ Coming(ev, run, of, last, top)
      /\ Behind(R, ev, run) /\ InTurn(ev, run)
  BY DEF Flows
<1>1. /\ R.length \in Nat /\ Q.length \in Nat /\ l \in Nat
      /\ \A j \in 0..(l - 1) : j \in 0..(R.length - 1)
      /\ \A j \in 0..(R.length - 1) : Slot(R, j).n \in Nat
      /\ \A j \in 0..(Q.length - 1) : Slot(Q, j).n \in Nat
  BY Slots, Bounds
<1>2. /\ e \in Seq(Message)
      /\ \A i \in 1..Len(e) : e[i] = ev[i + 1] /\ i + 1 \in 2..Len(ev) /\ i + 1 \in 1..Len(ev)
      /\ 1 \in 1..Len(ev)
  BY Behinds
<1>3. /\ \A k \in 1..Len(f) : f[k].n \in Nat
      /\ \A i \in 1..Len(e) : \A k \in 1..Len(e[i].frames) : e[i].frames[k].n \in Nat
  <2>1. ev[1] \in Message /\ \A i \in 1..Len(e) : e[i] \in Message
    BY Behinds
  <2> QED  BY <2>1, Messages
<1>4. /\ \A k \in 1..Len(f) : f[k].run = run /\ f[k].of = of /\ last < f[k].n /\ f[k].n <= top
      /\ \A k, m \in 1..Len(f) : k < m => f[k].n < f[m].n
      /\ \A k \in 1..Len(f), j \in 0..(R.length - 1) : Slot(R, j).n < f[k].n
  BY <1>0, <1>2 DEF Coming, Ordered, Behind
<1>5. \A j \in l..(Q.length - 1) :
         o + (j - l) + 1 \in 1..Len(f) /\ Slot(Q, j) = f[o + (j - l) + 1]
  BY <1>1
<1>6. \A j \in 0..(Q.length - 1) : j \in 0..(l - 1) \/ j \in l..(Q.length - 1)
  BY <1>1
<1> HIDE DEF f, e
<1>7. \A j \in 0..(Q.length - 1) : /\ Slot(Q, j).run = run /\ Slot(Q, j).of = of
                                   /\ last < Slot(Q, j).n /\ Slot(Q, j).n <= top
  <2> TAKE j \in 0..(Q.length - 1)
  <2>1. CASE j \in 0..(l - 1)
    BY <1>0, <1>1, <2>1 DEF Buffered
  <2>2. CASE j \in l..(Q.length - 1)
    BY <1>4, <1>5, <2>2
  <2> QED  BY <1>6, <2>1, <2>2
<1>8. ASSUME NEW i \in 0..(Q.length - 1), NEW j \in 0..(Q.length - 1), i < j
      PROVE  Slot(Q, i).n < Slot(Q, j).n
  <2>1. CASE j \in 0..(l - 1)
    <3>1. i \in 0..(l - 1)
      BY <1>1, <1>8, <2>1
    <3> QED  BY <1>0, <1>1, <1>8, <2>1, <3>1 DEF Buffered
  <2>2. CASE i \in 0..(l - 1) /\ j \in l..(Q.length - 1)
    BY <1>1, <1>4, <1>5, <2>2
  <2>3. CASE i \in l..(Q.length - 1) /\ j \in l..(Q.length - 1)
    <3>1. o + (i - l) + 1 < o + (j - l) + 1
      BY <1>1, <1>8
    <3> QED  BY <1>4, <1>5, <2>3, <3>1
  <2> QED  BY <1>6, <2>1, <2>2, <2>3
<1>9. Buffered(Q, run, of, last, top)
  BY <1>7, <1>8 DEF Buffered
<1>10. Coming(e, run, of, last, top)
  BY <1>0, <1>2 DEF Coming
<1>11. InTurn(e, run)
  <2> SUFFICES ASSUME NEW i \in 1..Len(e), NEW j \in 1..Len(e),
                      e[i].run = run, e[j].run = run, i < j
               PROVE  \A k \in 1..Len(e[i].frames), m \in 1..Len(e[j].frames) :
                          e[i].frames[k].n < e[j].frames[m].n
    BY DEF InTurn
  <2>1. i + 1 < j + 1
    OBVIOUS
  <2>2. /\ e[i] = ev[i + 1] /\ i + 1 \in 1..Len(ev)
        /\ e[j] = ev[j + 1] /\ j + 1 \in 1..Len(ev)
    BY <1>2
  <2>3. PICK x \in 1..Len(ev), y \in 1..Len(ev) : x = i + 1 /\ y = j + 1
    BY <2>2
  <2> QED  BY <1>0, <2>1, <2>2, <2>3 DEF InTurn
<1>12. Behind(Q, e, run)
  <2> SUFFICES ASSUME NEW i \in 1..Len(e), e[i].run = run,
                      NEW k \in 1..Len(e[i].frames), NEW j \in 0..(Q.length - 1)
               PROVE  Slot(Q, j).n < e[i].frames[k].n
    BY DEF Behind
  <2>1. CASE j \in 0..(l - 1)
    BY <1>0, <1>1, <1>2, <2>1 DEF Behind
  <2>2. CASE j \in l..(Q.length - 1)
    <3>1. 1 < i + 1
      BY <1>2
    <3>2. \A m \in 1..Len(f) : f[m].n < e[i].frames[k].n
      BY <1>0, <1>2, <3>1 DEF InTurn, f
    <3> QED  BY <1>5, <2>2, <3>2
  <2> QED  BY <1>6, <2>1, <2>2
<1> QED  BY <1>0, <1>9, <1>10, <1>11, <1>12 DEF Flows, e

(* The worklet plays the first k frames of the ring.                         *)
LEMMA Consuming ==
    ASSUME NEW R \in RingState, NEW Q \in RingState, NEW ev \in Seq(Message),
           NEW run, NEW of, NEW last \in Nat, NEW top \in Nat,
           Flows(R, ev, run, of, last, top),
           NEW k \in 0..R.length, Q.length = R.length - k,
           \A j \in 0..(Q.length - 1) : Slot(Q, j) = Slot(R, j + k),
           NEW next, next = IF k = 0 THEN last ELSE Slot(R, k - 1).n
    PROVE  Flows(Q, ev, run, of, next, top)
<1>0. /\ last <= top /\ Buffered(R, run, of, last, top) /\ Coming(ev, run, of, last, top)
      /\ Behind(R, ev, run) /\ InTurn(ev, run)
  BY DEF Flows
<1>1. /\ R.length \in Nat /\ Q.length \in Nat
      /\ \A j \in 0..(R.length - 1) : Slot(R, j).n \in Nat
      /\ \A j \in 0..(Q.length - 1) : j + k \in 0..(R.length - 1)
      /\ k # 0 => k - 1 \in 0..(R.length - 1)
      /\ \A j \in 0..(Q.length - 1) : k # 0 => k - 1 < j + k
  BY Slots, Bounds
<1>2. next <= top /\ next \in Nat
  BY <1>0, <1>1 DEF Buffered
<1>3. Buffered(Q, run, of, next, top)
  <2>1. \A j \in 0..(Q.length - 1) : /\ Slot(Q, j).run = run /\ Slot(Q, j).of = of
                                     /\ next < Slot(Q, j).n /\ Slot(Q, j).n <= top
    BY <1>0, <1>1 DEF Buffered
  <2>2. \A i, j \in 0..(Q.length - 1) : i < j => Slot(Q, i).n < Slot(Q, j).n
    <3>1. \A i, j \in 0..(Q.length - 1) : i < j => i + k < j + k
      BY <1>1
    <3> QED  BY <1>0, <1>1, <3>1 DEF Buffered
  <2> QED  BY <2>1, <2>2 DEF Buffered
<1>4. Coming(ev, run, of, next, top)
  <2> SUFFICES ASSUME NEW i \in 1..Len(ev), ev[i].run = run
               PROVE  /\ Ordered(ev[i].frames, run, of, next)
                      /\ \A m \in 1..Len(ev[i].frames) : ev[i].frames[m].n <= top
    BY DEF Coming
  <2>1. /\ Ordered(ev[i].frames, run, of, last)
        /\ \A m \in 1..Len(ev[i].frames) : ev[i].frames[m].n <= top
    BY <1>0 DEF Coming
  <2>2. \A m \in 1..Len(ev[i].frames) : next < ev[i].frames[m].n
    BY <1>0, <1>1, <2>1 DEF Behind, Ordered
  <2> QED  BY <2>1, <2>2 DEF Ordered
<1>5. Behind(Q, ev, run)
  BY <1>0, <1>1 DEF Behind
<1> QED  BY <1>0, <1>2, <1>3, <1>4, <1>5 DEF Flows

-----------------------------------------------------------------------------
(* What each action does to the sound. *)

LEMMA Fixed ==
    ASSUME ControlInv
    PROVE  /\ page.run \in Nat /\ page.runs \in Nat /\ capture.run \in Nat /\ capture.n \in Nat
           /\ page.run # 0 => page.run = page.runs
           /\ capture.run <= page.runs
<1>1. ControlTyped /\ Numbered
  BY DEF ControlInv
<1>2. /\ page.run \in 0..MaxRuns /\ page.runs \in 0..MaxRuns
      /\ capture.run \in 0..MaxRuns /\ capture.n \in 0..MaxFrames
  BY <1>1 DEF ControlTyped, SharePage, CaptureState
<1>3. MaxRuns \in Nat /\ MaxFrames \in Nat
  BY Bounds
<1> QED  BY <1>1, <1>2, <1>3 DEF Numbered

LEMMA LastHeard == ASSUME SoundTyped PROVE Final \in Sound /\ Final.n \in Nat
<1>1. Final \in Sound
  BY DEF SoundTyped, Final
<1> QED  BY <1>1, Numbers

LEMMA Quiet ==
    /\ Silence \in RingState /\ Silence.length = 0
    /\ <<NoFrame>> \in Seq(Sound) /\ Len(<<NoFrame>>) = 1 /\ <<NoFrame>>[1] = NoFrame
<1>1. [i \in 0..(Cap - 1) |-> NoFrame] \in Samples
  BY Numbers DEF Samples
<1>2. Silence \in RingState /\ Silence.length = 0
  BY <1>1, Zero DEF Silence, RingState
<1> QED  BY <1>2, Numbers

(* With a new or no worklet nothing was heard and nothing is buffered.       *)
LEMMA SoundEmpties ==
    ASSUME ControlInv', ring' = Silence, heard' = <<NoFrame>>, events' \in Seq(Message),
           \A i \in 1..Len(events') : /\ events'[i].run <= page'.runs
                                      /\ page'.run # 0 => events'[i].run # page'.run
    PROVE  SoundInv'
<1>1. SoundTyped'
  BY Quiet DEF SoundTyped
<1>2. Final' = NoFrame
  BY Quiet DEF Final
<1>3. SoundInOrder'
  BY Quiet DEF SoundInOrder
<1>4. Away'
  BY DEF Away
<1>5. capture'.n \in Nat
  <2>1. capture' \in CaptureState
    BY DEF ControlInv, ControlTyped
  <2>2. capture'.n \in 0..MaxFrames
    BY <2>1 DEF CaptureState
  <2> QED  BY <2>2, Bounds
<1>6. Playing'
  <2> SUFFICES ASSUME page'.run # 0
               PROVE  /\ Flows(ring', events', page'.run, page'.chosen, Final'.n, capture'.n)
                      /\ Unheard'
    BY DEF Playing
  <2>1. Unheard'
    BY <1>2, Quiet, Numbers DEF Unheard
  <2>2. /\ ring' \in RingState /\ ring'.length = 0 /\ Final'.n = 0 /\ 0 \in Nat
        /\ 0 <= capture'.n
    BY <1>2, <1>5, Quiet, Numbers
  <2> QED  BY <1>5, <2>1, <2>2, Nothing
<1> QED  BY <1>1, <1>3, <1>4, <1>6 DEF SoundInv

(* What does not touch the sound.                                            *)
LEMMA SoundSame ==
    ASSUME SoundInv, events' = events, ring' = ring, heard' = heard, page'.run = page.run,
           page'.runs = page.runs, page'.chosen = page.chosen,
           capture'.run = capture.run, capture'.n = capture.n
    PROVE  SoundInv'
<1>1. SoundTyped' /\ Final' = Final
  BY DEF SoundInv, SoundTyped, Final
<1>2. Playing'
  BY <1>1 DEF SoundInv, Playing, Unheard
<1>3. Away' /\ SoundInOrder'
  BY DEF SoundInv, Away, SoundInOrder
<1> QED  BY <1>1, <1>2, <1>3 DEF SoundInv

(* The capture of a share begins: it has not been heard of before.           *)
LEMMA SoundBegins ==
    ASSUME ControlInv, ControlInv', SoundInv, events' = events, ring' = ring, heard' = heard,
           page' = page, capture.run < page.runs, capture'.run = page.runs, capture'.n = 0
    PROVE  SoundInv'
<1>1. SoundTyped' /\ Final' = Final
  BY DEF SoundInv, SoundTyped, Final
<1>2. Playing'
  <2> SUFFICES ASSUME page.run # 0
               PROVE  /\ Flows(ring, events, page.run, page.chosen, Final.n, 0)
                      /\ capture'.run = page.run
    BY <1>1 DEF Playing
  <2>1. capture.run # page.run /\ page.run = page.runs
    BY Fixed
  <2>2. Unheard
    BY <2>1 DEF SoundInv, Playing
  <2> QED  BY <2>1, <2>2, Nothing DEF Unheard, SoundInv, SoundTyped
<1>3. Away' /\ SoundInOrder'
  BY DEF SoundInv, Away, SoundInOrder
<1> QED  BY <1>1, <1>2, <1>3 DEF SoundInv

(* The capture delivers a packet, or its goroutine tells of its failure.     *)
LEMMA SoundDelivers ==
    ASSUME ControlInv, SoundInv, NEW m \in Message, m.run = capture.run,
           events' = Append(events, m), ring' = ring, heard' = heard, page' = page,
           capture'.run = capture.run, capture'.n \in Nat, capture.n <= capture'.n,
           page.run = capture.run /\ page.run # 0 =>
               /\ Ordered(m.frames, page.run, page.chosen, capture.n)
               /\ \A k \in 1..Len(m.frames) : m.frames[k].n <= capture'.n
    PROVE  SoundInv'
<1>0. /\ SoundTyped /\ Playing /\ Away /\ SoundInOrder
      /\ events \in Seq(Message) /\ ring \in RingState
  BY DEF SoundInv, SoundTyped
<1>1. SoundTyped' /\ Final' = Final
  BY <1>0 DEF SoundTyped, Final
<1>2. \A i \in 1..Len(events') : (i \in 1..Len(events) /\ events'[i] = events[i]) \/ events'[i] = m
  BY <1>0
<1>3. Playing'
  <2> SUFFICES ASSUME page.run # 0
               PROVE  /\ Flows(ring, events', page.run, page.chosen, Final.n, capture'.n)
                      /\ capture.run # page.run => Unheard'
    BY <1>1 DEF Playing
  <2>1. /\ Flows(ring, events, page.run, page.chosen, Final.n, capture.n)
        /\ capture.run # page.run => Unheard
    BY <1>0 DEF Playing
  <2>2. Flows(ring, events', page.run, page.chosen, Final.n, capture'.n)
    BY <1>0, <2>1, Emitting, Fixed, LastHeard
  <2>3. capture.run # page.run => Unheard'
    BY <1>1, <1>2, <2>1 DEF Unheard
  <2> QED  BY <2>2, <2>3
<1>4. Away'
  BY <1>0, <1>2, Fixed DEF Away
<1>5. SoundInOrder'
  BY <1>0 DEF SoundInOrder
<1> QED  BY <1>1, <1>3, <1>4, <1>5 DEF SoundInv

(* The page drops an event of another share.                                 *)
LEMMA SoundDrops ==
    ASSUME SoundInv, events # <<>>, events' = Tail(events), ring' = ring, heard' = heard,
           page' = page, capture' = capture
    PROVE  SoundInv'
<1>0. /\ SoundTyped /\ Playing /\ Away /\ SoundInOrder
      /\ events \in Seq(Message) /\ ring \in RingState
  BY DEF SoundInv, SoundTyped
<1>1. /\ events' \in Seq(Message)
      /\ \A i \in 1..Len(events') : events'[i] = events[i + 1] /\ i + 1 \in 1..Len(events)
  BY <1>0, Behinds
<1>2. SoundTyped' /\ Final' = Final
  BY <1>0, <1>1 DEF SoundTyped, Final
<1>3. Playing'
  <2> SUFFICES ASSUME page.run # 0
               PROVE  /\ Flows(ring, events', page.run, page.chosen, Final.n, capture.n)
                      /\ capture.run # page.run => Unheard'
    BY <1>2 DEF Playing
  <2>1. /\ Flows(ring, events, page.run, page.chosen, Final.n, capture.n)
        /\ capture.run # page.run => Unheard
    BY <1>0 DEF Playing
  <2>2. Flows(ring, events', page.run, page.chosen, Final.n, capture.n)
    BY <1>0, <2>1, Dropping
  <2>3. capture.run # page.run => Unheard'
    BY <1>1, <1>2, <2>1 DEF Unheard
  <2> QED  BY <2>2, <2>3
<1>4. Away'
  BY <1>0, <1>1 DEF Away
<1>5. SoundInOrder'
  BY <1>0 DEF SoundInOrder
<1> QED  BY <1>2, <1>3, <1>4, <1>5 DEF SoundInv

(* What is written into the ring, slot by slot.                              *)
LEMMA Writing ==
    ASSUME ring.samples \in Samples, NEW d \in Seq(Frame), NEW from \in 0..(Cap - 1),
           NEW l \in Nat, l + Len(d) <= Cap
    PROVE  /\ Written(d, from, l) \in Samples
           /\ \A j \in 0..(l - 1) :
                 Written(d, from, l)[(from + j) % Cap] = ring.samples[(from + j) % Cap]
           /\ \A j \in l..(l + Len(d) - 1) :
                 Written(d, from, l)[(from + j) % Cap] = d[j - l + 1]
<1> DEFINE w == Written(d, from, l)
<1>1. w = [i \in 0..(Cap - 1) |->
              LET k == (i + Cap - from) % Cap IN
              IF k >= l /\ k < l + Len(d) THEN d[k - l + 1] ELSE ring.samples[i]]
  BY DEF Written
<1> HIDE DEF w
<1>2. w \in Samples
  <2> SUFFICES ASSUME NEW i \in 0..(Cap - 1)
               PROVE  (LET k == (i + Cap - from) % Cap IN
                       IF k >= l /\ k < l + Len(d) THEN d[k - l + 1] ELSE ring.samples[i]) \in Sound
    BY <1>1 DEF Samples
  <2>1. (i + Cap - from) % Cap \in Nat
    BY Bounds, Back
  <2>2. PICK k \in Nat : k = (i + Cap - from) % Cap
    BY <2>1
  <2>3. ring.samples[i] \in Sound
    BY DEF Samples
  <2>4. k >= l /\ k < l + Len(d) => d[k - l + 1] \in Sound
    <3>1. k >= l /\ k < l + Len(d) => k - l + 1 \in 1..Len(d)
      OBVIOUS
    <3> QED  BY <3>1 DEF Sound
  <2> QED  BY <2>2, <2>3, <2>4
<1>3. ASSUME NEW j \in 0..(Cap - 1)
      PROVE  w[(from + j) % Cap] = IF j >= l /\ j < l + Len(d) THEN d[j - l + 1]
                                   ELSE ring.samples[(from + j) % Cap]
  <2>1. (from + j) % Cap \in 0..(Cap - 1) /\ (((from + j) % Cap) + Cap - from) % Cap = j
    <3>1. j \in 0..Cap
      BY Bounds
    <3> QED  BY <3>1, Bounds, Around, Place
  <2>2. PICK i \in 0..(Cap - 1) : i = (from + j) % Cap
    BY <2>1
  <2>3. (i + Cap - from) % Cap = j
    BY <2>1, <2>2
  <2>4. w[i] = IF j >= l /\ j < l + Len(d) THEN d[j - l + 1] ELSE ring.samples[i]
    BY <1>1, <2>3
  <2> QED  BY <2>2, <2>4
<1>4. Len(d) \in Nat /\ Cap \in Nat
  BY Bounds
<1>5. \A j \in 0..(l - 1) : w[(from + j) % Cap] = ring.samples[(from + j) % Cap]
  <2> TAKE j \in 0..(l - 1)
  <2>1. j \in 0..(Cap - 1) /\ ~(j >= l)
    BY <1>4
  <2> QED  BY <1>3, <2>1
<1>6. \A j \in l..(l + Len(d) - 1) : w[(from + j) % Cap] = d[j - l + 1]
  <2> TAKE j \in l..(l + Len(d) - 1)
  <2>1. j \in 0..(Cap - 1) /\ j >= l /\ j < l + Len(d)
    BY <1>4
  <2> QED  BY <1>3, <2>1
<1> QED  BY <1>2, <1>5, <1>6 DEF w

(* The worklet takes the frames of an event of its share.                    *)
LEMMA SoundTakes ==
    ASSUME ControlInv, SoundInv, events # <<>>, Current(Head(events)),
           ring' = Received(Head(events).frames), events' = Tail(events), heard' = heard,
           page' = page, capture' = capture
    PROVE  SoundInv'
<1>0. /\ SoundTyped /\ Playing /\ Away /\ SoundInOrder
      /\ events \in Seq(Message) /\ ring \in RingState
  BY DEF SoundInv, SoundTyped
<1>1. /\ events' \in Seq(Message) /\ Head(events) = events[1] /\ events[1] \in Message
      /\ 1 \in 1..Len(events)
      /\ \A i \in 1..Len(events') : events'[i] = events[i + 1] /\ i + 1 \in 1..Len(events)
  BY <1>0, Behinds
<1>2. page.run # 0 /\ events[1].run = page.run /\ capture.run = page.run
  BY <1>0, <1>1 DEF Current, Playing, Unheard
<1>3. Flows(ring, events, page.run, page.chosen, Final.n, capture.n)
  BY <1>0, <1>2 DEF Playing
<1>4. /\ ring.samples \in Samples /\ ring.read \in 0..(Cap - 1) /\ ring.length \in 0..Cap
      /\ ring.playing \in BOOLEAN
  BY <1>0 DEF RingState
<1> DEFINE f == events[1].frames
           o == IF Len(f) > Cap THEN Len(f) - Cap ELSE 0
           data == IF Len(f) > Cap THEN SubSeq(f, Len(f) - Cap + 1, Len(f)) ELSE f
           l == IF Overflows(data) THEN 0 ELSE ring.length
           from == ReadAfter(data)
<1>5. f \in Seq(Frame) /\ Len(f) \in Nat
  BY <1>1, Messages
<1>6. ring' = [samples |-> Written(data, from, l), read |-> from, length |-> l + Len(data),
               playing |-> ring.playing /\ ~Overflows(data)]
  BY <1>1 DEF Received
<1> HIDE DEF f
<1>7. /\ data \in Seq(Frame) /\ o \in Nat /\ Len(data) \in 0..Cap /\ o + Len(data) = Len(f)
      /\ \A i \in 1..Len(data) : data[i] = f[o + i]
  <2>1. CASE Len(f) > Cap
    <3>1. data = SubSeq(f, Len(f) - Cap + 1, Len(f)) /\ o = Len(f) - Cap /\ o \in Nat
      BY <1>5, <2>1, Bounds
    <3>2. Len(data) = Cap /\ \A i \in 1..Cap : data[i] = f[o + i]
      BY <1>5, <2>1, <3>1, Bounds
    <3>3. data \in Seq(Frame)
      BY <1>5, <2>1, <3>1, Bounds
    <3> QED  BY <1>5, <3>1, <3>2, <3>3, Bounds
  <2>2. CASE ~(Len(f) > Cap)
    BY <1>5, <2>2, Bounds
  <2> QED  BY <2>1, <2>2
<1> HIDE DEF o, data
<1>8. /\ l \in {0, ring.length} /\ l \in Nat /\ l + Len(data) \in 0..Cap
      /\ from \in 0..(Cap - 1) /\ (l # 0 => from = ring.read)
  BY <1>4, <1>7, Bounds, Zero DEF Overflows, ReadAfter
<1>9. (ring.playing /\ ~Overflows(data)) \in BOOLEAN
  OBVIOUS
<1> HIDE DEF l, from
<1>10. /\ Written(data, from, l) \in Samples
       /\ \A j \in 0..(l - 1) :
             Written(data, from, l)[(from + j) % Cap] = ring.samples[(from + j) % Cap]
       /\ \A j \in l..(l + Len(data) - 1) :
             Written(data, from, l)[(from + j) % Cap] = data[j - l + 1]
  <2>1. l + Len(data) <= Cap
    BY <1>7, <1>8, Bounds
  <2>2. ring.samples \in Samples /\ data \in Seq(Frame) /\ from \in 0..(Cap - 1) /\ l \in Nat
    BY <1>4, <1>7, <1>8
  <2> QED  BY <2>1, <2>2, Writing
<1>11. ring' \in RingState /\ ring'.length = l + Len(data)
  <2>1. PICK w \in Samples, n \in 0..Cap, p \in BOOLEAN :
           w = Written(data, from, l) /\ n = l + Len(data) /\ p = (ring.playing /\ ~Overflows(data))
    BY <1>8, <1>9, <1>10
  <2>2. ring' = [samples |-> w, read |-> from, length |-> n, playing |-> p]
    BY <1>6, <2>1
  <2>3. from \in 0..(Cap - 1)
    BY <1>8
  <2>4. ring' \in RingState
    BY <2>2, <2>3 DEF RingState
  <2>5. ring'.length = n
    BY <2>2
  <2> QED  BY <2>1, <2>4, <2>5
<1>12. \A j : Slot(ring', j) = Written(data, from, l)[(from + j) % Cap]
  BY <1>6 DEF Slot
<1>13. \A j \in 0..(l - 1) : Slot(ring', j) = Slot(ring, j)
  BY <1>8, <1>10, <1>12 DEF Slot
<1>14. \A j \in l..(ring'.length - 1) : Slot(ring', j) = f[o + (j - l) + 1]
  <2> TAKE j \in l..(ring'.length - 1)
  <2>1. j \in l..(l + Len(data) - 1) /\ j - l + 1 \in 1..Len(data)
    BY <1>7, <1>8, <1>11
  <2>2. Slot(ring', j) = data[j - l + 1]
    BY <1>10, <1>12, <2>1
  <2>3. o + (j - l + 1) = o + (j - l) + 1
    BY <1>7, <1>8, <2>1
  <2> QED  BY <1>7, <2>1, <2>2, <2>3
<1>15. SoundTyped' /\ Final' = Final
  BY <1>0, <1>1, <1>11 DEF SoundTyped, Final
<1>16. Flows(ring', events', page.run, page.chosen, Final.n, capture.n)
  <2>1. l <= ring'.length /\ o + (ring'.length - l) = Len(f)
    BY <1>7, <1>8, <1>11
  <2>2. Final.n \in Nat /\ capture.n \in Nat
    BY <1>0, LastHeard, Fixed
  <2>3. o \in Nat
    BY <1>7
  <2>4. f = events[1].frames
    BY DEF f
  <2>5. l \in {0, ring.length} /\ ring' \in RingState
    BY <1>8, <1>11
  <2>6. \A j \in l..(ring'.length - 1) : Slot(ring', j) = events[1].frames[o + (j - l) + 1]
    BY <1>14, <2>4
  <2>7. o + (ring'.length - l) = Len(events[1].frames)
    BY <2>1, <2>4
  <2> QED  BY <1>0, <1>2, <1>3, <1>13, <2>1, <2>2, <2>3, <2>5, <2>6, <2>7, Receiving
<1>17. Playing'
  BY <1>2, <1>15, <1>16 DEF Playing
<1>18. Away' /\ SoundInOrder'
  BY <1>0, <1>1 DEF Away, SoundInOrder
<1> QED  BY <1>15, <1>17, <1>18 DEF SoundInv

(* The worklet plays, once enough is there, from where it has stopped.       *)
LEMMA SoundPlays ==
    ASSUME ControlInv, SoundInv, Plays
    PROVE  SoundInv'
<1>0. /\ SoundTyped /\ Playing /\ Away /\ SoundInOrder
      /\ events \in Seq(Message) /\ ring \in RingState /\ heard \in Seq(Sound) /\ Len(heard) # 0
      /\ page' = page /\ events' = events /\ capture' = capture /\ page.run # 0
  BY DEF SoundInv, SoundTyped, Plays
<1>1. /\ ring.samples \in Samples /\ ring.read \in 0..(Cap - 1) /\ ring.length \in 0..Cap
      /\ ring.playing \in BOOLEAN
  BY <1>0 DEF RingState
<1> DEFINE playing == ring.playing \/ ring.length >= Threshold
           k == IF ~playing THEN 0 ELSE IF ring.length < Quantum THEN ring.length ELSE Quantum
           s == [i \in 1..k |-> ring.samples[(ring.read + i - 1) % Cap]]
<1>2. /\ heard' = <<Final>> \o s
      /\ ring' = [ring EXCEPT !.read = (ring.read + k) % Cap, !.length = ring.length - k,
                              !.playing = playing /\ ring.length > k]
  BY DEF Plays, Last, Final
<1>3. k \in 0..ring.length /\ k \in 0..Cap
  BY <1>1, Bounds
<1>4. (playing /\ ring.length > k) \in BOOLEAN
  OBVIOUS
<1> HIDE DEF playing, k
<1>5. Flows(ring, events, page.run, page.chosen, Final.n, capture.n)
  BY <1>0 DEF Playing
<1>6. /\ \A j \in 0..(ring.length - 1) :
            /\ Slot(ring, j) \in Sound /\ Slot(ring, j).n \in Nat
            /\ Slot(ring, j).run = page.run /\ Slot(ring, j).of = page.chosen
            /\ Final.n < Slot(ring, j).n
      /\ \A i, j \in 0..(ring.length - 1) : i < j => Slot(ring, i).n < Slot(ring, j).n
  BY <1>0, <1>5, Slots DEF Flows, Buffered
<1>7. s \in Seq(Sound) /\ Len(s) = k /\ \A i \in 1..k : s[i] = Slot(ring, i - 1)
  <2>1. \A i \in 1..k : /\ i - 1 \in 0..(ring.length - 1)
                        /\ ring.samples[(ring.read + i - 1) % Cap] = Slot(ring, i - 1)
    <3> TAKE i \in 1..k
    <3>1. i - 1 \in 0..(ring.length - 1)
      BY <1>1, <1>3
    <3>2. ring.read + i - 1 = ring.read + (i - 1)
      BY <1>1, <1>3
    <3> QED  BY <3>1, <3>2 DEF Slot
  <2>2. k \in Nat
    BY <1>1, <1>3
  <2>3. s = [i \in 1..k |-> Slot(ring, i - 1)]
    BY <2>1
  <2>4. \A i \in 1..k : Slot(ring, i - 1) \in Sound
    BY <1>6, <2>1
  <2> HIDE DEF s
  <2> QED  BY <2>2, <2>3, <2>4
<1> HIDE DEF s
<1>8. Final \in Sound /\ Final.n \in Nat
  BY <1>0, LastHeard
<1>9. /\ heard' \in Seq(Sound) /\ Len(heard') = k + 1 /\ heard'[1] = Final
      /\ \A i \in 2..(k + 1) : heard'[i] = s[i - 1]
  <2>1. <<Final>> \in Seq(Sound) /\ Len(<<Final>>) = 1 /\ <<Final>>[1] = Final
    BY <1>8
  <2>2. k \in Nat
    BY <1>1, <1>3
  <2> QED  BY <1>2, <1>7, <2>1, <2>2
<1>10. \A i \in 2..(k + 1) : heard'[i] = Slot(ring, i - 2) /\ i - 2 \in 0..(ring.length - 1)
  <2> TAKE i \in 2..(k + 1)
  <2>1. i - 1 \in 1..k /\ (i - 1) - 1 = i - 2 /\ i - 2 \in 0..(ring.length - 1)
    BY <1>1, <1>3
  <2> QED  BY <1>7, <1>9, <2>1
<1>11. Final' = IF k = 0 THEN Final ELSE Slot(ring, k - 1)
  <2>1. Final' = heard'[k + 1]
    BY <1>9 DEF Final
  <2>2. k # 0 => k + 1 \in 2..(k + 1) /\ (k + 1) - 2 = k - 1
    BY <1>1, <1>3
  <2> QED  BY <1>9, <1>10, <2>1, <2>2
<1>12. /\ ring' \in RingState /\ ring'.read = (ring.read + k) % Cap
       /\ ring'.length = ring.length - k /\ ring'.samples = ring.samples
  <2>1. (ring.read + k) % Cap \in 0..(Cap - 1)
    BY <1>1, <1>3, Bounds, Around
  <2>2. ring.length - k \in 0..Cap
    BY <1>1, <1>3, Bounds
  <2> QED  BY <1>0, <1>2, <1>4, <2>1, <2>2 DEF RingState
<1>13. \A j \in 0..(ring'.length - 1) : Slot(ring', j) = Slot(ring, j + k)
  <2> TAKE j \in 0..(ring'.length - 1)
  <2>1. j \in Nat /\ k \in Nat /\ j + k <= Cap
    BY <1>1, <1>3, <1>12, Bounds
  <2>2. (((ring.read + k) % Cap) + j) % Cap = (ring.read + (j + k)) % Cap
    BY <1>1, <2>1, Bounds, Shift
  <2> QED  BY <1>12, <2>2 DEF Slot
<1>14. SoundTyped'
  <2>1. Len(heard') # 0
    BY <1>1, <1>3, <1>9
  <2> QED  BY <1>0, <1>9, <1>12, <2>1 DEF SoundTyped
<1>15. Playing'
  <2>1. Flows(ring', events, page.run, page.chosen, Final'.n, capture.n)
    <3>1. Final'.n = IF k = 0 THEN Final.n ELSE Slot(ring, k - 1).n
      BY <1>11
    <3>2. capture.n \in Nat
      BY Fixed
    <3> QED  BY <1>0, <1>3, <1>5, <1>8, <1>12, <1>13, <3>1, <3>2, Consuming
  <2>2. capture.run # page.run => Unheard'
    <3> SUFFICES ASSUME capture.run # page.run PROVE Unheard'
      OBVIOUS
    <3>1. Unheard
      BY <1>0 DEF Playing
    <3>2. k = 0 /\ ring'.length = 0
      <4>1. ring.length = 0
        BY <3>1 DEF Unheard
      <4>2. k = 0
        BY <1>3, <4>1
      <4> QED  BY <1>12, <4>1, <4>2
    <3>3. Final' = Final
      BY <1>11, <3>2
    <3> QED  BY <1>0, <3>1, <3>2, <3>3 DEF Unheard
  <2> QED  BY <1>0, <2>1, <2>2 DEF Playing
<1>16. Away'
  BY <1>0 DEF Away
<1>17. SoundInOrder'
  <2> SUFFICES ASSUME NEW i \in 2..(k + 1)
               PROVE  /\ heard'[i].run = page.run /\ heard'[i].of = page.chosen
                      /\ heard'[i].n > heard'[i - 1].n
    BY <1>0, <1>9 DEF SoundInOrder
  <2>1. heard'[i] = Slot(ring, i - 2) /\ i - 2 \in 0..(ring.length - 1)
    BY <1>10
  <2>2. CASE i = 2
    BY <1>6, <1>8, <1>9, <2>1, <2>2
  <2>3. CASE i # 2
    <3>1. i - 1 \in 2..(k + 1) /\ (i - 1) - 2 < i - 2
      BY <1>1, <1>3, <2>3
    <3>2. heard'[i - 1] = Slot(ring, (i - 1) - 2) /\ (i - 1) - 2 \in 0..(ring.length - 1)
      BY <1>10, <3>1
    <3> QED  BY <1>6, <2>1, <3>1, <3>2
  <2> QED  BY <2>2, <2>3
<1> QED  BY <1>14, <1>15, <1>16, <1>17 DEF SoundInv

LEMMA SoundInit == Init => SoundInv
<1> SUFFICES ASSUME Init PROVE SoundInv
  OBVIOUS
<1>1. /\ events = <<>> /\ ring = Silence /\ heard = <<NoFrame>> /\ page.run = 0
  BY DEF Init
<1>2. events \in Seq(Message) /\ 1..Len(events) = {}
  BY <1>1
<1>3. SoundTyped
  BY <1>1, <1>2, Quiet DEF SoundTyped
<1>4. Playing /\ Away
  BY <1>1, <1>2 DEF Playing, Away
<1>5. SoundInOrder
  BY <1>1, Quiet DEF SoundInOrder
<1> QED  BY <1>3, <1>4, <1>5 DEF SoundInv

(* The page starts and ends a share.                                         *)
LEMMA SoundShares ==
    ASSUME ControlInv, ControlInv', SoundInv, ring' = Silence, heard' = <<NoFrame>>,
           \/ PageStarts
           \/ page'.run = 0 /\ page'.runs = page.runs /\ events' = events
           \/ page'.run = 0 /\ page'.runs = page.runs /\ events # <<>> /\ events' = Tail(events)
    PROVE  SoundInv'
<1>1. events \in Seq(Message) /\ \A i \in 1..Len(events) : events[i].run <= page.runs
  BY DEF SoundInv, SoundTyped, Away
<1>2. \A i \in 1..Len(events) : events[i].run \in Nat
  <2>1. \A i \in 1..Len(events) : events[i] \in Message
    BY <1>1
  <2> QED  BY <2>1, Messages
<1>3. CASE PageStarts
  <2>1. events' = events /\ page'.run = page.runs + 1 /\ page'.runs = page.runs + 1
    <3>1. page \in SharePage
      BY DEF ControlInv, ControlTyped
    <3> QED  BY <1>3, <3>1 DEF PageStarts, SharePage
  <2>2. \A i \in 1..Len(events) : events[i].run <= page.runs + 1 /\ events[i].run # page.runs + 1
    BY <1>1, <1>2, Fixed
  <2> QED  BY <1>1, <2>1, <2>2, SoundEmpties
<1>4. CASE page'.run = 0 /\ page'.runs = page.runs /\ events' = events
  BY <1>1, <1>4, SoundEmpties
<1>5. CASE page'.run = 0 /\ page'.runs = page.runs /\ events # <<>> /\ events' = Tail(events)
  <2>1. /\ events' \in Seq(Message)
        /\ \A i \in 1..Len(events') : events'[i] = events[i + 1] /\ i + 1 \in 1..Len(events)
    BY <1>1, <1>5, Behinds
  <2> QED  BY <1>1, <1>5, <2>1, SoundEmpties
<1> QED  BY <1>3, <1>4, <1>5

LEMMA StoppedRun ==
    ASSUME page \in SharePage
    PROVE  /\ Stopped.run = 0 /\ Stopped.runs = page.runs
           /\ Rejects => page'.run = 0 /\ page'.runs = page.runs
<1>1. Stopped.run = 0 /\ Stopped.runs = page.runs /\ DOMAIN Stopped = DOMAIN page
  BY DEF Stopped, SharePage
<1>2. ASSUME Rejects PROVE page'.run = 0 /\ page'.runs = page.runs
  <2>1. CASE page.run # 0
    <3>1. page' = [Stopped EXCEPT !.call = "none"]
      BY <1>2, <2>1 DEF Rejects
    <3>2. page' = [page EXCEPT !.run = 0, !.owes = TRUE, !.call = "none"]
      BY <3>1 DEF Stopped
    <3> QED  BY <3>2 DEF SharePage
  <2>2. CASE page.run = 0
    <3>1. page' = [page EXCEPT !.call = "none"]
      BY <1>2, <2>2 DEF Rejects
    <3> QED  BY <2>2, <3>1 DEF SharePage
  <2> QED  BY <2>1, <2>2
<1> QED  BY <1>1, <1>2

LEMMA SoundHandles ==
    ASSUME ControlInv, ControlInv', SoundInv, PageHandles
    PROVE  SoundInv'
<1>1. page \in SharePage
  BY DEF ControlInv, ControlTyped
<1>2. events # <<>> /\ events' = Tail(events) /\ capture' = capture
  BY DEF PageHandles
<1>3. CASE ~Current(Head(events)) /\ UNCHANGED <<page, ring, heard>>
  BY <1>2, <1>3, SoundDrops
<1>4. CASE /\ Current(Head(events)) /\ ring' = Received(Head(events).frames)
           /\ UNCHANGED <<page, heard>>
  BY <1>2, <1>4, SoundTakes
<1>5. CASE page' = Stopped /\ ring' = Silence /\ heard' = <<NoFrame>>
  BY <1>1, <1>2, <1>5, StoppedRun, SoundShares
<1> QED  BY <1>3, <1>4, <1>5 DEF PageHandles

LEMMA SoundCalls ==
    ASSUME ControlInv, ControlInv', SoundInv, Calls
    PROVE  SoundInv'
<1>1. page \in SharePage /\ Calling /\ Numbered
  BY DEF ControlInv, ControlTyped
<1>2. Replies => page'.run = page.run /\ page'.runs = page.runs /\ page'.chosen = page.chosen
  BY <1>1 DEF Replies, SharePage
<1>3. CASE CallsStop
  <2>1. page'.run = page.run /\ page'.runs = page.runs /\ page'.chosen = page.chosen
    BY <1>1, <1>3 DEF CallsStop, SharePage
  <2> QED  BY <1>3, <2>1, SoundSame DEF CallsStop
<1>4. CASE StartAudio
  <2>1. /\ capture' = [NoCapture EXCEPT !.at = "open", !.run = page.runs]
        /\ page' = page /\ ring' = ring /\ heard' = heard /\ events' = events
        /\ capture.run < page.runs
    BY <1>1, <1>4 DEF StartAudio, Calling, Numbered
  <2>2. capture'.run = page.runs /\ capture'.n = 0
    BY <2>1 DEF NoCapture
  <2> QED  BY <2>1, <2>2, SoundBegins
<1>5. CASE StartReady
  <2>1. page'.run = page.run /\ page'.runs = page.runs /\ page'.chosen = page.chosen
    BY <1>2, <1>5 DEF StartReady
  <2> QED  BY <1>5, <2>1, SoundSame DEF StartReady
<1>6. CASE StartFails
  <2>1. Rejects /\ events' = events /\ ring' = Silence /\ heard' = <<NoFrame>>
    BY <1>6 DEF StartFails, Rejects
  <2> QED  BY <1>1, <2>1, StoppedRun, SoundShares
<1>7. CASE StopAudio
  <2>1. page'.run = page.run /\ page'.runs = page.runs /\ page'.chosen = page.chosen
    BY <1>2, <1>7 DEF StopAudio
  <2> QED  BY <1>7, <2>1, SoundSame DEF StopAudio
<1>8. CASE StopReturns
  <2>1. page'.run = page.run /\ page'.runs = page.runs /\ page'.chosen = page.chosen
    BY <1>2, <1>8 DEF StopReturns
  <2> QED  BY <1>8, <2>1, SoundSame DEF StopReturns
<1> QED  BY <1>3, <1>4, <1>5, <1>6, <1>7, <1>8 DEF Calls

LEMMA SoundEmits ==
    ASSUME ControlInv, SoundInv, Emits
    PROVE  SoundInv'
<1>1. PICK k \in Packets :
          /\ capture.n + k <= MaxFrames /\ capture' = [capture EXCEPT !.n = capture.n + k]
          /\ events' = Append(events, [run |-> capture.run, error |-> FALSE,
                 frames |-> [i \in 1..k |-> [run |-> capture.run, of |-> capture.of,
                                             n |-> capture.n + i]]])
  BY DEF Emits
<1>2. page' = page /\ ring' = ring /\ heard' = heard /\ capture.at = "reading"
  BY DEF Emits
<1>3. capture \in CaptureState /\ Numbered
  BY DEF ControlInv, ControlTyped
<1>4. capture.run \in 0..MaxRuns /\ capture.of \in 0..MaxProcesses /\ capture.n \in 0..MaxFrames
  BY <1>3 DEF CaptureState
<1>5. /\ capture.run # 0 /\ capture.of # 0
      /\ capture.run = page.run => capture.of = page.chosen
  BY <1>2, <1>3 DEF Numbered, Capturer
<1>6. k \in Nat \ {0}
  BY Bounds
<1> DEFINE f == [i \in 1..k |-> [run |-> capture.run, of |-> capture.of, n |-> capture.n + i]]
           m == [run |-> capture.run, error |-> FALSE, frames |-> f]
<1>7. \A i \in 1..k : [run |-> capture.run, of |-> capture.of, n |-> capture.n + i] \in Frame
  <2> TAKE i \in 1..k
  <2>1. capture.n + i \in 1..MaxFrames
    BY <1>1, <1>4, <1>6, Bounds
  <2>2. capture.run \in 1..MaxRuns /\ capture.of \in 1..MaxProcesses
    BY <1>4, <1>5, Bounds
  <2> QED  BY <2>1, <2>2 DEF Frame
<1>8. f \in Seq(Frame) /\ Len(f) = k
  BY <1>6, <1>7
<1>9. /\ \A i \in 1..k : f[i].run = capture.run /\ f[i].of = capture.of /\ f[i].n = capture.n + i
      /\ events' = Append(events, m)
  BY <1>1
<1>10. \A i \in 1..k : f[i].n \in Nat /\ capture.n < f[i].n /\ f[i].n <= capture.n + k
  BY <1>4, <1>6, <1>9, Bounds
<1>11. \A i, j \in 1..k : i < j => f[i].n < f[j].n
  BY <1>4, <1>6, <1>9, Bounds
<1> HIDE DEF f
<1>12. m \in Message /\ m.run = capture.run /\ m.frames = f
  <2>1. capture.run \in 1..MaxRuns
    BY <1>4, <1>5, Bounds
  <2>2. f \in Frames
    BY <1>8 DEF Frames
  <2> QED  BY <2>1, <2>2, Messages
<1> HIDE DEF m
<1>13. capture'.run = capture.run /\ capture'.n = capture.n + k
  BY <1>1, <1>3 DEF CaptureState
<1>14. capture'.n \in Nat /\ capture.n <= capture'.n
  BY <1>4, <1>6, <1>13, Bounds
<1>15. page.run = capture.run =>
         /\ Ordered(m.frames, page.run, page.chosen, capture.n)
         /\ \A i \in 1..Len(m.frames) : m.frames[i].n <= capture'.n
  BY <1>5, <1>8, <1>9, <1>10, <1>11, <1>12, <1>13 DEF Ordered
<1> QED  BY <1>2, <1>9, <1>12, <1>13, <1>14, <1>15, SoundDelivers

LEMMA SoundCaptures ==
    ASSUME ControlInv, SoundInv, Capturing
    PROVE  SoundInv'
<1>1. capture \in CaptureState /\ Numbered
  BY DEF ControlInv, ControlTyped
<1>2. \A e \in BOOLEAN : Ends(e) => capture'.run = capture.run /\ capture'.n = capture.n
  BY <1>1 DEF Ends, CaptureState
<1>3. CASE Finishes
  <2>1. capture'.run = capture.run /\ capture'.n = capture.n
    BY <1>1, <1>3 DEF Finishes, CaptureState
  <2>2. page' = page /\ ring' = ring /\ heard' = heard /\ capture.at = "over"
    BY <1>3 DEF Finishes
  <2>3. CASE events' = events
    BY <2>1, <2>2, <2>3, SoundSame
  <2>4. CASE events' = Append(events, [run |-> capture.run, error |-> TRUE, frames |-> <<>>])
    <3> DEFINE m == [run |-> capture.run, error |-> TRUE, frames |-> <<>>]
    <3>1. capture.run \in 1..MaxRuns
      <4>1. capture.run \in 0..MaxRuns /\ capture.run # 0
        BY <1>1, <2>2 DEF CaptureState, Numbered
      <4> QED  BY <4>1, Bounds
    <3>2. <<>> \in Frames
      BY DEF Frames
    <3>3. m \in Message /\ m.run = capture.run /\ m.frames = <<>>
      BY <3>1, <3>2, Messages
    <3> HIDE DEF m
    <3>4. /\ Ordered(m.frames, page.run, page.chosen, capture.n)
          /\ \A i \in 1..Len(m.frames) : m.frames[i].n <= capture'.n
      BY <3>3 DEF Ordered
    <3>5. events' = Append(events, m)
      BY <2>4 DEF m
    <3>6. capture'.n \in Nat /\ capture.n <= capture'.n
      BY <2>1, Fixed
    <3> QED  BY <2>1, <2>2, <3>3, <3>4, <3>5, <3>6, SoundDelivers
  <2> QED  BY <1>3, <2>3, <2>4 DEF Finishes
<1>4. CASE Opens \/ Activated \/ SetsUp \/ Looks \/ HasRead \/ Breaks
  <2>1. capture'.run = capture.run /\ capture'.n = capture.n
    <3>1. \/ capture' = [capture EXCEPT !.at = "activating", !.of = process.now]
          \/ capture' = [capture EXCEPT !.at = "setup"]
          \/ capture' = [capture EXCEPT !.at = "looking", !.ready = "ok"]
          \/ capture' = [capture EXCEPT !.at = "looking"]
          \/ capture' = [capture EXCEPT !.at = "reading"]
          \/ Ends(TRUE) \/ Ends(FALSE)
      BY <1>4 DEF Opens, Activated, SetsUp, Looks, HasRead, Breaks
    <3> QED  BY <1>1, <1>2, <3>1 DEF CaptureState
  <2>2. page' = page /\ ring' = ring /\ heard' = heard /\ events' = events
    BY <1>4 DEF Opens, Activated, SetsUp, Looks, HasRead, Breaks
  <2> QED  BY <2>1, <2>2, SoundSame
<1> QED  BY <1>3, <1>4 DEF Capturing

LEMMA SoundStep == ControlInv /\ ControlInv' /\ SoundInv /\ [Next]_vars => SoundInv'
<1> SUFFICES ASSUME ControlInv, ControlInv', SoundInv, [Next]_vars PROVE SoundInv'
  OBVIOUS
<1>1. CASE PageStarts
  BY <1>1, SoundShares DEF PageStarts
<1>2. CASE PageStops
  <2>1. page \in SharePage
    BY DEF ControlInv, ControlTyped
  <2> QED  BY <1>2, <2>1, StoppedRun, SoundShares DEF PageStops
<1>3. CASE PageHandles
  BY <1>3, SoundHandles
<1>4. CASE Plays
  BY <1>4, SoundPlays
<1>5. CASE Calls
  BY <1>5, SoundCalls
<1>6. CASE Emits
  BY <1>6, SoundEmits
<1>7. CASE Capturing
  BY <1>7, SoundCaptures
<1>8. CASE Activation \/ ProcessEnds \/ ProcessRestarts \/ UNCHANGED vars
  <2>1. /\ page' = page /\ ring' = ring /\ heard' = heard /\ events' = events
        /\ capture' = capture
    BY <1>8 DEF Activation, Completes, ComReleases, ProcessEnds, ProcessRestarts, vars
  <2> QED  BY <2>1, SoundSame
<1> QED  BY <1>1, <1>2, <1>3, <1>4, <1>5, <1>6, <1>7, <1>8 DEF Next, Page

(* Behind what is heard lie the frames in the ring, then those of the events *)
(* on their way, then those that the capture has still to deliver: each      *)
(* once, in order, and all of the share and of the process it chose.         *)
THEOREM Invariant == Spec => []AudioInv
<1>1. Init => AudioInv
  BY ControlInit, SoundInit DEF AudioInv
<1>2. AudioInv /\ [Next]_vars => AudioInv'
  BY ControlStep, SoundStep DEF AudioInv
<1> QED  BY <1>1, <1>2, PTL DEF Spec

(* What a share plays is the sound of its own capture of the process that    *)
(* was chosen, each frame at most once and in order, for every length of the *)
(* ring, of packets and of process calls: across the ring's end, after an    *)
(* overflow, and with events of an earlier share still on their way.         *)
THEOREM InOrder == Spec => []SoundInOrder
<1>1. AudioInv => SoundInOrder
  BY DEF AudioInv, SoundInv
<1> QED  BY <1>1, Invariant, PTL

(* Every variable keeps its type, the frames in the ring included.           *)
THEOREM TypeCorrect == Spec => []TypeOK
<1>1. AudioInv => TypeOK
  BY DEF AudioInv, ControlInv, ControlTyped, SoundInv, SoundTyped, TypeOK, SharePage, AppState,
         CaptureState, ComState, RingState, Samples, Sound
<1> QED  BY <1>1, Invariant, PTL
=============================================================================
