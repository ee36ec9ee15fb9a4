# A verification of go-screen-share

TLA+ modules of the parts of go-screen-share that run concurrently: the
signaling server, the Linux app from its page to the portal and GStreamer, the
viewer page, and the sharer page of the Windows app with its audio capture; TLC
configurations that check them on small instances; and TLAPS proofs about every
one of these parts that hold for every size.

Source lines below are `file:line` of the repository.

## 1. Inventory

A *share* is one sharer and up to four viewers. Media goes directly from the
sharer to each viewer (WebRTC); everything else goes through the signaling
server over one WebSocket per participant.

```
 sharer page (sharer.js) ──Wails──> App (main_windows.go / main_linux.go)
      │ Windows: captures itself           │ Linux: Session (session_linux.go)
      │                                    │        capture, portal, PipeWire
      └──────────── WebSocket ─────────────┤
                                  signaling server (session.go)
                                           │
                                       WebSocket
                                           │
                                  viewer page (viewer.js)
```

| component | state | operations | hard behaviour | what makes it correct |
|---|---|---|---|---|
| **signaling server** `internal/signaling/session.go` | sessions, clients, each client's session/id, outgoing queue of 32, closed | start, join, offer/answer/ice, disconnect-peer, stop; heartbeat and ping; write; deferred cleanup; Close | three goroutines per connection and one lock; emit to *another* client under the lock, overflow closes it; dead peers; Close racing a handshake | registry consistent in both directions; limit kept; nobody removed by a stranger; no update lost, counts right; the dead are removed |
| **native session** `internal/sharer/session_linux.go` | state shown, peers, held candidates, bitrates, contexts, `done`, media once, stop once | Start, run's handling of each message, addPeer, fail, setBitrate, send, stopMedia, Stop | run, pump, Stop, timers and WebRTC callbacks in goroutines of their own; three ways to end that wait for one another | "stopped" means stopped; Stop returns; first cause is shown; one viewer never costs another |
| **viewer page** `web/viewer/viewer.js` | active run, its socket, timer, watchdog, peer connection, promise queue; the page | join, cleanup, receive, callbacks | every await and callback may come after the run was replaced; promises that never settle | nothing of an old run survives; screen matches run; every attempt resolves; candidates in order |
| **sharer page** `web/sharer/sharer.js` | active run, stream, audio context, `audioOperation` chain, socket, peers with queues | Start, Stop, receive, callbacks | as above, plus a system picker and an audio capture of which there is only one | no capture outlives its run; only live media is shared; audio calls chained |
| **Windows App** `cmd/sharer/main_windows.go` | cancel, done | StartAudio, StopAudio | one capture at a time, failure after start | usable again after any end |
| **Linux App** `cmd/sharer/main_linux.go` | cancel, done | Start, Stop, share | polling of a session that ends while its context is cancelled | every share ends in "stopped" with its error |
| **capture** `internal/sharer/capture_linux.go`, `clock_linux.go` | GStreamer pipeline, bus error, closed | openCapture, pump, close, bitrate, clockTime | readers cancelled by each other; close never concurrent with pump | error not lost; RTP time right modulo 2^32 |
| **portal source** `internal/sharer/portal_linux.go` | portal session, D-Bus connection, PipeWire fd | SelectSource, request, Close | cancellation racing CreateSession, Closed signals | session always closed, done exactly once |
| **app audio** `internal/sharer/audio_linux.go`, `internal/winaudio`, `web/sharer/app-audio.js` | stream and process identity; WASAPI client, COM callback object; ring buffer | list, capture, activate; post, process | process ids used again; COM's threads; overflow of the ring | only the chosen sound, in order; nothing captures between shares |
| **commands, packaging, assets** | flags, files | | shutdown order | |

Interactions: messages over the WebSocket (server with the two sharers and the
viewer page); shared state under a lock (`Server.mu`, `Session.mu`); callbacks
(WebRTC, timers, promises); Wails calls from the page to the App.

`PROJECT.json` lists, under *hazards*, each place where one of these behaviours
bites, with the properties that guard it.

## 2. Modules

| module | models | composed from |
|---|---|---|
| `Signaling` | the server | |
| `ShareAccess` | what the server promises about access, abstractly | |
| `SignalingAccess` | the refinement mapping from `Signaling` to `ShareAccess` | `Signaling`, `INSTANCE ShareAccess` |
| `SignalingViews` | what far ends can conclude from the messages; liveness of the server | `Signaling` |
| `NativeSession` | the native sharer and its session at the server | |
| `Viewer` | the viewer page, with server and sharer as its environment | |
| `BrowserSharer` | the sharer page that captures itself, with the Windows App and its session at the server | |
| `PortalSource` | SelectSource, its Source and the desktop portal | |
| `DesktopApp` | the Linux App, the page that drives it and the webview between them | `PortalSource` |
| `Capture` | the GStreamer readers, their owner, and the correction of RTCP reports | |
| `AppAudio` | app audio on Windows: Capture, App, page and worklet | |
| `SignalingProofs` | theorems about the server, its refinement of `ShareAccess` and what it tells far ends | `Signaling`, `SignalingAccess`, `SignalingViews` |
| `NativeSessionProofs` | theorems about the native sharer | `NativeSession` |
| `QueueProofs` | lemmas about queues of messages and the numbered candidates in them, for the two below | none |
| `ViewerProofs` | theorems about the viewer page | `Viewer` |
| `BrowserProofs` | theorems about the capturing sharer page | `BrowserSharer` |
| `DesktopProofs` | theorems about a Source on its own and about the Linux App | `DesktopApp`, with `PortalSource` |
| `CaptureProofs` | theorems about the GStreamer readers, and about the arithmetic of RTP times | `Capture` |
| `AppAudioProofs` | theorems about app audio and its ring buffer | `AppAudio` |
| `MC*` | symmetry and state bounds for TLC | |

Each client-side module carries a small model of the server as its environment.
Those environments are written from the same lines of `session.go` as
`Signaling`, and `SignalingViews` states of the full server what they assume, checked and proved:
messages to one client arrive in order, counts agree with membership, and
relayed signaling arrives only within a membership. `Hear` says what a sharer makes of
a message, `PageHears` what the viewer page does.

### Signaling

A `Client` is one WebSocket connection; a reconnect is another `Client`.
`handler[c]` is where `ServeHTTP` is: *accepting*, *reading* (in `conn.Read`),
*holding* (a frame was read, waiting for `Server.mu`), *done*. `conn[c]` is
*open*, *silent* (the other machine vanished: nothing arrives, writes go
nowhere) or *closed*. One action is one critical section or one emit outside
it, so frames of several clients interleave between reading and handling:
what was read may be about a session that has ended in between. `Emit` is
`client.emit`: a full queue closes the connection. Because a closed connection
is only *noticed* by its own handler later (`Leave`), members whose connection is
closed stay in the registry for a while, as in the code.

Abstracted: a session's secret code is named like the session (a wrong code is a
different name); the reasons of a refused request are one message; whether an
SDP or candidate decodes is a Boolean input.

### NativeSession

The state from the return of `Start` on. `run` is the run goroutine
(*reading*; *media*: its deferred end is in stopMedia; *final*: about to write the
last state; *done*), `pump` the goroutine of `capture.pump`, `media` the state
of `stopMedia`, `stop` the one call of `Stop` (by the user or by the caller's
context). A local candidate is found while its peer is there and sent later
(`CandidateBegins`, `CandidateSends`), perhaps after the peer was closed; each peer
has one. Every callback is split where the code can be interrupted: `fail`
checks its context (`FailBegins`) and reports later (`FailReports`).
`peer[p]` distinguishes a peer that the sharer has closed but the server has not
yet confirmed (*dropped*) from one that left. `send` either succeeds or cancels
the run context. Bitrates are small numbers; `MinRate` and `MaxRate` stand for
200000 and 4000000.

### Viewer

A `Run` is one attempt to join. JavaScript runs each task to its end, so a task
or a microtask is one action, and `Drained` makes microtasks go first. `run[r]` is
the run object with its socket, timers and peer connection, and its `step` names
the promise a handler awaits; each await is a point where anything else may
happen. The environment admits, rejects, disconnects or ends at any moment, trickles
candidates before or after the offer, and may go silent.

### BrowserSharer

The same reading of `sharer.js`, plus the start handler's chain of awaits
(`run[r].phase`), a record per viewer (`peer[p]`), the `audioOperation` chain (`ops`, each with the StartAudio or
StopAudio call it makes of the App) and `capturing`, the App's `cancel`. On
`stop` the page closes its socket, so the far end is reset: nothing it does
afterwards can reach the page.

### PortalSource and DesktopApp

`source` is one call of SelectSource and the Source it returns: `at` names the
call it is in (*create* and *start* wait for a Response signal, *remote* for the
reply that owns a descriptor), `end` the once-only `end` split into the moment
`done` is closed and the Close it sends, and `conn`, `fd`, `audio` are what
`Close` must release. The portal handles messages in order, asks the user, and
may revoke the session, crash (`PortalDies`), or lose the bus (`BusDies`). An
error return runs the deferred Close (`Fail`, then `End`), and a cancellation is
seen at any check, or just too late for it. An answer that cannot be used is one
more error return (`Garbled`), after a close of the request or of the session that it
named.

`DesktopApp` uses the actions of `PortalSource` as steps of `App.share`: `app.pc` is
the place in `share`, its deferred calls being *unwind* (session.Stop), *close*
and *closing* (source.Close) and *final* (the function that reports). A session
is reduced to what `NativeSession` shows of it: it ends by itself, or once it is
stopped. `toPage` holds events and replies together: the webview executes them in
the order in which the App issued them. The page's `nativeStopping` is
`page.stopping`; a call of `App.Stop` waits for `nativeStart` (`halt`).

### Capture

`reader[r]` is a goroutine in `read`: openCapture's for the first packets, then
one per sink. A reader tells `failures` and cancels the others in two steps.
`start` follows Start through openCapture, dialing and its error returns;
`pump`, `run`, `error` and `stop` are what decides the end of the session.
`user` is a peer's goroutine inside `bitrate` or `clockTime`, which hold
`controlMu`; with a bound stream the report's RTP time is computed with the
widths of the code (`Long`, `Word`).

### AppAudio

One capture on the Windows side: `com` counts the references to the callback
object that Go and COM hold, `app` is StartAudio's and StopAudio's mutex and
cancel, `capture` the goroutine in Capture, `events` what is on its way to the
page, `ring` the worklet. A frame carries the share, the process and its
number, so that what is played can be compared with what was captured. Capture's
loop looks at the context and the process (`Looks`), emits packets (`Emits`),
comes back (`HasRead`) or fails in a call (`Breaks`). The page
makes one call of App at a time, which is what `AudioChainClean` of
`BrowserSharer` shows.

## 3. Runs

| run | instance | shows |
|---|---|---|
| `signaling` | 3 connections, 2 sessions, 2 tokens, 1 viewer per session, queue 1 | `Registry`, `ShutdownClosesAll`, `MembershipAuthority`, and that the server implements `ShareAccess` |
| `views` | 3 connections, 1 session, 3 tokens, 2 viewers, queue 2 | `ViewsAgree`, `RelayInOrder` |
| `views_live` | 2 connections, fair | `DeadMembersLeave`, `EndIsTold`, `ShutdownCompletes` |
| `native` | 1 viewer, 1 candidate held, fair | the ends of a share: `StoppedMeansStopped`, `NeverRejected`, `ErrorSticks`, `SessionEnds`, `BrokenPeerRemoved` |
| `native_viewers` | 3 viewers for 2 places, 2 rates, a share that is not being ended | `HealthyPeersStay`, `PeersAgree`, `EncoderFollows` |
| `viewer` | 2 runs, 1 candidate, 1 message in flight, 1 unsettled `play()` | `StaleRunsClosed`, `ScreenMatchesRun`, `ReasonStays` |
| `viewer_live` | 1 run, 2 candidates, 3 messages in flight, fair | `CandidatesInOrder`, `RunResolves` |
| `browser_share` | 2 runs, 1 viewer, 2 candidates, fair | `NothingOutlivesRun`, `SharedIsLive`, `AudioChainClean`, `CandidatesInOrder`, `ShareResolves` |
| `browser_viewers` | 1 run, 2 viewers, 3 messages in flight | `PeersAgree` |
| `desktop` | 2 shares one after the other, a portal and a bus that may break, fair | `SourceOutlivesCapture`, `NothingOutlivesShare`, `PageTellsTruth`, `ErrorShown`, `ShareEnds` |
| `capture` | 2 sinks, words of 4 and 8 bits, fair | `ErrorKept`, `NoUseAfterClose`, `ReportsExact`, `CaptureCloses` |
| `winaudio` | 2 shares, 2 processes with one id, ring of 3 frames, packets up to 4, fair | `SoundInOrder`, `NothingCapturedBetween`, `SoundLossStops` |

Each module also states its type invariant, `TypeOK`. The runs leave it to the
theorems of section 5: `TypeOKHolds` for the server, `TypeCorrect` in
`NativeSessionProofs`, `ViewerProofs`, `BrowserProofs`, `DesktopProofs` (which
has the Source's part from `SourceHolds`), `CaptureProofs` and `AppAudioProofs`.

Every property has a mutant in `PROJECT.json`: a plausible bug, written next to
the definition it replaces and marked `the bug:`, that the run then reports.

### Bounds, and why they are enough

* *Connections and tokens.* The registry's rules relate one session to one
  connection or two connections to each other (a sharer and a viewer, two
  viewers competing for the last place); three connections with a limit of one
  (`signaling`) or two (`views`) contain every such pair plus a bystander. The
  theorems of section 5 remove this bound for the safety properties of the registry.
* *Queue capacity* (`OutCap`, 32 in the code) is 1 or 2, so that overflow
  happens, also towards a client other than the one being served.
* `OneRequest`, `Bounds`: one frame waits for the lock at a time. What a frame
  asks is chosen when it is handled, so a second waiting frame adds no behaviour.
  `TrafficBound` caps the messages in all queues together; `views` leaves out
  silent peers and Close, which `signaling` and `views_live` contain.
* `Buffer` caps messages in flight to a client; a heartbeat is sent only when
  none is waiting. Larger buffers only delay the same messages.
* `Candidates` 2 gives an order to get wrong; each peer sends one candidate of
  its own.
* `Sharing` (run `native_viewers`) keeps to states in which the share is not
  being ended; run `native` covers the end.
* `OnePlay` (run `viewer`): one call of `video.play()` waits to settle at a time.
  Each call settles by itself and only looks at the run it was made for, so two at
  once are two of these in a row.
* `MaxStarts` 2 (run `desktop`): what one share leaves behind can only harm the next
  one. A new selection starts when the portal has handled what the previous one sent it:
  the two use different session and request names, so later messages of the old
  one concern nothing of the new.
* `Second`, `Rate`, `Word`, `Long` (run `capture`) keep the proportions of the code
  that matter: a rate below the ticks of a second, a word that wraps within the
  clock's range, and a product of clock and rate that overflows the long word
  although the result of the code's own order does not. `Running` has the values
  around those edges.
* `Cap` 3, `Threshold` 2, `Packets` 1, 2 and 4 (run `winaudio`): packets that fit, that
  overflow, that wrap, and one longer than the ring. `MaxFrames` ends a
  capture's sound, `MaxQueue` the events in flight.
* `CHECK_DEADLOCK FALSE` is set only where the system may stop: a page on which all
  runs are used up and the user does nothing more, a capture that is closed.

### Fairness

* Server: a goroutine that can run does; a held frame gets `Server.mu`; a failed
  read runs the cleanup; a queued message is written or its five-second timeout
  closes the connection; a ping to a dead peer times out (20 s + 10 s).
* Native session: the run goroutine, the pump's return and the steps of Stop;
  the server answers; the 30 s timer of a peer that never connects.
* Pages: a timer that is set fires; what has arrived is handled; the App's
  audio calls return. The watchdog is fair only on a silent link, because
  heartbeats may outrun it for ever.

* Linux App: the steps of `share`, of a Source that is ending and of the
  webview's queue; a session that was told to stop ends (`SessionEnds` shows it); a
  portal reads its messages. A selection is fair only once it is cancelled.
* Capture: a pull returns within 100 ms, dialing within 15 s, GStreamer's own calls
  return. `close` is strongly fair: a goroutine that waits for a Go mutex
  gets it although others keep taking it.
* App audio: calls of the system return, COM completes an activation, and the
  goroutine in Capture takes its next step. That this step sooner or later sees
  that the process or the context has ended is not assumed: the loop is modelled
  (*looking*, then *reading* packets until there are no more), and waits at
  most 50 ms in between.

Nothing makes a user, a picker, a portal's answer, a WebRTC promise, a connecting socket or a
remote peer act.

## 4. What the properties mean

They are stated in the modules, each with the code behaviour it is about. The
ones to start with:

* `ViewsAgree` — no update is lost, reordered or duplicated on the way to an
  open connection; if emit dropped a message instead of closing (session.go:169)
  a sharer's list would be wrong for ever.
* `ImplementsAccess` — any step of any goroutine is one of Begin, Admit, Depart,
  End, or no change of access at all.
* `StoppedMeansStopped`, `ErrorSticks` — the promise of `State()` to the user.
* `SessionEnds` — Stop, run and pump wait for one another (session_linux.go:135,
  :148, :161) and never form a cycle.
* `HealthyPeersStay` — a viewer's connection ends only by its own failure or
  departure while the share goes on.
* `StaleRunsClosed`, `NothingOutlivesRun` — the `active === run` guards of the
  pages are all there and suffice.
* `RunResolves` — *stopped* and *error* do not wait behind a hung promise
  (viewer.js:146).
* `NothingOutlivesShare` — whatever races it, the portal's session, the picker, the
  descriptor and the pipe are gone when the share is; without the second Close of
  portal_linux.go:57 a session created after the first would stay open.
* `ErrorKept`, `NoUseAfterClose` — who joins whom in capture_linux.go: a reader
  reports before it cancels the others, and nothing is freed under it.
* `ErrorShown` — an error the share has read reaches the page. `share` looks
  at its context first (main_linux.go:108), so the error of a session that fails
  in the moment its selection is revoked is not read, and the share ends without
  one; the property speaks of the errors that are read.

## 5. Proofs

The theorems hold for every value of the constants that the named assumptions
of a module allow: any set of clients, sessions, runs, viewers or sinks, any
limit, queue length, clock rate or ring size. Each `...Proofs` module has the
same layout: the inductive invariant in named parts with what each part says
about the code; lemmas about the sequences and records that steps make; one
lemma per handler or class of handlers that it keeps the invariant; and the
theorems, which follow from it. Every inductive invariant was first checked by TLC as an
invariant of the module's run, but for what its description below excepts.

| assumption | says |
|---|---|
| `LimitsAssumption`, `NoneAssumption` (Signaling) | both limits are positive; nil is no client, session or token |
| `SessionAssumption` (NativeSession), `SharerAssumption` (BrowserSharer), `ViewerAssumption` (Viewer) | limits are numbers and the ones that must be are positive, rates are ordered, `None` names nobody |
| `FaultsAssumption` (PortalSource), `MaxStartsAssumption` (DesktopApp) | what may break; at least one start |
| `ClockAssumption`, `SinkAssumption` (Capture) | a rate is positive and at most `Second`, one second in ticks fits the long word, offsets are words; there is a sink |
| `RingAssumption` (AppAudio) | sizes are positive, the threshold fits the ring, some process can be chosen |

**Server** (`SignalingProofs`).

1. `TypeOKHolds`. `TypeOK` is inductive only together with the finiteness of each
   viewers map, since `Cardinality` is a natural number only on finite sets:
   `Typed == TypeOK /\ FiniteViewers`.
2. `RegistryHolds`. `Registry` is inductive on top of `Typed` (`RegInv`). Its parts
   need one another: that a viewer removed by disconnect-peer is found under its own
   token needs both directions of the map; that Leave does the right thing needs
   that a session's clients still run. The step is split once (`NextChanges`):
   each step of the server changes the registry in one of seven ways —
   nothing, a client enters or leaves, a session starts or ends, a viewer
   is added or removed — and `Registry` is shown for each way, not for each request.
3. `CapacityHolds`: a count grows only in Join, behind its check.
4. `AuthorityHolds`: an action property, from `Registry` of the state before.
5. `ShutdownHolds`: after Close no registered connection is open; a
   registration that waited for the lock finds `closed`.
6. `ReapedHolds`: a finished handler holds no registration, session or slot; a
   consequence of `RegInv`.
7. `AccessImplemented`: `Spec => ImplementsAccess`. The same seven changes map
   to the actions of `ShareAccess` or to a stutter; that a client is `Free`
   before it enters needs `Registry`.
8. `ViewsDoAgree` and `RelaysComeInOrder`. `ViewInv` says of every open connection
   that its queue is `Sound`: it leads the program from what it was told to its place in
   the registry (`Actual`), every view on the way counts right, and every relayed
   message is due when it comes. What a step sends has to be what `Fits` the
   change of each place: one lemma per message (`FitsStarted`, `FitsViewerLeft`, ...), one per
   change of places (`PlacesEnd`, `PlacesRemove`, ...), and `EmitFaithful` puts them
   together for any batch. A full queue is no exception only because emit
   then closes the connection (session.go:169). `Heard` is a recursive function; that
   its equation has exactly one solution (`Determined`) would need induction over the
   queue, but is itself kept by each step, since a queue grows at its end and shrinks at
   its head by one message (`HeardMore`, `HeardFirst`). TLC has checked all of `ViewInv` but
   `Determined`, which quantifies over all functions.

**Native session** (`NativeSessionProofs`). `Ending` orders the ends: *stopped* is shown
only when run is done, which comes after media is closed, which comes after the
pump is done; `StoppedIsStopped` and `ErrorIsKept` follow. For `NeverIsRejected`,
`StoppedFirst` says that whatever refusal an ended session causes stands behind
a "stopped" in the queue. `HealthyStay` needs a cause for everything that is on
its way (`Caused`): a disconnect request, a failure report and a viewer-left each
belong to a viewer that broke or departed. `PeersDoAgree` needs the count in
*every* message of the queue, not only in the last: `View(i)` is the server's
map as it was when it sent the i-th message, and `Viewed` says that each message
carries the size of its own view and that views have at most `MaxPeers` members.
`EncoderDoesFollow` needs that a viewer who has not joined has no bitrate (`Rated`).

**Viewer page** (`ViewerProofs`). `StaleRunsClosed` and `ScreenMatchesRun` are inductive with
`Begun` (the current run has a socket; a call of play() belongs to a run that
was begun). `Kinds` reduces the actions to a few kinds of step (a
quiet one, a cleanup, a "joined", a join, ...), and each kind keeps the
invariant. `ReasonIsKept` is an action property from it. `CandidatesKeepOrder` needs
more (`OrderInv`): what the page has added, is adding and has set aside counts 1,
2, 3, ... (`Lined`), what each handler holds while it awaits (`Awaiting`), what comes in
the queue and behind it in the inbox continues the count (`InTurn`), no candidate
comes before the "joined" that makes the peer connection (`Welcomed`: without
it a candidate would be dropped), and a socket that is not open brings nothing
(`Fresh`). `QueueProofs` says once, for both pages, what appending, moving, taking and
dropping a message make of a queue (`Adding`, `Passing`, `Taking`, `Dropping`) and of the
candidates that are due in it (`TurnGrows`, `TurnTakes`, `TurnSkips`).

**Sharer page** (`BrowserProofs`). The invariant has two halves. `ShareInv` says
what each run may hold in each phase of its start handler, and what the chain of
audio operations looks like: a start is last as long as its run lasts, else
the stop of its run stands right behind it. `OfferedIsLive` and `AudioIsClean` follow.
`SessionInv` compares page and server through the queue: `At(q, ms, i)` are the
viewers the server had when it sent the i-th message, every message counts
them, and a viewer that the page lacks is about to be dismissed. `NothingOutlives`
and `ViewersAgree` follow. `CandidatesKeepOrder` adds a line per viewer (`Line`): that of
a viewer the page serves is in order (`Lined`, `Awaiting` and `InTurn`, as on the viewer
page, with the candidates told apart by viewer), and a viewer it has not heard of was
offered nothing and so has sent nothing (`Unknown`), which is why its line starts empty
when it joins.

**Desktop app and portal source** (`DesktopProofs`). `SourceInv` is proved of
`SourceSpec` alone, whoever calls it (`SourceHolds`, `SourceCleansUp`): what the portal was
asked is what the Source waits for, or a message that calls it off is on its way
(`Requested`), and an open session that nobody wants has its close-session in the
portal's queue (`Sessions`). `AppUsesSource` shows that every step of the app is a
step of the Source's own specification or leaves it alone, so the invariant
carries over to the composition without a second proof. The app's part adds which phase of
`share` needs which Source (`Phases`) and what events and replies are queued for
the page (`Called`, `Halting`, `Telling`): the queue holds a last "stopped" for
every page that still shows a share which has ended.

**Capture** (`CaptureProofs`). `NothingUsedAfterClose`: the pipeline belongs to Start until
it is started and then to the pump (`Owned`), and a reader is at work only
between two joins (`Opening`, `Pumped`). `ErrorIsKept`: the first failure in the
channel is the capture's own, because a reader that saw a cancellation had it
from one that had sent before (`Failing`). `ReportsAreExact` is arithmetic:
`RTPTimeExact` shows that splitting a running time into seconds and a rest
gives the exact quotient and that no product overflows the long word, from
uniqueness of division; the offset is then added modulo the word.

**App audio** (`AppAudioProofs`). `ControlInv` ties page, App's mutex, goroutine and COM
object together: a call of the page that is in App holds the mutex, a capture is
App's until its goroutine is done, and the callback object is rooted exactly
while it has references (`NothingLeft`). `InOrder` uses one order along which
all sound flows (`Flows`): heard before what is in the ring, before the events on their
way, before what is captured next. The ring's index arithmetic is in four
lemmas: where a place lies modulo the capacity (`Around`, `Back`), that a slot and
its place determine each other (`Place`), and that two shifts of the read index
are one (`Shift`); from them follow what an overflow drops, where a packet is
written and what a quantum takes.

**Only model-checked.** Liveness (`DeadMembersLeave`, `EndIsTold`, `ShutdownCompletes`,
`SessionEnds`, `BrokenPeerRemoved`, `RunResolves`, `ShareResolves`, `ErrorShown`, `ShareEnds`,
`CaptureCloses`, `SoundLossStops`): fairness and ENABLED are beyond the prover.
Every invariant and every action property that a run checks is also a theorem.


## 6. Not modelled, and why

* The content of SDP, candidates, codes and texts: no property tells them apart.
* WebRTC, ICE, GStreamer, WASAPI, D-Bus and Wails themselves: only the calls,
  failures and callbacks the code sees.
* Media: after `connected` the picture is taken to flow.
* Closing the window: OnBeforeClose and OnShutdown call the same `App.Stop` or
  `StopAudio`, and the process ends after it.
* The two-second limits of the portal's Close calls, which only bound how long a
  dead portal delays an end.
* The lists of apps, pactl's output and the choice of a monitor
  (audio_linux.go:81-111): data of the Pulse server. That an index may be given
  to another stream before parec attaches is a limit of that interface.
* The NTP time of sender reports, and pion's interceptor chain.
* The signaling command: it calls `Server.Close` and ends.
* Exits of the pages that end in a step which is modelled from the same state: a
  message that is no JSON (viewer.js:141-143 and its twin in sharer.js) or a
  `new WebSocket` that throws (viewer.js:155) ends like a closing socket, and the server
  sends nothing but JSON. `pagehide` on Linux calls the same `App.Stop` as the button.
* COM's references one by one: the pair that QueryInterface and Release make inside
  the callback (audio_windows.go:158-163) and those of other interfaces. Of the
  callback object COM holds one reference, dropped at any time after the call.
* In `AppAudio`, Start while the StopAudio of an earlier share is still out. The page
  can do so (a `pagehide` after `stop` enables Start, sharer.js:95) and
  `BrowserSharer` has it: the calls stay chained (`AudioChainClean`). An event names its
  capture, and the page drops those of another (`Current`), so a late one of the
  earlier share would do in `AppAudio` what it does there anyway.
* Time as numbers: a timeout may fire whenever it is set.

## 7. Plan

Order of work still open, most important first:

1. `ShareSystem` — the server with one native sharer and viewers in one state
   space, replacing the environments of the client modules; an abstract share
   ("who sees the screen") that it implements.
