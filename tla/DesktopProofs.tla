---------------------------- MODULE DesktopProofs ----------------------------
(* What holds of the Linux desktop app and of the source it shares for any   *)
(* number of starts and whatever breaks, with proofs checked by TLAPS.       *)
EXTENDS DesktopApp, TLAPS

-----------------------------------------------------------------------------
(* The invariant of the Source, in parts. *)

In(m) == \E k \in 1..Len(portal.inbox) : portal.inbox[k] = m
After(i, m) == \E k \in 1..Len(portal.inbox) : i < k /\ portal.inbox[k] = m
Asking(i) == portal.inbox[i] \in Method
Quiet == portal.request = "none" /\ \A i \in 1..Len(portal.inbox) : ~Asking(i)
(* An open session is about to be closed. *)
Closing == portal.session = "open" => In("close-session")

(* A portal that died has nothing to do. *)
Dead == ~portal.alive => portal.inbox = <<>> /\ portal.request = "none" /\ portal.session # "open"

(* The connection and the descriptor, by the state of the Source. *)
Held ==
    /\ source.at \in {"none", "bus"} => source.conn = "none" /\ portal = Waiting
    /\ source.at \in {"setup", "ready"} \cup Method => source.conn \in {"open", "lost"}
    /\ source.at = "remote" => source.conn # "none" /\ (source.conn = "closed" => source.end = "over")
    /\ source.at = "closing" => source.conn # "none"
    /\ Idle => source.conn # "open"
    /\ source.fd => source.at \in {"ready", "closing"}
    /\ source.at = "ready" => source.fd
    /\ source.audio # "none" => source.at \in {"ready", "closing"} \/ Idle
    /\ source.audio = "closed" => Idle
    /\ source.audio = "open" => ~Idle
    /\ source.at \notin {"closing", "failed"} => source.why = ""
    /\ source.at = "failed" => source.why # ""

(* What the portal was asked is what the Source waits for, and is called off *)
(* by a message on its way once the Source no longer waits.                  *)
Requested ==
    /\ source.at \in Method =>
          /\ ~source.asked => portal.answer = "none"
          /\ ~In("remote")
          /\ portal.request # "none" =>
                source.asked /\ portal.request = source.at /\ portal.answer = "none"
          /\ \A i \in 1..Len(portal.inbox) : Asking(i) =>
                /\ source.asked /\ portal.inbox[i] = source.at
                /\ portal.request = "none" /\ portal.answer = "none"
                /\ \A j \in 1..Len(portal.inbox) : Asking(j) => i = j
    /\ source.at \in {"none", "bus", "setup", "remote", "ready"} => Quiet
    /\ source.at = "setup" => portal.answer = "none" /\ ~In("remote")
    /\ source.at = "closing" /\ source.conn # "lost" =>
          /\ portal.request # "none" => In("close-request")
          /\ \A i \in 1..Len(portal.inbox) : Asking(i) => After(i, "close-request")
    /\ Idle /\ source.conn # "lost" =>
          /\ portal.request # "none" =>
                \E j \in 1..Len(portal.inbox) :
                    portal.inbox[j] = "close-request" /\ After(j, "close-session")
          /\ \A i \in 1..Len(portal.inbox) : Asking(i) =>
                \E j \in 1..Len(portal.inbox) :
                    /\ i < j /\ portal.inbox[j] = "close-request"
                    /\ After(j, "close-session")

(* The session that is open is closed by a message on its way. *)
Sessions ==
    /\ source.at = "remote" /\ source.end = "over" /\ source.conn # "lost" => Closing
    /\ source.at = "closing" /\ source.conn = "closed" => Quiet /\ Closing
    /\ Idle /\ source.conn # "lost" => Closing

-----------------------------------------------------------------------------
(* The invariant of the app, in parts. *)

Phases ==
    /\ app.active <=> app.pc # "none"
    /\ app.pc \in {"none", "begin"} => Idle
    /\ app.pc = "select" => source.at \notin {"none", "closed"}
                            /\ (source.at = "closing" => source.why # "")
    /\ app.pc \in {"audio", "connect", "start", "loop", "state", "unwind", "close"}
          => source.at = "ready"
    /\ app.pc = "closing" => source.at \in {"closing", "closed"} /\ source.why = ""
    /\ app.pc = "final" => Idle
    /\ app.pc \in {"begin", "select", "audio", "connect", "start"} => session.at = "none"
    /\ session.at = "live" => app.pc \in {"loop", "state", "unwind"}

Asked == \E n \in 1..Len(page.calls) : page.calls[n] = "asked"
Shows(i) == toPage[i].type = "share-state"
Over(i) == Shows(i) /\ toPage[i].state = "stopped"

Called ==
    /\ Len(page.calls) <= MaxStarts
    /\ app.n = IF Asked THEN Len(page.calls) - 1 ELSE Len(page.calls)
    /\ \A n \in 1..Len(page.calls) :
          /\ page.calls[n] # "refused"
          /\ page.calls[n] = "asked" => n = Len(page.calls) /\ ~app.active
    /\ \A i \in 1..Len(toPage) :
          /\ toPage[i].type # "refused"
          /\ toPage[i].type = "begun" => /\ toPage[i].call \in 1..Len(page.calls)
                                         /\ page.calls[toPage[i].call] # "asked"

Halting ==
    /\ page.stopping <=> halt.at # "no"
    /\ page.stopping => ~page.start /\ ~page.stop
    /\ ~page.stopping => page.stop = ~page.start
    /\ page.stop => Len(page.calls) > 0
    /\ halt.at # "no" => Len(page.calls) > 0
    /\ halt.at \in {"stopping", "returned"} => ~Asked
    /\ halt.at = "stopping" => ~app.active \/ halt.share = app.n
    /\ halt.at = "returned" => ~app.active
    /\ \A i \in 1..Len(toPage) : toPage[i].type = "returned" =>
          halt.at = "returned" /\ \A j \in 1..Len(toPage) : Shows(j) \/ toPage[j].type = "returned" => j <= i
    /\ halt.at = "returned" => \E i \in 1..Len(toPage) : toPage[i].type = "returned"

Telling ==
    /\ page.start => ~app.active /\ ~Asked /\ \A i \in 1..Len(toPage) : ~Shows(i)
    /\ app.active \/ Asked => \A i \in 1..Len(toPage) : ~Over(i)
    /\ \A i, j \in 1..Len(toPage) : Over(i) /\ Over(j) => i = j
    /\ halt.at = "no" /\ ~app.active /\ ~Asked /\ ~page.start =>
          \E i \in 1..Len(toPage) :
              Over(i) /\ \A j \in 1..Len(toPage) : Shows(j) => j <= i

SourceInv == SourceTypeOK /\ Dead /\ Held /\ Requested /\ Sessions

-----------------------------------------------------------------------------
(* Messages to the portal. *)

LEMMA Appending ==
    ASSUME NEW S, NEW q \in Seq(S), NEW m \in S
    PROVE  /\ Append(q, m) \in Seq(S)
           /\ Len(q) \in Nat /\ Len(Append(q, m)) = Len(q) + 1
           /\ \A i \in 1..Len(q) : Append(q, m)[i] = q[i]
           /\ Append(q, m)[Len(q) + 1] = m
  OBVIOUS

LEMMA Reading ==
    ASSUME NEW S, NEW q \in Seq(S), q # <<>>
    PROVE  /\ Tail(q) \in Seq(S) /\ Head(q) \in S /\ Head(q) = q[1]
           /\ Len(q) \in Nat \ {0} /\ Len(Tail(q)) = Len(q) - 1
           /\ \A i \in 1..(Len(q) - 1) : Tail(q)[i] = q[i + 1]
  OBVIOUS

Messages == Seq(Message)
LEMMA PortalIs ==
    /\ Portal = [alive : BOOLEAN, inbox : Messages, request : Method \cup {"none"},
                 session : {"none", "open", "closed"},
                 answer : {"none", "ok", "canceled", "failed"}]
    /\ <<>> \in Messages
  BY DEF Portal, Messages

(* A message that is told comes last, unless the connection is down. *)
LEMMA ToldEffect ==
    ASSUME SourceTypeOK, NEW m \in Message
    PROVE  /\ Told(m) \in Portal
           /\ Told(m).alive = portal.alive /\ Told(m).request = portal.request
           /\ Told(m).session = portal.session /\ Told(m).answer = portal.answer
           /\ \/ Told(m) = portal /\ (source.conn # "open" \/ ~portal.alive)
              \/ /\ source.conn = "open" /\ portal.alive
                 /\ Told(m).inbox = Append(portal.inbox, m)
<1>1. portal \in Portal /\ portal.inbox \in Messages
  BY PortalIs DEF SourceTypeOK
<1>2. CASE source.conn = "open" /\ portal.alive
  <2> DEFINE q == Append(portal.inbox, m)
  <2>1. q \in Messages
    BY <1>1 DEF Messages
  <2>2. Told(m) = [portal EXCEPT !.inbox = q]
    BY <1>2 DEF Told
  <2> HIDE DEF q
  <2>3. /\ Told(m) \in Portal /\ Told(m).alive = portal.alive /\ Told(m).request = portal.request
        /\ Told(m).session = portal.session /\ Told(m).answer = portal.answer
        /\ Told(m).inbox = q
    BY <1>1, <2>1, <2>2, PortalIs
  <2> QED  BY <1>2, <2>3 DEF q
<1>3. CASE ~(source.conn = "open" /\ portal.alive)
  <2>1. Told(m) = portal
    BY <1>3 DEF Told
  <2> QED  BY <1>1, <1>3, <2>1, PortalIs
<1> QED  BY <1>2, <1>3

(* What is in the inbox stays in it, in the same place. *)
LEMMA InboxGrows ==
    ASSUME SourceTypeOK, NEW m \in Message, portal'.inbox = Append(portal.inbox, m)
    PROVE  /\ In(m)' /\ \A x : In(x) => In(x)'
           /\ \A x : x # m /\ In(x)' => In(x)
           /\ \A i \in 1..Len(portal.inbox) :
                 /\ i \in 1..Len(portal'.inbox)
                 /\ portal'.inbox[i] = portal.inbox[i]
                 /\ Asking(i)' = Asking(i)
                 /\ (\A x : After(i, x) => After(i, x)') /\ After(i, m)'
           /\ \A i \in 1..Len(portal'.inbox) : i \in 1..Len(portal.inbox) \/ portal'.inbox[i] = m
<1>1. portal.inbox \in Seq(Message)
  BY DEF SourceTypeOK, Portal
<1>2. PICK n \in Nat : n = Len(portal.inbox)
  BY <1>1
<1>3. /\ Len(portal'.inbox) = n + 1 /\ portal'.inbox[n + 1] = m
      /\ \A i \in 1..n : portal'.inbox[i] = portal.inbox[i]
  BY <1>1, <1>2, Appending
<1>4. In(m)' /\ \A x : In(x) => In(x)'
  BY <1>2, <1>3 DEF In
<1>5. \A x : x # m /\ In(x)' => In(x)
  BY <1>2, <1>3 DEF In
<1>6. ASSUME NEW i \in 1..n
      PROVE  /\ i \in 1..(n + 1)
             /\ portal'.inbox[i] = portal.inbox[i] /\ Asking(i)' = Asking(i)
             /\ (\A x : After(i, x) => After(i, x)') /\ After(i, m)'
  <2>1. portal'.inbox[i] = portal.inbox[i] /\ Asking(i)' = Asking(i)
    BY <1>3 DEF Asking
  <2>2. \A x : After(i, x) => After(i, x)'
    BY <1>2, <1>3 DEF After
  <2>3. After(i, m)'
    <3>1. n + 1 \in 1..Len(portal'.inbox) /\ i < n + 1
      BY <1>2, <1>3
    <3> QED  BY <1>3, <3>1 DEF After
  <2> QED  BY <2>1, <2>2, <2>3
<1>7. \A i \in 1..(n + 1) : i \in 1..n \/ i = n + 1
  OBVIOUS
<1> QED  BY <1>2, <1>3, <1>4, <1>5, <1>6, <1>7

(* What is in the inbox moves up by one place. *)
LEMMA InboxShrinks ==
    ASSUME SourceTypeOK, portal.inbox # <<>>, portal'.inbox = Tail(portal.inbox)
    PROVE  /\ Head(portal.inbox) = portal.inbox[1] /\ 1 \in 1..Len(portal.inbox)
           /\ \A x : In(x)' => In(x)
           /\ \A x : In(x) /\ x # Head(portal.inbox) => In(x)'
           /\ \A x : After(1, x) => In(x)'
           /\ \A i \in 1..Len(portal'.inbox) :
                 /\ i + 1 \in 1..Len(portal.inbox)
                 /\ portal'.inbox[i] = portal.inbox[i + 1]
                 /\ Asking(i)' = Asking(i + 1)
                 /\ \A x : After(i + 1, x) => After(i, x)'
           /\ \A i \in 1..Len(portal.inbox) :
                 i = 1 \/ \E j \in 1..Len(portal'.inbox) : i = j + 1
<1>1. portal.inbox \in Seq(Message)
  BY DEF SourceTypeOK, Portal
<1>2. PICK n \in Nat \ {0} : n = Len(portal.inbox)
  BY <1>1, Reading
<1>3. /\ Head(portal.inbox) = portal.inbox[1] /\ Len(portal'.inbox) = n - 1
      /\ \A i \in 1..(n - 1) : portal'.inbox[i] = portal.inbox[i + 1]
  BY <1>1, <1>2, Reading
<1>4. \A i \in 1..n : i = 1 \/ \E j \in 1..(n - 1) : i = j + 1
  <2> SUFFICES ASSUME NEW i \in 1..n, i # 1
               PROVE  \E j \in 1..(n - 1) : i = j + 1
    OBVIOUS
  <2>1. i - 1 \in 1..(n - 1) /\ i = (i - 1) + 1
    OBVIOUS
  <2> QED  BY <2>1
<1>5. \A i \in 1..(n - 1) : i + 1 \in 1..n
  OBVIOUS
<1>6. \A x : In(x)' => In(x)
  BY <1>2, <1>3, <1>5 DEF In
<1>7. \A x : In(x) /\ x # Head(portal.inbox) => In(x)'
  BY <1>2, <1>3, <1>4 DEF In
<1>8. \A x : After(1, x) => In(x)'
  BY <1>2, <1>3, <1>4 DEF In, After
<1>9. ASSUME NEW i \in 1..(n - 1)
      PROVE  /\ portal'.inbox[i] = portal.inbox[i + 1] /\ Asking(i)' = Asking(i + 1)
             /\ \A x : After(i + 1, x) => After(i, x)'
  <2>1. portal'.inbox[i] = portal.inbox[i + 1] /\ Asking(i)' = Asking(i + 1)
    BY <1>3 DEF Asking
  <2>2. ASSUME NEW x, After(i + 1, x) PROVE After(i, x)'
    <3>1. PICK k \in 1..n : i + 1 < k /\ portal.inbox[k] = x
      BY <1>2, <2>2 DEF After
    <3>2. PICK l \in 1..(n - 1) : k = l + 1
      BY <1>4, <3>1
    <3>3. i < l /\ portal'.inbox[l] = x
      BY <1>3, <3>1, <3>2
    <3> QED  BY <1>3, <3>3 DEF After
  <2> QED  BY <2>1, <2>2
<1>10. 1 \in 1..n
  OBVIOUS
<1> QED  BY <1>2, <1>3, <1>4, <1>5, <1>6, <1>7, <1>8, <1>9, <1>10

-----------------------------------------------------------------------------
(* The steps of the Source. *)

SourceNext == Select \/ End \/ Far \/ Caller

LEMMA FailsEffect ==
    ASSUME SourceTypeOK, NEW why \in {"canceled", "failed"}
    PROVE  /\ Fail(why) \in Source /\ Fail(why).at = "closing" /\ ~Fail(why).asked
           /\ Fail(why).why = why
           /\ Fail(why).end = source.end /\ Fail(why).conn = source.conn
           /\ Fail(why).fd = source.fd /\ Fail(why).audio = source.audio
           /\ Fail(why).watched = source.watched
  BY DEF SourceTypeOK, Source, Fail

LEMMA FailsTyped ==
    ASSUME SourceTypeOK, Fails
    PROVE  /\ source' \in Source /\ source'.at = "closing" /\ ~source'.asked /\ source'.why # ""
           /\ source'.end = source.end /\ source'.conn = source.conn
           /\ source'.fd = source.fd /\ source'.audio = source.audio
           /\ source'.watched = source.watched
<1>1. PICK why \in {"canceled", "failed"} : source' = Fail(why)
  BY DEF Fails, Whys
<1> QED  BY <1>1, FailsEffect

(* The steps that leave the portal alone. *)
LEMMA SourceAlone ==
    ASSUME SourceInv, UNCHANGED portal,
           BusConnects \/ Subscribes \/ (source.at \in Method /\ ~source.asked /\ Fails)
             \/ RemoteAborts \/ EndBegins \/ CloseSource \/ UseAppAudio \/ BusDies
             \/ UNCHANGED source
    PROVE  source' \in Source /\ Held' /\ Requested' /\ Sessions'
<1>0. /\ source \in Source /\ portal \in Portal
      /\ portal' = portal /\ portal.inbox \in Seq(Message)
  BY DEF SourceInv, SourceTypeOK, Portal
<1>1. \A m, i : In(m)' = In(m) /\ After(i, m)' = After(i, m)
  BY <1>0 DEF In, After
<1>2. (\A i : Asking(i)' = Asking(i)) /\ Quiet' = Quiet /\ Closing' = Closing
  BY <1>0, <1>1 DEF Asking, Quiet, Closing
<1> USE DEF SourceInv
<1>3. CASE BusConnects
  <2>1. portal = Waiting
    BY <1>3 DEF BusConnects, Held
  <2>2. /\ portal.inbox = <<>> /\ Len(portal.inbox) = 0 /\ portal.request = "none"
        /\ portal.session = "none" /\ portal.answer = "none"
    BY <2>1 DEF Waiting
  <2>3. Quiet /\ Closing /\ \A m : ~In(m)
    BY <2>2 DEF Quiet, Closing, In
  <2>4. CASE source' = [source EXCEPT !.at = "setup", !.conn = "open"]
    <3>1. /\ source' \in Source /\ source'.at = "setup" /\ source'.conn = "open"
          /\ source'.fd = source.fd /\ source'.audio = source.audio /\ source'.why = source.why
      BY <1>0, <2>4 DEF Source
    <3>2. ~source.fd /\ source.audio = "none" /\ source.why = ""
      BY <1>0, <1>3 DEF BusConnects, Held, Idle, Source
    <3>3. Held'
      BY <3>1, <3>2 DEF Held, Idle, Method
    <3>4. Requested'
      BY <1>0, <1>2, <1>1, <2>2, <2>3, <3>1 DEF Requested, Idle, Method
    <3>5. Sessions'
      BY <3>1 DEF Sessions, Idle
    <3> QED  BY <3>1, <3>3, <3>4, <3>5
  <2>5. CASE \E why \in Whys :
                source' = [source EXCEPT !.at = "failed", !.why = why, !.conn = "closed"]
    <3>1. PICK why \in {"canceled", "failed"} :
              source' = [source EXCEPT !.at = "failed", !.why = why, !.conn = "closed"]
      BY <2>5 DEF Whys
    <3>2. /\ source' \in Source /\ source'.at = "failed" /\ source'.conn = "closed"
          /\ source'.fd = source.fd /\ source'.audio = source.audio /\ source'.why = why
      BY <1>0, <3>1 DEF Source
    <3>3. ~source.fd /\ source.audio = "none"
      BY <1>0, <1>3 DEF BusConnects, Held, Idle, Source
    <3>4. Held'
      BY <3>2, <3>3 DEF Held, Idle, Method
    <3>5. Requested'
      BY <1>0, <1>2, <1>1, <2>2, <2>3, <3>2 DEF Requested, Idle, Method
    <3>6. Sessions'
      BY <1>2, <2>3, <3>2 DEF Sessions, Idle
    <3> QED  BY <3>2, <3>4, <3>5, <3>6
  <2> QED  BY <1>3, <2>4, <2>5 DEF BusConnects
<1>4. CASE Fails /\ (source.at = "setup" \/ (source.at \in Method /\ ~source.asked))
  <2>1. /\ source' \in Source /\ source'.at = "closing" /\ source'.why # ""
        /\ source'.conn = source.conn /\ source'.fd = source.fd /\ source'.audio = source.audio
    BY <1>4, FailsTyped
  <2>2. /\ source.conn \in {"open", "lost"} /\ Quiet /\ source.audio # "closed"
    BY <1>0, <1>4 DEF Held, Requested, Quiet, Idle, Method, Source
  <2>3. Held'
    BY <1>4, <2>1, <2>2 DEF Held, Idle, Method
  <2>4. Requested'
    BY <1>2, <2>1, <2>2 DEF Requested, Quiet, Idle, Method
  <2>5. Sessions'
    BY <2>1, <2>2 DEF Sessions, Idle
  <2> QED  BY <2>1, <2>3, <2>4, <2>5
<1>5. CASE Subscribes /\ ~Fails
  <2>1. source' = [source EXCEPT !.at = "create", !.watched = TRUE] /\ source.at = "setup"
    BY <1>5 DEF Subscribes
  <2>2. /\ source' \in Source /\ source'.at = "create" /\ source'.conn = source.conn
        /\ source'.fd = source.fd /\ source'.audio = source.audio /\ source'.why = source.why
        /\ source'.asked = source.asked
    BY <1>0, <2>1 DEF Source, Method
  <2>3. Held'
    BY <2>1, <2>2 DEF Held, Idle, Method
  <2>4. Quiet /\ portal.answer = "none" /\ ~In("remote")
    BY <2>1 DEF Requested
  <2>5. Requested'
    BY <1>0, <1>1, <1>2, <2>2, <2>4 DEF Requested, Quiet, Idle, Method
  <2>6. Sessions'
    BY <2>2 DEF Sessions, Idle
  <2> QED  BY <2>2, <2>3, <2>5, <2>6
<1>6. CASE RemoteAborts
  <2>1. /\ source.at = "remote" /\ source.end = "over" /\ source.conn = "open"
        /\ source' = [source EXCEPT !.conn = "closed"]
    BY <1>6 DEF RemoteAborts
  <2>2. /\ source' \in Source /\ source'.at = "remote" /\ source'.conn = "closed"
        /\ source'.fd = source.fd /\ source'.audio = source.audio /\ source'.why = source.why
        /\ source'.end = "over"
    BY <1>0, <2>1 DEF Source
  <2>3. Quiet /\ Closing
    BY <2>1 DEF Requested, Sessions
  <2>4. Held'
    BY <2>1, <2>2 DEF Held, Idle, Method
  <2>5. Requested'
    BY <1>2, <2>2, <2>3 DEF Requested, Idle, Method
  <2>6. Sessions'
    BY <1>2, <2>2, <2>3 DEF Sessions, Idle
  <2> QED  BY <2>2, <2>4, <2>5, <2>6
<1>7. CASE EndBegins
  <2>1. source.end = "no" /\ source' = [source EXCEPT !.end = "begun"]
    BY <1>7 DEF EndBegins
  <2>2. /\ source' \in Source /\ source'.at = source.at /\ source'.conn = source.conn
        /\ source'.fd = source.fd /\ source'.audio = source.audio /\ source'.why = source.why
        /\ source'.asked = source.asked /\ source'.end = "begun"
    BY <1>0, <2>1 DEF Source
  <2>3. Held'
    BY <1>0, <2>1, <2>2 DEF Held, Idle
  <2>4. Requested'
    BY <1>0, <1>1, <1>2, <2>2 DEF Requested, Idle
  <2>5. Sessions'
    BY <1>2, <2>2 DEF Sessions, Idle
  <2> QED  BY <2>2, <2>3, <2>4, <2>5
<1>8. CASE CloseSource
  <2>1. source.at = "ready" /\ source' = [source EXCEPT !.at = "closing"]
    BY <1>8 DEF CloseSource
  <2>2. /\ source' \in Source /\ source'.at = "closing" /\ source'.conn = source.conn
        /\ source'.fd = source.fd /\ source'.audio = source.audio /\ source'.why = source.why
    BY <1>0, <2>1 DEF Source
  <2>3. source.conn \in {"open", "lost"} /\ Quiet
    BY <2>1 DEF Held, Requested
  <2>4. Held'
    BY <2>1, <2>2, <2>3 DEF Held, Idle, Method
  <2>5. Requested'
    BY <1>2, <2>2, <2>3 DEF Requested, Quiet, Idle, Method
  <2>6. Sessions'
    BY <2>2, <2>3 DEF Sessions, Idle
  <2> QED  BY <2>2, <2>4, <2>5, <2>6
<1>9. CASE UseAppAudio
  <2>1. source.at = "ready" /\ source' = [source EXCEPT !.audio = "open"]
    BY <1>9 DEF UseAppAudio
  <2>2. /\ source' \in Source /\ source'.at = "ready" /\ source'.conn = source.conn
        /\ source'.fd = source.fd /\ source'.audio = "open" /\ source'.why = source.why
    BY <1>0, <2>1 DEF Source
  <2>3. Held'
    BY <2>1, <2>2 DEF Held, Idle, Method
  <2>4. Requested' /\ Sessions'
    BY <1>2, <2>1, <2>2 DEF Requested, Sessions, Idle, Method
  <2> QED  BY <2>2, <2>3, <2>4
<1>10. CASE BusDies
  <2>1. source.conn = "open" /\ source' = [source EXCEPT !.conn = "lost"]
    BY <1>10 DEF BusDies
  <2>2. /\ source' \in Source /\ source'.at = source.at /\ source'.conn = "lost"
        /\ source'.fd = source.fd /\ source'.audio = source.audio /\ source'.why = source.why
        /\ source'.asked = source.asked /\ source'.end = source.end
    BY <1>0, <2>1 DEF Source
  <2>3. Held'
    BY <1>0, <2>1, <2>2 DEF Held, Idle, Method
  <2>4. Requested'
    BY <1>0, <1>1, <1>2, <2>2 DEF Requested, Idle
  <2>5. Sessions'
    BY <2>2 DEF Sessions
  <2> QED  BY <2>2, <2>3, <2>4, <2>5
<1>11. CASE UNCHANGED source
  <2>1. Held'
    BY <1>0, <1>11 DEF Held, Idle
  <2>2. Requested' /\ Sessions'
    BY <1>0, <1>1, <1>2, <1>11 DEF Requested, Sessions, Idle
  <2> QED  BY <1>0, <1>11, <2>1, <2>2
<1> QED  BY <1>3, <1>4, <1>5, <1>6, <1>7, <1>8, <1>9, <1>10, <1>11 DEF Subscribes

(* A portal that is dead is quiet, and stays so. *)
LEMMA DeadIsQuiet ==
    ASSUME SourceTypeOK, Dead, ~portal.alive
    PROVE  Quiet /\ Closing /\ portal.request = "none" /\ portal.inbox = <<>>
           /\ (\A m : ~In(m)) /\ \A i \in 1..Len(portal.inbox) : FALSE
<1>1. portal.inbox = <<>> /\ portal.request = "none" /\ portal.session # "open"
  BY DEF Dead
<1>2. Len(portal.inbox) = 0
  BY <1>1
<1> QED  BY <1>1, <1>2 DEF Quiet, Closing, In

(* The steps that tell the portal something. *)
LEMMA AsksKeeps ==
    ASSUME SourceInv, ctx' \in BOOLEAN, source.at \in Method \cup {"remote"}, ~source.asked,
           source' = [source EXCEPT !.asked = TRUE], portal' = Told(source.at)
    PROVE  SourceInv'
<1> USE DEF SourceInv
<1> DEFINE m == source.at
<1>0. /\ source \in Source /\ portal \in Portal /\ m \in Message /\ portal.inbox \in Seq(Message)
  BY DEF SourceTypeOK, Message, Portal
<1>1. /\ source' \in Source /\ source'.at = source.at /\ source'.conn = source.conn
      /\ source'.fd = source.fd /\ source'.audio = source.audio /\ source'.why = source.why
      /\ source'.asked /\ source'.end = source.end
  BY <1>0 DEF Source
<1>2. /\ portal' \in Portal
      /\ portal'.alive = portal.alive /\ portal'.request = portal.request
      /\ portal'.session = portal.session /\ portal'.answer = portal.answer
      /\ \/ portal' = portal
         \/ portal.alive /\ portal'.inbox = Append(portal.inbox, m)
  BY <1>0, ToldEffect
<1>3. Held'
  BY <1>0, <1>1 DEF Held, Idle, Method
<1>4. Quiet /\ (m \in Method => portal.answer = "none" /\ ~In("remote"))
  <2>1. CASE m \in Method
    BY <2>1 DEF Requested, Quiet
  <2>2. CASE m = "remote"
    BY <2>2 DEF Requested, Method
  <2> QED  BY <2>1, <2>2
<1>5. Dead'
  BY <1>2 DEF Dead
<1>6. CASE portal' = portal
  <2>1. Quiet' /\ Closing' = Closing /\ \A x : In(x)' = In(x)
    BY <1>4, <1>6 DEF Quiet, Asking, Closing, In
  <2>2. Requested'
    BY <1>0, <1>1, <1>4, <1>6, <2>1 DEF Requested, Quiet, Idle, Method
  <2>3. Sessions'
    BY <1>1, <2>1 DEF Sessions, Idle, Method
  <2> QED  BY <1>1, <1>2, <1>3, <1>5, <2>2, <2>3 DEF SourceTypeOK
<1>7. CASE portal'.inbox = Append(portal.inbox, m)
  <2>1. /\ In(m)' /\ \A x : In(x) => In(x)'
        /\ \A x : x # m /\ In(x)' => In(x)
        /\ \A i \in 1..Len(portal.inbox) : Asking(i)' = Asking(i)
    BY <1>0, <1>7, InboxGrows
  <2>2. Closing => Closing'
    BY <1>2, <2>1 DEF Closing
  <2>3. Sessions'
    BY <1>0, <1>1, <2>2 DEF Sessions, Idle, Method
  <2>4. PICK n \in Nat : n = Len(portal.inbox)
    BY <1>0
  <2>5. /\ Len(portal'.inbox) = n + 1 /\ portal'.inbox[n + 1] = m
        /\ \A i \in 1..n : ~Asking(i)'
    BY <1>0, <1>4, <1>7, <2>1, <2>4, Appending DEF Quiet
  <2>6. \A i \in 1..(n + 1) : i \in 1..n \/ i = n + 1
    OBVIOUS
  <2>7. portal'.request = "none"
    BY <1>2, <1>4 DEF Quiet
  <2>8. CASE m = "remote"
    <3>1. Quiet'
      BY <2>5, <2>6, <2>7, <2>8 DEF Quiet, Asking, Method
    <3> QED  BY <1>0, <1>1, <1>2, <1>3, <1>5, <2>3, <2>8, <3>1
             DEF Requested, Idle, Method, SourceTypeOK
  <2>9. CASE m \in Method
    <3>1. ~In("remote")'
      BY <1>4, <2>1, <2>9 DEF Method
    <3>2. \A i, j \in 1..Len(portal'.inbox) : Asking(i)' /\ Asking(j)' => i = j /\ portal'.inbox[i] = m
      BY <2>5, <2>6
    <3>3. Requested'
      BY <1>1, <1>2, <1>4, <2>7, <2>9, <3>1, <3>2 DEF Requested, Idle, Method
    <3> QED  BY <1>1, <1>2, <1>3, <1>5, <2>3, <3>3 DEF SourceTypeOK
  <2> QED  BY <1>0, <2>8, <2>9
<1> QED  BY <1>2, <1>6, <1>7

LEMMA AbortsKeeps ==
    ASSUME SourceInv, Aborts
    PROVE  SourceInv'
<1> USE DEF SourceInv
<1> DEFINE m == "close-request"
<1>0. /\ source \in Source /\ portal \in Portal /\ m \in Message /\ portal.inbox \in Seq(Message)
      /\ ctx' \in BOOLEAN
  BY DEF SourceTypeOK, Message, Portal, Aborts
<1>1. source.at \in Method /\ source.asked /\ Fails /\ portal' = Told(m)
  BY DEF Aborts
<1>2. /\ source' \in Source /\ source'.at = "closing" /\ source'.why # ""
      /\ source'.conn = source.conn /\ source'.fd = source.fd /\ source'.audio = source.audio
  BY <1>1, FailsTyped
<1>3. /\ portal' \in Portal
      /\ portal'.alive = portal.alive /\ portal'.request = portal.request
      /\ portal'.session = portal.session
      /\ \/ portal' = portal /\ (source.conn # "open" \/ ~portal.alive)
         \/ /\ source.conn = "open" /\ portal.alive
            /\ portal'.inbox = Append(portal.inbox, m)
  BY <1>0, <1>1, ToldEffect
<1>4. source.conn \in {"open", "lost"} /\ ~source.fd /\ source.audio = "none"
  BY <1>0, <1>1 DEF Held, Idle, Method, Source
<1>5. Held' /\ Sessions'
  BY <1>2, <1>4 DEF Held, Sessions, Idle, Method
<1>6. Dead'
  BY <1>3 DEF Dead
<1>7. Requested'
  <2>1. CASE source.conn = "lost"
    BY <1>2, <2>1 DEF Requested, Idle, Method
  <2>2. CASE ~portal.alive
    <3>1. portal' = portal /\ portal.request = "none" /\ \A i \in 1..Len(portal.inbox) : FALSE
      BY <1>3, <2>2, DeadIsQuiet
    <3> QED  BY <1>2, <3>1 DEF Requested, Idle, Method
  <2>3. CASE portal'.inbox = Append(portal.inbox, m)
    <3>1. /\ In(m)'
          /\ \A i \in 1..Len(portal.inbox) : After(i, m)'
          /\ \A i \in 1..Len(portal'.inbox) :
                i \in 1..Len(portal.inbox) \/ portal'.inbox[i] = m
      BY <1>0, <2>3, InboxGrows
    <3>2. \A i \in 1..Len(portal'.inbox) : Asking(i)' => After(i, m)'
      BY <3>1 DEF Asking, Method
    <3> QED  BY <1>2, <3>1, <3>2 DEF Requested, Idle, Method
  <2> QED  BY <1>3, <1>4, <2>1, <2>2, <2>3
<1> QED  BY <1>0, <1>2, <1>3, <1>5, <1>6, <1>7 DEF SourceTypeOK

LEMMA GarbledKeeps ==
    ASSUME SourceInv, Garbled
    PROVE  SourceInv'
<1> USE DEF SourceInv
<1>0. /\ source \in Source /\ portal \in Portal /\ portal.inbox \in Seq(Message)
      /\ ctx' \in BOOLEAN
  BY DEF SourceTypeOK, Portal, Garbled
<1>1. PICK m \in {"close-request", "close-session"} : portal' = [Told(m) EXCEPT !.answer = "none"]
  BY DEF Garbled
<1>2. /\ source' \in Source /\ source'.at = "closing" /\ source'.why # ""
      /\ source'.conn = source.conn /\ source'.fd = source.fd /\ source'.audio = source.audio
  BY FailsTyped DEF Garbled
<1>3. m \in Message /\ m \notin Method
  BY DEF Message, Method
<1>4. /\ portal' \in Portal
      /\ portal'.alive = portal.alive /\ portal'.request = portal.request
      /\ portal'.session = portal.session /\ portal'.answer = "none"
      /\ \/ portal'.inbox = portal.inbox
         \/ portal.alive /\ portal'.inbox = Append(portal.inbox, m)
  <2> DEFINE T == Told(m)
  <2>1. /\ T \in Portal /\ T.alive = portal.alive /\ T.request = portal.request
        /\ T.session = portal.session
        /\ T.inbox = portal.inbox \/ (portal.alive /\ T.inbox = Append(portal.inbox, m))
    BY <1>3, ToldEffect
  <2>2. portal' = [T EXCEPT !.answer = "none"]
    BY <1>1
  <2> HIDE DEF T
  <2> QED  BY <2>1, <2>2, PortalIs
<1>5. source.at \in Method /\ source.conn \in {"open", "lost"} /\ ~source.fd
      /\ source.audio = "none" /\ Quiet
  BY <1>0 DEF Garbled, Held, Requested, Quiet, Idle, Method, Source
<1>6. Held' /\ Sessions'
  BY <1>2, <1>5 DEF Held, Sessions, Idle, Method
<1>7. Dead'
  BY <1>4 DEF Dead
<1>8. Quiet'
  <2>1. CASE portal'.inbox = portal.inbox
    BY <1>4, <1>5, <2>1 DEF Quiet, Asking
  <2>2. CASE portal'.inbox = Append(portal.inbox, m)
    <3>1. \A i \in 1..Len(portal'.inbox) : Asking(i)' => i \in 1..Len(portal.inbox) /\ Asking(i)
      BY <1>3, <2>2, InboxGrows DEF Asking
    <3> QED  BY <1>4, <1>5, <3>1 DEF Quiet
  <2> QED  BY <1>4, <2>1, <2>2
<1>9. Requested'
  BY <1>2, <1>8 DEF Requested, Quiet, Idle, Method
<1> QED  BY <1>0, <1>2, <1>4, <1>6, <1>7, <1>9 DEF SourceTypeOK

LEMMA EndTellsKeeps ==
    ASSUME SourceInv, EndTells
    PROVE  SourceInv'
<1> USE DEF SourceInv
<1> DEFINE m == "close-session"
<1>0. /\ source \in Source /\ portal \in Portal /\ m \in Message /\ portal.inbox \in Seq(Message)
      /\ ctx' \in BOOLEAN
  BY DEF SourceTypeOK, Message, Portal, EndTells
<1>1. source.end = "begun" /\ source' = [source EXCEPT !.end = "over"] /\ portal' = Told(m)
  BY DEF EndTells
<1>2. /\ source' \in Source /\ source'.at = source.at /\ source'.conn = source.conn
      /\ source'.fd = source.fd /\ source'.audio = source.audio /\ source'.why = source.why
      /\ source'.asked = source.asked /\ source'.end = "over"
  BY <1>0, <1>1 DEF Source
<1>3. /\ portal' \in Portal
      /\ portal'.alive = portal.alive /\ portal'.request = portal.request
      /\ portal'.session = portal.session /\ portal'.answer = portal.answer
      /\ \/ portal' = portal /\ (source.conn # "open" \/ ~portal.alive)
         \/ /\ source.conn = "open" /\ portal.alive
            /\ portal'.inbox = Append(portal.inbox, m)
  BY <1>0, <1>1, ToldEffect
<1>4. Held'
  <2>1. source.at \in {"none", "bus"} => portal' = portal
    BY <1>3 DEF Held
  <2> QED  BY <1>0, <1>1, <1>2, <2>1 DEF Held, Idle, Method
<1>5. Dead'
  BY <1>3 DEF Dead
<1>6. CASE portal' = portal /\ (source.conn # "open" \/ ~portal.alive)
  <2>1. /\ Quiet' = Quiet /\ Closing' = Closing /\ \A i : Asking(i)' = Asking(i)
        /\ \A x, i : In(x)' = In(x) /\ After(i, x)' = After(i, x)
    BY <1>6 DEF Quiet, Asking, Closing, In, After
  <2>2. Requested'
    BY <1>0, <1>2, <1>6, <2>1 DEF Requested, Idle, Method
  <2>3. source.at = "remote" => Closing \/ source.conn = "lost"
    <3>1. source.at = "remote" => source.conn \in {"open", "lost"}
      BY <1>0, <1>1 DEF Held, Source
    <3>2. ~portal.alive => Closing
      BY DeadIsQuiet
    <3> QED  BY <1>6, <3>1, <3>2
  <2>4. Sessions'
    BY <1>2, <2>1, <2>3 DEF Sessions, Idle
  <2> QED  BY <1>0, <1>2, <1>3, <1>4, <1>5, <2>2, <2>4 DEF SourceTypeOK
<1>7. CASE source.conn = "open" /\ portal'.inbox = Append(portal.inbox, m)
  <2>1. /\ In(m)' /\ \A x : In(x) => In(x)'
        /\ \A x : x # m /\ In(x)' => In(x)
        /\ \A i \in 1..Len(portal.inbox) :
              /\ portal'.inbox[i] = portal.inbox[i] /\ Asking(i)' = Asking(i)
              /\ \A x : After(i, x) => After(i, x)'
        /\ \A i \in 1..Len(portal'.inbox) :
              i \in 1..Len(portal.inbox) \/ portal'.inbox[i] = m
    BY <1>0, <1>7, InboxGrows
  <2>2. Closing'
    BY <2>1 DEF Closing
  <2>3. \A i \in 1..Len(portal'.inbox) : Asking(i)' => i \in 1..Len(portal.inbox) /\ Asking(i)
    BY <2>1 DEF Asking, Method
  <2>4. Quiet => Quiet'
    BY <1>3, <2>3 DEF Quiet
  <2>5. ~Idle
    BY <1>7 DEF Held
  <2>6. Requested'
    <3>1. source.at \in Method => Requested'
      BY <1>0, <1>2, <1>3, <2>1, <2>3, <2>5 DEF Requested, Idle, Method
    <3>2. source.at \in {"none", "bus", "setup", "remote", "ready"} => Requested'
      <4>1. source.at = "setup" => portal'.answer = "none" /\ ~In("remote")'
        BY <1>3, <2>1 DEF Requested
      <4> QED  BY <1>2, <2>4, <2>5, <4>1 DEF Requested, Idle, Method
    <3>3. source.at = "closing" => Requested'
      BY <1>2, <1>3, <2>1, <2>3 DEF Requested, Idle, Method
    <3> QED  BY <1>0, <2>5, <3>1, <3>2, <3>3 DEF Source, Idle
  <2>7. Sessions'
    BY <1>2, <1>7, <2>2 DEF Sessions, Idle
  <2> QED  BY <1>0, <1>2, <1>3, <1>4, <1>5, <2>6, <2>7 DEF SourceTypeOK
<1> QED  BY <1>3, <1>6, <1>7

LEMMA ClosesKeeps ==
    ASSUME SourceInv, Closes
    PROVE  SourceInv'
<1> USE DEF SourceInv
<1> DEFINE m == "close-session"
           T == Told(m)
<1>0. /\ source \in Source /\ portal \in Portal /\ m \in Message /\ portal.inbox \in Seq(Message)
      /\ ctx' \in BOOLEAN
  BY DEF SourceTypeOK, Message, Portal, Closes
<1>1. source.at = "closing" /\ source.end = "over" /\ portal' = [T EXCEPT !.answer = "none"]
  BY DEF Closes, ClosedAgain
<1>2. /\ source' \in Source /\ source'.at \in {"closed", "failed"}
      /\ source'.conn \in {"closed", "lost"} /\ (source'.conn = "lost" <=> source.conn = "lost")
      /\ ~source'.fd /\ source'.audio # "open"
      /\ source'.why = source.why /\ (source'.at = "failed" <=> source.why # "")
  BY <1>0, <1>1 DEF Closes, Source
<1>3. /\ T \in Portal
      /\ T.alive = portal.alive /\ T.request = portal.request /\ T.session = portal.session
      /\ \/ T = portal /\ (source.conn # "open" \/ ~portal.alive)
         \/ /\ source.conn = "open" /\ portal.alive
            /\ T.inbox = Append(portal.inbox, m)
  BY <1>0, ToldEffect
<1> HIDE DEF T
<1>4. /\ portal' \in Portal /\ portal'.inbox = T.inbox
      /\ portal'.alive = portal.alive /\ portal'.request = portal.request
      /\ portal'.session = portal.session
  BY <1>1, <1>3, PortalIs
<1>5. Held'
  BY <1>2 DEF Held, Idle, Method
<1>6. Dead'
  BY <1>3, <1>4 DEF Dead
<1>7. Requested' /\ Sessions'
  <2>1. CASE source.conn = "lost"
    BY <1>2, <2>1 DEF Requested, Sessions, Idle, Method
  <2>2. CASE T = portal /\ source.conn # "lost"
    <3>1. Quiet /\ Closing
      <4>1. CASE ~portal.alive
        BY <4>1, DeadIsQuiet
      <4>2. CASE source.conn = "closed"
        BY <1>1, <4>2 DEF Sessions
      <4>3. source.conn \in {"open", "closed"}
        BY <1>0, <1>1, <2>2 DEF Held, Source
      <4> QED  BY <1>3, <2>2, <4>1, <4>2, <4>3
    <3>2. Quiet' /\ Closing'
      BY <1>4, <2>2, <3>1 DEF Quiet, Closing, Asking, In
    <3> QED  BY <1>2, <3>2 DEF Requested, Sessions, Quiet, Idle, Method
  <2>3. CASE source.conn = "open" /\ T.inbox = Append(portal.inbox, m)
    <3>1. /\ In(m)'
          /\ \A i \in 1..Len(portal.inbox) :
                /\ i \in 1..Len(portal'.inbox)
                /\ portal'.inbox[i] = portal.inbox[i] /\ Asking(i)' = Asking(i)
                /\ After(i, m)'
          /\ \A i \in 1..Len(portal'.inbox) :
                i \in 1..Len(portal.inbox) \/ portal'.inbox[i] = m
      BY <1>0, <1>4, <2>3, InboxGrows
    <3>2. \A j \in 1..Len(portal.inbox) : portal.inbox[j] = "close-request" =>
             j \in 1..Len(portal'.inbox) /\ portal'.inbox[j] = "close-request" /\ After(j, m)'
      BY <3>1
    <3>3. portal'.request # "none" =>
             \E j \in 1..Len(portal'.inbox) :
                 portal'.inbox[j] = "close-request" /\ After(j, m)'
      BY <1>1, <1>4, <2>3, <3>2 DEF Requested, In
    <3>4. ASSUME NEW i \in 1..Len(portal'.inbox), Asking(i)'
          PROVE  \E j \in 1..Len(portal'.inbox) :
                     i < j /\ portal'.inbox[j] = "close-request" /\ After(j, m)'
      <4>1. i \in 1..Len(portal.inbox) /\ Asking(i)
        BY <3>1, <3>4 DEF Asking, Method
      <4>2. After(i, "close-request")
        BY <1>1, <2>3, <4>1 DEF Requested
      <4>3. PICK j \in 1..Len(portal.inbox) : i < j /\ portal.inbox[j] = "close-request"
        BY <4>2 DEF After
      <4> QED  BY <3>2, <4>3
    <3>5. Closing'
      BY <3>1 DEF Closing
    <3> QED  BY <1>2, <3>3, <3>4, <3>5 DEF Requested, Sessions, Idle, Method
  <2> QED  BY <1>3, <2>1, <2>2, <2>3
<1> QED  BY <1>0, <1>2, <1>4, <1>5, <1>6, <1>7 DEF SourceTypeOK

(* The answers are read. *)
LEMMA ReadsKeeps ==
    ASSUME SourceInv, Answered \/ RemoteReturns
    PROVE  SourceInv'
<1> USE DEF SourceInv
<1>0. source \in Source /\ portal \in Portal /\ ctx \in BOOLEAN
  BY DEF SourceTypeOK
<1>1. portal' = [portal EXCEPT !.answer = "none"] /\ UNCHANGED ctx
  BY DEF Answered, RemoteReturns
<1>2. /\ portal' \in Portal /\ portal'.inbox = portal.inbox /\ portal'.alive = portal.alive
      /\ portal'.request = portal.request /\ portal'.session = portal.session
      /\ portal'.answer = "none"
  BY <1>0, <1>1, PortalIs
<1>3. /\ Quiet' = Quiet /\ Closing' = Closing /\ \A i : Asking(i)' = Asking(i)
      /\ \A x, i : In(x)' = In(x) /\ After(i, x)' = After(i, x)
  BY <1>2 DEF Quiet, Asking, Closing, In, After
<1>4. Dead'
  BY <1>2 DEF Dead
<1>5. Quiet
  <2>1. CASE Answered
    BY <2>1 DEF Answered, Requested, Quiet
  <2>2. CASE RemoteReturns
    BY <2>2 DEF RemoteReturns, Requested
  <2> QED  BY <2>1, <2>2
<1>6. source.at \in Method \cup {"remote"} /\ ~source.fd /\ source.audio = "none"
      /\ source.conn # "none" /\ source.why = ""
  BY <1>0 DEF Answered, RemoteReturns, Held, Idle, Method, Source
<1>7. ASSUME source' \in Source, source'.at = "closing", source'.conn = source.conn,
             source'.audio = source.audio
      PROVE  SourceInv'
  <2>1. Held'
    BY <1>6, <1>7 DEF Held, Idle, Method
  <2>2. Requested'
    BY <1>3, <1>5, <1>7 DEF Requested, Quiet, Idle, Method
  <2>3. source.conn = "closed" => Closing
    BY <1>6 DEF Held, Sessions, Method
  <2>4. Sessions'
    BY <1>3, <1>5, <1>7, <2>3 DEF Sessions, Idle
  <2> QED  BY <1>0, <1>1, <1>2, <1>4, <1>7, <2>1, <2>2, <2>4 DEF SourceTypeOK
<1>8. ASSUME NEW why \in {"canceled", "failed"}, source' = Fail(why) PROVE SourceInv'
  BY <1>7, <1>8, FailsEffect
<1>9. CASE Answered /\ ~Cancelled
           /\ source' = [source EXCEPT !.at = Following(@), !.asked = FALSE]
  <2>1. /\ source' \in Source /\ source'.conn = source.conn
        /\ source'.fd = source.fd /\ source'.audio = source.audio /\ source'.why = source.why
        /\ source'.end = source.end /\ ~source'.asked
        /\ source'.at \in {"start", "remote"}
        /\ source'.at = "start" => source.at = "create"
    BY <1>0, <1>9 DEF Source, Following, Method
  <2>2. source.end = "no" /\ source.at \in Method /\ source.conn \in {"open", "lost"}
        /\ ~In("remote")
    BY <1>9 DEF Answered, Cancelled, Held, Requested
  <2>3. Held'
    BY <1>6, <2>1, <2>2 DEF Held, Idle, Method
  <2>4. Requested'
    BY <1>2, <1>3, <1>5, <2>1, <2>2 DEF Requested, Quiet, Idle, Method
  <2>5. Sessions'
    BY <2>1, <2>2 DEF Sessions, Idle
  <2> QED  BY <1>0, <1>1, <1>2, <1>4, <2>1, <2>3, <2>4, <2>5 DEF SourceTypeOK
<1>10. CASE RemoteReturns /\ Cancelled /\ source' = [Fail("canceled") EXCEPT !.fd = TRUE]
  <2> DEFINE F == Fail("canceled")
  <2>1. F \in Source /\ F.at = "closing" /\ F.conn = source.conn /\ F.audio = source.audio
    BY <1>0, FailsEffect
  <2>2. source' = [F EXCEPT !.fd = TRUE]
    BY <1>10
  <2> HIDE DEF F
  <2>3. source' \in Source /\ source'.at = "closing" /\ source'.conn = source.conn
        /\ source'.audio = source.audio
    BY <2>1, <2>2 DEF Source
  <2> QED  BY <1>7, <2>3
<1>11. CASE RemoteReturns /\ ~Cancelled
            /\ source' = [source EXCEPT !.at = "ready", !.asked = FALSE, !.fd = TRUE]
  <2>1. /\ source' \in Source /\ source'.conn = source.conn /\ source'.fd
        /\ source'.audio = source.audio /\ source'.why = source.why /\ source'.at = "ready"
    BY <1>0, <1>11 DEF Source
  <2>2. source.end = "no" /\ source.at = "remote" /\ source.conn \in {"open", "lost"}
    BY <1>0, <1>11 DEF RemoteReturns, Cancelled, Held, Source
  <2>3. Held'
    BY <1>6, <2>1, <2>2 DEF Held, Idle, Method
  <2>4. Requested' /\ Sessions'
    BY <1>3, <1>5, <2>1 DEF Requested, Sessions, Idle, Method
  <2> QED  BY <1>0, <1>1, <1>2, <1>4, <2>1, <2>3, <2>4 DEF SourceTypeOK
<1> QED  BY <1>8, <1>9, <1>10, <1>11 DEF Answered, RemoteReturns, Fails, Whys

LEMMA SelectKeeps ==
    ASSUME SourceInv, SelectSource
    PROVE  SourceInv'
<1>1. Waiting \in Portal /\ Waiting.inbox = <<>> /\ Waiting.request = "none"
      /\ Waiting.session = "none" /\ Waiting.alive
  BY PortalIs DEF Waiting
<1>2. portal' = Waiting /\ Len(portal'.inbox) = 0 /\ ctx' \in BOOLEAN
  BY <1>1 DEF SelectSource, SourceInv, SourceTypeOK
<1>3. Quiet' /\ Closing' /\ Dead' /\ \A x : ~In(x)'
  BY <1>1, <1>2 DEF Quiet, Closing, Dead, In
<1>4. /\ source' \in Source /\ source'.conn = "none" /\ ~source'.fd /\ source'.audio = "none"
      /\ source'.at \in {"bus", "failed"} /\ (source'.why = "" <=> source'.at = "bus")
  BY DEF SelectSource, Unselected, Source
<1>5. Held'
  BY <1>2, <1>4 DEF Held, Idle, Method
<1>6. Requested' /\ Sessions'
  BY <1>3, <1>4 DEF Requested, Sessions, Quiet, Idle, Method
<1> QED  BY <1>1, <1>2, <1>3, <1>4, <1>5, <1>6 DEF SourceInv, SourceTypeOK

(* The steps of the portal. *)
LEMMA PortalStep ==
    ASSUME SourceInv, UNCHANGED source, portal # Waiting
    PROVE  Held' /\ source.at \notin {"none", "bus"}
<1>1. source.at \notin {"none", "bus"}
  BY DEF SourceInv, Held
<1> QED  BY <1>1 DEF SourceInv, Held, Idle

LEMMA HandlesKeeps ==
    ASSUME SourceInv, PortalHandles
    PROVE  SourceInv'
<1> USE DEF SourceInv
<1> DEFINE m == Head(portal.inbox)
           q == Tail(portal.inbox)
           P == [portal EXCEPT !.inbox = q]
<1>0. /\ source \in Source /\ portal \in Portal /\ ctx' \in BOOLEAN
      /\ portal.inbox \in Messages /\ portal.inbox # <<>>
      /\ source' = source
  BY PortalIs DEF SourceTypeOK, PortalHandles
<1>1. m \in Message /\ q \in Messages
  BY <1>0, Reading DEF Messages
<1>2. \/ m \in Method /\ portal' = [P EXCEPT !.request = m]
      \/ /\ m = "remote"
         /\ \E a \in {"ok", "failed"} : portal' = [P EXCEPT !.answer = Delivered(a)]
      \/ m = "close-request" /\ portal' = [P EXCEPT !.request = "none"]
      \/ /\ m = "close-session"
         /\ portal' = [P EXCEPT !.session = IF @ = "open" THEN "closed" ELSE @]
  BY DEF PortalHandles
<1>3. \A a \in {"ok", "failed"} : Delivered(a) \in {"none", "ok", "canceled", "failed"}
  BY <1>0, PortalIs DEF Delivered
<1> HIDE DEF m, q
<1>4. P \in Portal /\ P.inbox = q /\ P.alive = portal.alive /\ P.request = portal.request
      /\ P.session = portal.session /\ P.answer = portal.answer
  BY <1>0, <1>1, PortalIs
<1> HIDE DEF P
<1>5. /\ portal' \in Portal /\ portal'.inbox = q /\ portal'.alive = portal.alive
      /\ \/ /\ m \in Method /\ portal'.request = m /\ portal'.session = portal.session
            /\ portal'.answer = portal.answer
         \/ /\ m = "remote" /\ portal'.request = portal.request
            /\ portal'.session = portal.session
         \/ /\ m = "close-request" /\ portal'.request = "none"
            /\ portal'.session = portal.session /\ portal'.answer = portal.answer
         \/ /\ m = "close-session" /\ portal'.request = portal.request
            /\ portal'.session # "open" /\ portal'.answer = portal.answer
  <2>1. CASE m \in Method /\ portal' = [P EXCEPT !.request = m]
    BY <1>4, <2>1, PortalIs
  <2>2. CASE m = "remote" /\ \E a \in {"ok", "failed"} : portal' = [P EXCEPT !.answer = Delivered(a)]
    BY <1>3, <1>4, <2>2, PortalIs
  <2>3. CASE m = "close-request" /\ portal' = [P EXCEPT !.request = "none"]
    BY <1>4, <2>3, PortalIs
  <2>4. CASE /\ m = "close-session"
             /\ portal' = [P EXCEPT !.session = IF @ = "open" THEN "closed" ELSE @]
    BY <1>4, <2>4, PortalIs
  <2> QED  BY <1>2, <2>1, <2>2, <2>3, <2>4
<1>6. portal'.inbox = Tail(portal.inbox)
  BY <1>5 DEF q
<1>7. /\ m = portal.inbox[1] /\ 1 \in 1..Len(portal.inbox)
      /\ \A x : In(x)' => In(x)
      /\ \A x : In(x) /\ x # m => In(x)'
      /\ \A x : After(1, x) => In(x)'
      /\ \A i \in 1..Len(portal'.inbox) :
            /\ i + 1 \in 1..Len(portal.inbox)
            /\ portal'.inbox[i] = portal.inbox[i + 1]
            /\ Asking(i)' = Asking(i + 1)
            /\ \A x : After(i + 1, x) => After(i, x)'
      /\ \A i \in 1..Len(portal.inbox) :
            i = 1 \/ \E j \in 1..Len(portal'.inbox) : i = j + 1
  BY <1>0, <1>6, InboxShrinks DEF m
<1>8. Asking(1) <=> m \in Method
  BY <1>7 DEF Asking
<1>9. Quiet => m \notin Method
  BY <1>7, <1>8 DEF Quiet
<1>10. Quiet => Quiet'
  BY <1>5, <1>7, <1>9 DEF Quiet
<1>11. Closing => Closing'
  <2>1. m = "close-session" => portal'.session # "open"
    BY <1>5 DEF Method
  <2> QED  BY <1>5, <1>7, <2>1 DEF Closing
<1>12. portal # Waiting
  BY <1>0 DEF Waiting
<1>13. Held' /\ source.at \notin {"none", "bus"}
  BY <1>0, <1>12, PortalStep
<1>14. Dead'
  BY <1>0, <1>5 DEF Dead
<1>15. Sessions'
  BY <1>0, <1>10, <1>11 DEF Sessions, Idle
<1>16. In("remote")' => In("remote")
  BY <1>7
<1>17. CASE source.at \in Method
  <2>1. m # "remote"
    BY <1>7, <1>17 DEF Requested, In
  <2>2. portal'.answer = portal.answer
    BY <1>5, <2>1
  <2>3. ASSUME NEW i \in 1..Len(portal'.inbox), Asking(i)'
        PROVE  /\ source.asked /\ portal'.inbox[i] = source.at
               /\ portal'.request = "none" /\ portal'.answer = "none"
               /\ \A j \in 1..Len(portal'.inbox) : Asking(j)' => i = j
    <3>1. i + 1 \in 1..Len(portal.inbox) /\ Asking(i + 1) /\ portal'.inbox[i] = portal.inbox[i + 1]
      BY <1>7, <2>3
    <3>2. /\ source.asked /\ portal.inbox[i + 1] = source.at
          /\ portal.request = "none" /\ portal.answer = "none"
          /\ \A j \in 1..Len(portal.inbox) : Asking(j) => i + 1 = j
      BY <1>17, <3>1 DEF Requested
    <3>3. m \notin Method
      <4>1. Asking(1) => i + 1 = 1
        BY <1>7, <3>2
      <4> QED  BY <1>8, <4>1
    <3>4. portal'.request = "none"
      BY <1>5, <3>2, <3>3
    <3>5. ASSUME NEW j \in 1..Len(portal'.inbox), Asking(j)' PROVE i = j
      <4>1. i + 1 = j + 1
        BY <1>7, <3>2, <3>5
      <4> QED  BY <4>1
    <3> QED  BY <2>2, <3>1, <3>2, <3>4, <3>5
  <2>4. portal'.request # "none" =>
            source.asked /\ portal'.request = source.at /\ portal'.answer = "none"
    <3>1. CASE m \in Method
      <4>1. source.asked /\ m = source.at /\ portal.answer = "none"
        BY <1>7, <1>8, <1>17, <3>1 DEF Requested
      <4>2. portal'.request = m
        BY <1>5, <3>1 DEF Method
      <4> QED  BY <2>2, <4>1, <4>2
    <3>2. CASE m \notin Method
      BY <1>5, <1>17, <2>2, <3>2 DEF Requested
    <3> QED  BY <3>1, <3>2
  <2>5. ~source.asked => portal'.answer = "none"
    BY <1>17, <2>2 DEF Requested
  <2>6. ~In("remote")'
    BY <1>16, <1>17 DEF Requested
  <2>7. Requested'
    BY <1>0, <1>17, <2>3, <2>4, <2>5, <2>6 DEF Requested, Idle, Method
  <2> QED  BY <1>0, <1>5, <1>13, <1>14, <1>15, <2>7 DEF SourceTypeOK
<1>18. CASE source.at \in {"setup", "remote", "ready"}
  <2>1. Quiet'
    BY <1>10, <1>18 DEF Requested
  <2>2. source.at = "setup" => portal'.answer = "none" /\ ~In("remote")'
    <3>1. source.at = "setup" => m # "remote" /\ portal.answer = "none"
      BY <1>7 DEF Requested, In
    <3> QED  BY <1>5, <1>16, <3>1 DEF Requested
  <2>3. Requested'
    BY <1>0, <1>18, <2>1, <2>2 DEF Requested, Idle, Method
  <2> QED  BY <1>0, <1>5, <1>13, <1>14, <1>15, <2>3 DEF SourceTypeOK
<1>19. CASE source.at = "closing"
  <2>1. CASE source.conn = "lost"
    BY <1>0, <1>5, <1>13, <1>14, <1>15, <1>19, <2>1 DEF Requested, Idle, Method, SourceTypeOK
  <2>2. CASE source.conn # "lost"
    <3>1. portal'.request # "none" => In("close-request")'
      <4>1. CASE m \in Method
        <5>1. After(1, "close-request")
          BY <1>7, <1>8, <1>19, <2>2, <4>1 DEF Requested
        <5> QED  BY <1>7, <5>1
      <4>2. CASE m \notin Method /\ m # "close-request"
        BY <1>5, <1>7, <1>19, <2>2, <4>2 DEF Requested
      <4>3. CASE m = "close-request"
        BY <1>5, <4>3 DEF Method
      <4> QED  BY <4>1, <4>2, <4>3
    <3>2. \A i \in 1..Len(portal'.inbox) : Asking(i)' => After(i, "close-request")'
      BY <1>7, <1>19, <2>2 DEF Requested
    <3>3. Requested'
      BY <1>0, <1>19, <3>1, <3>2 DEF Requested, Idle, Method
    <3> QED  BY <1>0, <1>5, <1>13, <1>14, <1>15, <3>3 DEF SourceTypeOK
  <2> QED  BY <2>1, <2>2
<1>20. CASE source.at \in {"failed", "closed"}
  <2>1. CASE source.conn = "lost"
    BY <1>0, <1>5, <1>13, <1>14, <1>15, <1>20, <2>1 DEF Requested, Idle, Method, SourceTypeOK
  <2>2. CASE source.conn # "lost"
    <3>0. /\ portal.request # "none" =>
                \E j \in 1..Len(portal.inbox) :
                    portal.inbox[j] = "close-request" /\ After(j, "close-session")
          /\ \A i \in 1..Len(portal.inbox) : Asking(i) =>
                \E j \in 1..Len(portal.inbox) :
                    /\ i < j /\ portal.inbox[j] = "close-request"
                    /\ After(j, "close-session")
      BY <1>20, <2>2 DEF Requested, Idle
    <3>1. ASSUME NEW j \in 1..Len(portal.inbox), j # 1, portal.inbox[j] = "close-request",
                 After(j, "close-session")
          PROVE  \E k \in 1..Len(portal'.inbox) :
                    j = k + 1 /\ portal'.inbox[k] = "close-request" /\ After(k, "close-session")'
      <4>1. PICK k \in 1..Len(portal'.inbox) : j = k + 1
        BY <1>7, <3>1
      <4> QED  BY <1>7, <3>1, <4>1
    <3>2. portal'.request # "none" =>
             \E k \in 1..Len(portal'.inbox) :
                 portal'.inbox[k] = "close-request" /\ After(k, "close-session")'
      <4>1. CASE m \in Method
        <5>1. PICK j \in 1..Len(portal.inbox) :
                    1 < j /\ portal.inbox[j] = "close-request" /\ After(j, "close-session")
          BY <1>7, <1>8, <3>0, <4>1
        <5> QED  BY <3>1, <5>1
      <4>2. CASE m = "close-request"
        BY <1>5, <4>2 DEF Method
      <4>3. CASE m \notin Method /\ m # "close-request"
        <5>1. SUFFICES ASSUME portal.request # "none"
                       PROVE  \E k \in 1..Len(portal'.inbox) :
                                portal'.inbox[k] = "close-request" /\ After(k, "close-session")'
          BY <1>5, <4>3
        <5>2. PICK j \in 1..Len(portal.inbox) :
                    portal.inbox[j] = "close-request" /\ After(j, "close-session")
          BY <3>0, <5>1
        <5>3. j # 1
          BY <1>7, <4>3, <5>2
        <5> QED  BY <3>1, <5>2, <5>3
      <4> QED  BY <4>1, <4>2, <4>3
    <3>3. ASSUME NEW i \in 1..Len(portal'.inbox), Asking(i)'
          PROVE  \E k \in 1..Len(portal'.inbox) :
                    /\ i < k /\ portal'.inbox[k] = "close-request"
                    /\ After(k, "close-session")'
      <4>1. PICK j \in 1..Len(portal.inbox) :
                    i + 1 < j /\ portal.inbox[j] = "close-request" /\ After(j, "close-session")
        BY <1>7, <3>0, <3>3
      <4>2. PICK k \in 1..Len(portal'.inbox) :
                    j = k + 1 /\ portal'.inbox[k] = "close-request" /\ After(k, "close-session")'
        BY <3>1, <4>1
      <4>3. i < k
        BY <4>1, <4>2
      <4> QED  BY <4>2, <4>3
    <3>4. Requested'
      BY <1>0, <1>20, <3>2, <3>3 DEF Requested, Idle, Method
    <3> QED  BY <1>0, <1>5, <1>13, <1>14, <1>15, <3>4 DEF SourceTypeOK
  <2> QED  BY <2>1, <2>2
<1> QED  BY <1>0, <1>13, <1>17, <1>18, <1>19, <1>20 DEF Source

LEMMA AnswersKeeps ==
    ASSUME SourceInv, PortalAnswers
    PROVE  SourceInv'
<1> USE DEF SourceInv
<1>0. /\ source \in Source /\ portal \in Portal /\ ctx' \in BOOLEAN /\ source' = source
      /\ portal.request # "none"
  BY DEF SourceTypeOK, PortalAnswers
<1>1. PICK a \in {"ok", "canceled", "failed"} :
          portal' = [portal EXCEPT !.request = "none", !.answer = Delivered(a),
                                   !.session = IF a = "ok" /\ portal.request = "create"
                                               THEN "open" ELSE @]
  BY DEF PortalAnswers
<1>2. Delivered(a) \in {"none", "ok", "canceled", "failed"}
  BY <1>0, PortalIs DEF Delivered
<1>3. /\ portal' \in Portal /\ portal'.inbox = portal.inbox /\ portal'.alive = portal.alive
      /\ portal'.request = "none"
  <2>1. PICK s \in {"none", "open", "closed"} :
            portal' = [portal EXCEPT !.request = "none", !.answer = Delivered(a), !.session = s]
    <3>1. portal.session \in {"none", "open", "closed"}
      BY <1>0, PortalIs
    <3> QED  BY <1>1, <3>1
  <2> QED  BY <1>0, <1>2, <2>1, PortalIs
<1>4. /\ \A i : Asking(i)' = Asking(i)
      /\ \A x, i : In(x)' = In(x) /\ After(i, x)' = After(i, x)
  BY <1>3 DEF Asking, In, After
<1>5. portal # Waiting
  BY <1>0 DEF Waiting
<1>6. Held' /\ source.at \notin {"none", "bus"}
  BY <1>0, <1>5, PortalStep
<1>7. Dead'
  BY <1>0, <1>3 DEF Dead
<1>8. source.at \in Method \cup {"closing", "failed", "closed"}
  BY <1>0, <1>6 DEF Requested, Quiet, Source
<1>9. Requested'
  <2>1. CASE source.at \in Method
    <3>1. source.asked /\ \A i \in 1..Len(portal.inbox) : ~Asking(i)
      BY <1>0, <2>1 DEF Requested
    <3>2. ~In("remote")
      BY <2>1 DEF Requested
    <3> QED  BY <1>0, <1>3, <1>4, <2>1, <3>1, <3>2 DEF Requested, Idle, Method
  <2>2. CASE source.at = "closing"
    BY <1>0, <1>3, <1>4, <2>2 DEF Requested, Idle, Method
  <2>3. CASE source.at \in {"failed", "closed"}
    BY <1>0, <1>3, <1>4, <2>3 DEF Requested, Idle, Method
  <2> QED  BY <1>8, <2>1, <2>2, <2>3
<1>10. Sessions'
  <2>1. Idle /\ source.conn # "lost" => In("close-session")
    BY <1>0 DEF Requested, In, After
  <2>2. ~(source.at = "closing" /\ source.conn = "closed")
    BY <1>0 DEF Sessions, Quiet
  <2> QED  BY <1>0, <1>4, <1>8, <2>1, <2>2 DEF Sessions, Closing, Idle, Method
<1> QED  BY <1>0, <1>3, <1>6, <1>7, <1>9, <1>10 DEF SourceTypeOK

LEMMA RevokesKeeps ==
    ASSUME SourceInv, PortalRevokes \/ PortalDies
    PROVE  SourceInv'
<1> USE DEF SourceInv
<1>0. source \in Source /\ portal \in Portal /\ ctx' \in BOOLEAN /\ source' = source
  BY DEF SourceTypeOK, PortalRevokes, PortalDies
<1>1. CASE PortalRevokes
  <2>1. portal.session = "open" /\ portal' = [portal EXCEPT !.session = "closed"]
    BY <1>1 DEF PortalRevokes
  <2>2. /\ portal' \in Portal /\ portal'.inbox = portal.inbox /\ portal'.alive = portal.alive
        /\ portal'.request = portal.request /\ portal'.answer = portal.answer
        /\ portal'.session = "closed"
    BY <1>0, <2>1, PortalIs
  <2>3. /\ Quiet' = Quiet /\ Closing' /\ \A i : Asking(i)' = Asking(i)
        /\ \A x, i : In(x)' = In(x) /\ After(i, x)' = After(i, x)
    BY <2>2 DEF Quiet, Closing, Asking, In, After
  <2>4. portal # Waiting
    BY <2>1 DEF Waiting
  <2>5. Held' /\ Dead'
    BY <1>0, <2>2, <2>4, PortalStep DEF Dead
  <2>6. Requested' /\ Sessions'
    BY <1>0, <2>2, <2>3 DEF Requested, Sessions, Idle
  <2> QED  BY <1>0, <2>2, <2>5, <2>6 DEF SourceTypeOK
<1>2. CASE PortalDies
  <2>1. /\ source.conn = "open"
        /\ portal' = [portal EXCEPT !.alive = FALSE, !.inbox = <<>>, !.request = "none",
                                    !.session = IF @ = "open" THEN "closed" ELSE @]
    BY <1>2 DEF PortalDies
  <2>2. /\ portal' \in Portal /\ portal'.inbox = <<>> /\ ~portal'.alive
        /\ portal'.request = "none" /\ portal'.answer = portal.answer
        /\ portal'.session # "open"
    BY <1>0, <2>1, PortalIs
  <2>3. Len(portal'.inbox) = 0
    BY <2>2
  <2>4. Quiet' /\ Closing' /\ Dead' /\ \A x : ~In(x)'
    BY <2>2, <2>3 DEF Quiet, Closing, Dead, In
  <2>5. source.at \notin {"none", "bus"} /\ ~Idle
    BY <2>1 DEF Held
  <2>6. Held'
    BY <1>0, <2>5 DEF Held, Idle
  <2>7. Requested'
    BY <1>0, <2>2, <2>4, <2>5 DEF Requested, Quiet, Idle, Method
  <2>8. Sessions'
    BY <2>4 DEF Sessions
  <2> QED  BY <1>0, <2>2, <2>4, <2>6, <2>7, <2>8 DEF SourceTypeOK
<1> QED  BY <1>1, <1>2

(* The steps of the Source that the portal does not see. *)
LEMMA AloneKeeps ==
    ASSUME SourceInv, UNCHANGED portal, ctx' \in BOOLEAN,
           BusConnects \/ Subscribes \/ (source.at \in Method /\ ~source.asked /\ Fails)
             \/ RemoteAborts \/ EndBegins \/ CloseSource \/ UseAppAudio \/ BusDies
             \/ UNCHANGED source
    PROVE  SourceInv'
<1>1. source' \in Source /\ Held' /\ Requested' /\ Sessions'
  BY SourceAlone
<1>2. portal' \in Portal /\ Dead'
  BY DEF SourceInv, SourceTypeOK, Dead
<1> QED  BY <1>1, <1>2 DEF SourceInv, SourceTypeOK

-----------------------------------------------------------------------------
(* The whole of the Source. *)

LEMMA SourceStarts == SourceInit => SourceInv
<1> SUFFICES ASSUME SourceInit PROVE SourceInv
  OBVIOUS
<1>1. source = Unselected /\ portal = Waiting
  BY DEF SourceInit
<1>7. ctx \in BOOLEAN
  BY DEF SourceInit
<1>2. /\ source \in Source /\ source.at = "none" /\ source.conn = "none" /\ ~source.fd
      /\ source.audio = "none" /\ source.why = "" /\ source.end = "no"
  BY <1>1 DEF Unselected, Source
<1>3. /\ portal \in Portal /\ portal.inbox = <<>> /\ portal.request = "none"
      /\ portal.session = "none" /\ portal.alive /\ Len(portal.inbox) = 0
  BY <1>1, PortalIs DEF Waiting
<1>4. Quiet /\ Closing /\ Dead
  BY <1>3 DEF Quiet, Closing, Dead
<1>5. Held
  BY <1>1, <1>2 DEF Held, Idle, Method
<1>8. \A i \in 1..Len(portal.inbox) : FALSE
  BY <1>3
<1>6. Requested /\ Sessions
  BY <1>2, <1>3, <1>4, <1>8 DEF Requested, Sessions, Idle, Method
<1> QED  BY <1>2, <1>3, <1>4, <1>5, <1>6, <1>7 DEF SourceInv, SourceTypeOK

LEMMA SourceKeeps ==
    ASSUME SourceInv, [SourceNext]_sourceVars
    PROVE  SourceInv'
<1>0. ctx \in BOOLEAN
  BY DEF SourceInv, SourceTypeOK
<1>1. CASE Select
  <2>1. CASE BusConnects
    BY <1>0, <2>1, AloneKeeps DEF BusConnects
  <2>2. CASE Subscribes
    BY <1>0, <2>2, AloneKeeps DEF Subscribes
  <2>3. CASE Asks
    <3>1. /\ source.at \in Method \cup {"remote"} /\ ~source.asked /\ ctx' \in BOOLEAN
          /\ \/ source' = [source EXCEPT !.asked = TRUE] /\ portal' = Told(source.at)
             \/ source.at \in Method /\ Fails /\ UNCHANGED portal
      BY <1>0, <2>3 DEF Asks
    <3> QED  BY <3>1, AsksKeeps, AloneKeeps
  <2>4. CASE Answered \/ RemoteReturns
    BY <2>4, ReadsKeeps
  <2>5. CASE Aborts
    BY <2>5, AbortsKeeps
  <2>6. CASE RemoteAborts
    BY <1>0, <2>6, AloneKeeps DEF RemoteAborts
  <2>7. CASE Garbled
    BY <2>7, GarbledKeeps
  <2> QED  BY <1>1, <2>1, <2>2, <2>3, <2>4, <2>5, <2>6, <2>7 DEF Select
<1>2. CASE End
  <2>1. CASE EndBegins
    BY <1>0, <2>1, AloneKeeps DEF EndBegins
  <2> QED  BY <1>2, <2>1, EndTellsKeeps, ClosesKeeps DEF End
<1>3. CASE Far
  <2>1. CASE BusDies
    BY <1>0, <2>1, AloneKeeps DEF BusDies
  <2> QED  BY <1>3, <2>1, HandlesKeeps, AnswersKeeps, RevokesKeeps DEF Far
<1>4. CASE Caller
  <2>1. CASE UseAppAudio \/ CloseSource
    BY <1>0, <2>1, AloneKeeps DEF UseAppAudio, CloseSource
  <2>2. CASE NewContext \/ Cancel
    BY <2>2, AloneKeeps DEF NewContext, Cancel
  <2> QED  BY <1>4, <2>1, <2>2, SelectKeeps DEF Caller
<1>5. CASE UNCHANGED sourceVars
  BY <1>0, <1>5, AloneKeeps DEF sourceVars
<1> QED  BY <1>1, <1>2, <1>3, <1>4, <1>5 DEF SourceNext

LEMMA SourceLeavesNothing == SourceInv => NothingLeftOpen
<1> SUFFICES ASSUME SourceInv, Idle PROVE
        /\ HandlesClosed
        /\ portal.inbox = <<>> /\ source.conn # "lost" => PortalCleared
  BY DEF NothingLeftOpen
<1>1. HandlesClosed
  BY DEF SourceInv, Held, HandlesClosed, Idle
<1>2. ASSUME portal.inbox = <<>>, source.conn # "lost" PROVE PortalCleared
  <2>1. Len(portal.inbox) = 0
    BY <1>2
  <2>2. Closing /\ \A m : ~In(m)
    BY <1>2, <2>1 DEF SourceInv, Sessions, In
  <2>3. portal.request = "none"
    BY <1>2, <2>1 DEF SourceInv, Requested
  <2> QED  BY <2>2, <2>3 DEF Closing, PortalCleared
<1> QED  BY <1>1, <1>2

(* By itself a Source keeps its typing, and the portal, the bus and the      *)
(* handles it holds agree with the call it is in (portal_linux.go).          *)
THEOREM SourceHolds == SourceSpec => []SourceInv
<1>1. SourceInv /\ [SourceNext]_sourceVars => SourceInv'
  BY SourceKeeps
<1> QED  BY <1>1, SourceStarts, PTL DEF SourceSpec, SourceNext

(* By itself, whoever calls it and whatever breaks, the Source of            *)
(* SelectSource leaves no handle, picker or session behind.                  *)
THEOREM SourceCleansUp == SourceSpec => []NothingLeftOpen
  BY SourceHolds, SourceLeavesNothing, PTL

-----------------------------------------------------------------------------
(* The app calls the Source as PortalSource has it. *)
LEMMA AppCallsSource == [Next]_vars => [SourceNext]_sourceVars
<1>1. SourceSteps => SourceNext
  BY DEF SourceSteps, SourceNext
<1>2. Clicks \/ PageHandles \/ WatchSource \/ Session => UNCHANGED sourceVars
  BY DEF Clicks, StartClick, StopClick, PageHandles, WatchSource, Session, SessionEnds, sourceVars
<1>3. Calls => SourceNext \/ UNCHANGED sourceVars
  BY DEF Calls, AppStart, AppStartReplies, AppStop, AppStopReturns, SourceNext, Caller, sourceVars
<1>4. Share => SourceNext \/ UNCHANGED sourceVars
  <2>1. Begin \/ Audio \/ CloseBegins \/ Final => SourceNext \/ UNCHANGED sourceVars
    BY DEF Begin, Audio, CloseBegins, Final, SourceNext, Caller, sourceVars
  <2>2. Selected \/ Connect \/ SessionStarts \/ Loop \/ StatePolled \/ CloseReturns
            => UNCHANGED sourceVars
    BY DEF Selected, Connect, SessionStarts, Loop, StatePolled, CloseReturns, sourceVars
  <2> QED  BY <2>1, <2>2 DEF Share
<1>5. UNCHANGED vars => UNCHANGED sourceVars
  BY DEF vars, sourceVars
<1> QED  BY <1>1, <1>2, <1>3, <1>4, <1>5 DEF Next

(* The share goroutine, the page and their clicks never call the Source at a *)
(* point where it does not expect it: what the Source does in the app is     *)
(* what it does alone.                                                       *)
THEOREM AppUsesSource == Spec => SourceSpec
<1>1. Init => SourceInit
  BY DEF Init
<1> QED  BY <1>1, AppCallsSource, PTL DEF Spec, SourceSpec, SourceNext

-----------------------------------------------------------------------------
(* Where the share goroutine is and where its source is. *)

(* A step of the Source's own goroutines, by the state it is taken in. *)
LEMMA SourceMoves ==
    ASSUME SourceInv, Select \/ End \/ Far
    PROVE  /\ Idle \/ source.at = "ready" => source'.at = source.at
           /\ source.at = "closing" =>
                 \/ source'.at = "closing" /\ source'.why = source.why
                 \/ source'.at = IF source.why = "" THEN "closed" ELSE "failed"
           /\ source.at \notin {"none", "closed", "closing"} =>
                 /\ source'.at \notin {"none", "closed"}
                 /\ source'.at = "closing" => source'.why # ""
<1>0. source \in Source /\ SourceTypeOK
  BY DEF SourceInv, SourceTypeOK
<1>1. CASE BusConnects
  BY <1>0, <1>1 DEF BusConnects, Idle, Source, Whys
<1>2. CASE Subscribes
  BY <1>0, <1>2, FailsTyped DEF Subscribes, Idle, Source
<1>3. CASE Asks
  BY <1>0, <1>3, FailsTyped DEF Asks, Idle, Source, Method
<1>4. CASE Answered
  <2>1. source.at \in Method
    BY <1>4 DEF Answered
  <2>2. \/ source' = [source EXCEPT !.at = Following(@), !.asked = FALSE]
        \/ source' = Fail("canceled")
        \/ Fails
    BY <1>4 DEF Answered
  <2>3. source'.at \in {"start", "remote"} \/ (source'.at = "closing" /\ source'.why # "")
    BY <1>0, <2>2, FailsTyped, FailsEffect DEF Following, Source
  <2> QED  BY <2>1, <2>3 DEF Method, Idle
<1>5. CASE Aborts \/ Garbled
  BY <1>0, <1>5, FailsTyped DEF Aborts, Garbled, Idle, Method
<1>6. CASE RemoteAborts
  BY <1>0, <1>6 DEF RemoteAborts, Idle, Source, Method
<1>7. CASE RemoteReturns
  <2>1. source.at = "remote"
    BY <1>7 DEF RemoteReturns
  <2>2. \/ source' = [Fail("canceled") EXCEPT !.fd = TRUE]
        \/ source' = [source EXCEPT !.at = "ready", !.asked = FALSE, !.fd = TRUE]
        \/ Fails
    BY <1>7 DEF RemoteReturns
  <2>3. source'.at = "ready" \/ (source'.at = "closing" /\ source'.why # "")
    BY <1>0, <2>2, FailsTyped, FailsEffect DEF Source
  <2> QED  BY <2>1, <2>3 DEF Idle
<1>8. CASE EndBegins \/ EndTells
  BY <1>0, <1>8 DEF EndBegins, EndTells, Idle, Source, Method
<1>9. CASE Closes
  BY <1>0, <1>9 DEF Closes, Idle, Source, Method
<1>10. CASE Far
  BY <1>0, <1>10 DEF Far, PortalHandles, PortalAnswers, PortalRevokes, PortalDies, BusDies,
                     Idle, Source, Method
<1> QED  BY <1>1, <1>2, <1>3, <1>4, <1>5, <1>6, <1>7, <1>8, <1>9, <1>10 DEF Select, End

App == [active : BOOLEAN, n : 0..MaxStarts, run : BOOLEAN, told : BOOLEAN,
        pc : {"none", "begin", "select", "audio", "connect", "start", "loop",
              "state", "unwind", "close", "closing", "final"},
        failure : {"", "canceled", "failed"}]
Sessioned == session \in [at : {"none", "live", "over"}, error : BOOLEAN]
Shared == app \in App /\ Sessioned /\ Phases
(* What the page and the calls of App see of a share. *)
Unseen == UNCHANGED <<page, halt, toPage>> /\ app'.active = app.active /\ app'.n = app.n
(* An event of a running share; the last one ends it. *)
Emits == /\ app.active /\ UNCHANGED <<page, halt>> /\ app'.n = app.n
         /\ \E state \in {"choosing", "connecting", "sharing", "stopped"}, error \in BOOLEAN :
               Emit(state, error) /\ app'.active = (state # "stopped")

LEMMA SourceStepsKeep ==
    ASSUME SourceInv, Shared, SourceSteps
    PROVE  Shared' /\ Unseen
<1>1. app' = app /\ session' = session /\ Unseen
  BY DEF SourceSteps, appVars, Unseen
<1>2. Select \/ End \/ Far
  BY DEF SourceSteps
<1>3. source \in Source /\ source' \in Source
  <2>1. SourceInv'
    BY <1>2, SourceKeeps DEF SourceNext
  <2> QED  BY <2>1 DEF SourceInv, SourceTypeOK
<1>4. source.at \in {"closing", "failed"} \/ source.why = ""
  BY DEF SourceInv, Held
<1>5. Phases'
  <2>1. Idle => Idle'
    BY <1>2, SourceMoves DEF Idle
  <2>2. app.pc = "select" => source'.at \notin {"none", "closed"}
                             /\ (source'.at = "closing" => source'.why # "")
    <3>1. SUFFICES ASSUME app.pc = "select"
                   PROVE  /\ source'.at \notin {"none", "closed"}
                          /\ (source'.at = "closing" => source'.why # "")
      OBVIOUS
    <3>2. source.at \notin {"none", "closed"} /\ (source.at = "closing" => source.why # "")
      BY <3>1 DEF Shared, Phases
    <3> QED  BY <1>2, <3>2, SourceMoves
  <2>3. source.at = "ready" => source'.at = "ready"
    BY <1>2, SourceMoves
  <2>4. app.pc = "closing" => source'.at \in {"closing", "closed"} /\ source'.why = ""
    <3>1. SUFFICES ASSUME app.pc = "closing"
                   PROVE  source'.at \in {"closing", "closed"} /\ source'.why = ""
      OBVIOUS
    <3>2. source.at \in {"closing", "closed"} /\ source.why = ""
      BY <3>1 DEF Shared, Phases
    <3>3. source'.at \in {"closing", "closed"}
                /\ (source'.at = "closing" => source'.why = "")
      BY <1>2, <3>2, SourceMoves DEF Idle
    <3>4. SourceInv'
      BY <1>2, SourceKeeps DEF SourceNext
    <3> QED  BY <3>3, <3>4 DEF SourceInv, Held
  <2> QED  BY <1>1, <2>1, <2>2, <2>3, <2>4 DEF Shared, Phases
<1> QED  BY <1>1, <1>5 DEF Shared, Sessioned

LEMMA ShareKeeps ==
    ASSUME SourceInv, Shared, Share \/ WatchSource \/ Session
    PROVE  Shared' /\ (Unseen \/ Emits)
<1>0. /\ app \in App /\ session \in [at : {"none", "live", "over"}, error : BOOLEAN] /\ Phases
      /\ source \in Source
  BY DEF Shared, Sessioned, SourceInv, SourceTypeOK
<1>1. CASE Begin
  <2>1. app.pc = "begin" /\ app' = [app EXCEPT !.pc = "select"] /\ session' = session
    BY <1>1 DEF Begin, Goto
  <2>2. source'.at \in {"bus", "failed"}
    BY <1>1 DEF Begin, SelectSource, Unselected
  <2>3. Shared'
    BY <1>0, <2>1, <2>2 DEF Shared, Sessioned, Phases, App, Idle
  <2>4. app.active /\ app'.active = app.active /\ app'.n = app.n
    BY <1>0, <2>1 DEF Phases, App
  <2> QED  BY <1>1, <2>3, <2>4 DEF Begin, Emits
<1>2. CASE Selected
  <2>1. app.pc = "select" /\ UNCHANGED <<source, page, halt, toPage, session>>
    BY <1>2 DEF Selected
  <2>2. CASE source.at = "ready" /\ \E pc \in {"audio", "connect"} : Goto(pc)
    BY <1>0, <2>1, <2>2 DEF Goto, Shared, Sessioned, Phases, App, Idle, Unseen
  <2>3. CASE source.at = "failed" /\ Return("final", source.why)
    <3>1. source.why \in {"", "canceled", "failed"}
      BY <1>0 DEF Source
    <3> QED  BY <1>0, <2>1, <2>3, <3>1 DEF Return, Shared, Sessioned, Phases, App, Idle, Unseen
  <2> QED  BY <1>2, <2>2, <2>3 DEF Selected
<1>3. CASE WatchSource
  BY <1>0, <1>3 DEF WatchSource, Shared, Sessioned, Phases, App, Idle, Unseen
<1>4. CASE Audio
  <2>1. app.pc = "audio" /\ UNCHANGED <<page, halt, toPage, session>> /\ source.at = "ready"
    BY <1>0, <1>4 DEF Audio, Phases
  <2>2. source'.at = source.at
    BY <1>0, <1>4 DEF Audio, UseAppAudio, sourceVars, Source
  <2>3. \/ app' = [app EXCEPT !.pc = "connect"]
        \/ \E f \in {"canceled", "failed"} : app' = [app EXCEPT !.pc = "close", !.failure = f]
    BY <1>4 DEF Audio, Goto, Return, Errors
  <2> QED  BY <1>0, <2>1, <2>2, <2>3 DEF Shared, Sessioned, Phases, App, Idle, Unseen
<1>5. CASE Connect
  <2>1. app.pc = "connect" /\ app' = [app EXCEPT !.pc = "start"] /\ UNCHANGED <<session, source>>
    BY <1>5 DEF Connect, Goto
  <2>2. Shared' /\ app.active /\ app'.active = app.active /\ app'.n = app.n
    BY <1>0, <2>1 DEF Shared, Sessioned, Phases, App, Idle
  <2> QED  BY <1>5, <2>2 DEF Connect, Emits
<1>6. CASE SessionStarts
  <2>1. app.pc = "start" /\ UNCHANGED <<source, page, halt, toPage>>
    BY <1>6 DEF SessionStarts
  <2>2. \/ session' = [session EXCEPT !.at = "live"] /\ app' = [app EXCEPT !.pc = "loop"]
        \/ /\ \E f \in {"canceled", "failed"} : app' = [app EXCEPT !.pc = "close", !.failure = f]
           /\ session' = session
    BY <1>6 DEF SessionStarts, Goto, Return, Errors
  <2> QED  BY <1>0, <2>1, <2>2 DEF Shared, Sessioned, Phases, App, Idle, Unseen
<1>7. CASE Session
  <2>1. PICK error \in BOOLEAN : session' = [at |-> "over", error |-> error]
    BY <1>7 DEF Session, SessionEnds
  <2>2. session.at = "live" /\ UNCHANGED <<source, page, halt, toPage, app>>
    BY <1>7 DEF Session, SessionEnds
  <2>3. session' \in [at : {"none", "live", "over"}, error : BOOLEAN] /\ session'.at = "over"
    BY <2>1
  <2> QED  BY <1>0, <2>2, <2>3 DEF Shared, Sessioned, Phases, Idle, Unseen
<1>8. CASE Loop
  BY <1>0, <1>8 DEF Loop, Goto, Shared, Sessioned, Phases, App, Idle, Unseen
<1>9. CASE StatePolled
  <2>1. app.pc = "state" /\ UNCHANGED <<source, page, halt, session>>
    BY <1>9 DEF StatePolled
  <2>2. CASE Return("unwind", SessionFailure) /\ UNCHANGED toPage
    <3>1. SessionFailure \in {"", "canceled", "failed"}
      BY DEF SessionFailure
    <3> QED  BY <1>0, <2>1, <2>2, <3>1 DEF Return, Shared, Sessioned, Phases, App, Idle, Unseen
  <2>3. CASE Emit("sharing", FALSE) /\ app' = [app EXCEPT !.pc = "loop", !.told = TRUE]
    <3>1. Shared' /\ app.active /\ app'.active = app.active /\ app'.n = app.n
      BY <1>0, <2>1, <2>3 DEF Shared, Sessioned, Phases, App, Idle
    <3> QED  BY <2>1, <2>3, <3>1 DEF Emits
  <2>4. CASE Goto("loop") /\ UNCHANGED toPage
    BY <1>0, <2>1, <2>4 DEF Goto, Shared, Sessioned, Phases, App, Idle, Unseen
  <2> QED  BY <1>9, <2>2, <2>3, <2>4 DEF StatePolled
<1>10. CASE CloseBegins
  <2>1. /\ app.pc \in {"unwind", "close"} /\ UNCHANGED <<page, halt, toPage, session>>
        /\ app.pc = "unwind" => session.at = "over"
        /\ app' = [app EXCEPT !.pc = "closing", !.run = TRUE]
    BY <1>10 DEF CloseBegins, Stopped
  <2>2. source.at = "ready" /\ source' = [source EXCEPT !.at = "closing"]
    BY <1>10 DEF CloseBegins, CloseSource
  <2>3. source'.at = "closing" /\ source'.why = ""
    BY <1>0, <2>2 DEF SourceInv, Held, Source
  <2> QED  BY <1>0, <2>1, <2>3 DEF Shared, Sessioned, Phases, App, Idle, Unseen
<1>11. CASE CloseReturns
  BY <1>0, <1>11 DEF CloseReturns, Goto, Shared, Sessioned, Phases, App, Idle, Unseen
<1>12. CASE Final
  <2>1. /\ app.pc = "final" /\ UNCHANGED <<page, halt, session, source>>
        /\ app' = [app EXCEPT !.pc = "none", !.active = FALSE]
    BY <1>12 DEF Final, Cancel
  <2>2. Shared' /\ app.active /\ ~app'.active /\ app'.n = app.n
    BY <1>0, <2>1 DEF Shared, Sessioned, Phases, App, Idle
  <2>3. PICK error \in BOOLEAN : Emit("stopped", error)
    BY <1>12 DEF Final
  <2>4. app'.active = ("stopped" # "stopped")
    BY <1>0, <2>1 DEF App
  <2> QED  BY <2>1, <2>2, <2>3, <2>4 DEF Emits
<1> QED  BY <1>1, <1>2, <1>3, <1>4, <1>5, <1>6, <1>7, <1>8, <1>9, <1>10, <1>11, <1>12 DEF Share

-----------------------------------------------------------------------------
(* The page and what is on its way to it. *)

Calling == {"asked", "begun", "refused", "replied", "settled"}
CallSeq == Seq(Calling)
Page == [start : BOOLEAN, stop : BOOLEAN, stopping : BOOLEAN, error : BOOLEAN, calls : CallSeq]
Halt == [at : {"no", "waits", "stopping", "returned"}, share : 0..MaxStarts]
PageTyped == page \in Page /\ halt \in Halt /\ toPage \in Seq(ToPage)

LEMMA TypeParts == TypeOK <=> SourceTypeOK /\ PageTyped /\ app \in App /\ Sessioned
  BY DEF TypeOK, PageTyped, Page, Halt, App, Sessioned, CallSeq, Calling

PageInv == PageTyped /\ app \in App /\ Called /\ Halting /\ Telling

(* A step that neither the page nor the calls of App see. *)
LEMMA UnseenKeeps ==
    ASSUME PageInv, Unseen, app' \in App
    PROVE  PageInv'
<1>1. page' = page /\ halt' = halt /\ toPage' = toPage /\ app'.active = app.active /\ app'.n = app.n
  BY DEF Unseen
<1>2. Asked' = Asked /\ \A i : Shows(i)' = Shows(i) /\ Over(i)' = Over(i)
  BY <1>1 DEF Asked, Shows, Over
<1>3. PageTyped' /\ Called'
  BY <1>1, <1>2 DEF PageInv, PageTyped, Called
<1>4. Halting'
  BY <1>1, <1>2 DEF PageInv, Halting
<1>5. Telling'
  BY <1>1, <1>2 DEF PageInv, Telling
<1> QED  BY <1>3, <1>4, <1>5 DEF PageInv

(* What is added to toPage comes last. *)
LEMMA Sending ==
    ASSUME toPage \in Seq(ToPage), NEW e \in ToPage, toPage' = Append(toPage, e)
    PROVE  /\ toPage' \in Seq(ToPage) /\ Len(toPage) \in Nat /\ Len(toPage') = Len(toPage) + 1
           /\ toPage'[Len(toPage')] = e
           /\ \A i \in 1..Len(toPage) :
                 /\ i \in 1..Len(toPage') /\ toPage'[i] = toPage[i]
                 /\ Shows(i)' = Shows(i) /\ Over(i)' = Over(i)
           /\ \A i \in 1..Len(toPage') : i \in 1..Len(toPage) \/ i = Len(toPage')
<1>1. PICK n \in Nat : n = Len(toPage)
  OBVIOUS
<1>2. /\ toPage' \in Seq(ToPage) /\ Len(toPage') = n + 1 /\ toPage'[n + 1] = e
      /\ \A i \in 1..n : toPage'[i] = toPage[i]
  BY <1>1, Appending
<1>3. \A i \in 1..n : Shows(i)' = Shows(i) /\ Over(i)' = Over(i)
  BY <1>2 DEF Shows, Over
<1>4. \A i \in 1..(n + 1) : i \in 1..n \/ i = n + 1
  OBVIOUS
<1>5. \A i \in 1..n : i \in 1..(n + 1)
  OBVIOUS
<1> QED  BY <1>1, <1>2, <1>3, <1>4, <1>5

(* What is left in toPage moves up by one place. *)
LEMMA Receiving ==
    ASSUME toPage \in Seq(ToPage), toPage # <<>>, toPage' = Tail(toPage)
    PROVE  /\ toPage' \in Seq(ToPage) /\ 1 \in 1..Len(toPage)
           /\ Head(toPage) = toPage[1] /\ toPage[1] \in ToPage
           /\ \A i \in 1..Len(toPage') :
                 /\ i + 1 \in 1..Len(toPage) /\ toPage'[i] = toPage[i + 1]
                 /\ Shows(i)' = Shows(i + 1) /\ Over(i)' = Over(i + 1)
           /\ \A i \in 1..Len(toPage) : i = 1 \/ \E j \in 1..Len(toPage') : i = j + 1
<1>1. PICK n \in Nat \ {0} : n = Len(toPage)
  BY Reading
<1>2. /\ toPage' \in Seq(ToPage) /\ Head(toPage) = toPage[1] /\ Head(toPage) \in ToPage
      /\ Len(toPage') = n - 1 /\ \A i \in 1..(n - 1) : toPage'[i] = toPage[i + 1]
  BY <1>1, Reading
<1>3. \A i \in 1..(n - 1) : Shows(i)' = Shows(i + 1) /\ Over(i)' = Over(i + 1)
  BY <1>2 DEF Shows, Over
<1>4. \A i \in 1..n : i = 1 \/ \E j \in 1..(n - 1) : i = j + 1
  <2> SUFFICES ASSUME NEW i \in 1..n, i # 1
               PROVE  \E j \in 1..(n - 1) : i = j + 1
    OBVIOUS
  <2>1. i - 1 \in 1..(n - 1) /\ i = (i - 1) + 1
    OBVIOUS
  <2> QED  BY <2>1
<1>5. (\A i \in 1..(n - 1) : i + 1 \in 1..n) /\ 1 \in 1..n
  OBVIOUS
<1> QED  BY <1>1, <1>2, <1>3, <1>4, <1>5

(* A call of Start goes on. *)
LEMMA Answering ==
    ASSUME page \in Page, NEW k \in 1..Len(page.calls), NEW c \in Calling,
           page' = [page EXCEPT !.calls[k] = c]
    PROVE  /\ page' \in Page
           /\ page'.start = page.start /\ page'.stop = page.stop
           /\ page'.stopping = page.stopping
           /\ Len(page.calls) \in Nat /\ Len(page'.calls) = Len(page.calls)
           /\ page'.calls[k] = c
           /\ \A n \in 1..Len(page.calls) : n # k => page'.calls[n] = page.calls[n]
<1> DEFINE q == [page.calls EXCEPT ![k] = c]
<1>1. page.calls \in CallSeq
  BY DEF Page
<1>2. q \in CallSeq /\ Len(q) = Len(page.calls) /\ Len(q) \in Nat
  BY <1>1 DEF CallSeq
<1>3. q[k] = c /\ \A n \in 1..Len(page.calls) : n # k => q[n] = page.calls[n]
  BY <1>1 DEF CallSeq
<1>4. page' = [page EXCEPT !.calls = q]
  OBVIOUS
<1> HIDE DEF q
<1>5. /\ page' \in Page /\ page'.calls = q
      /\ page'.start = page.start /\ page'.stop = page.stop /\ page'.stopping = page.stopping
  BY <1>2, <1>4 DEF Page
<1> QED  BY <1>2, <1>3, <1>5

LEMMA EmitsKeeps ==
    ASSUME PageInv, Emits, app' \in App
    PROVE  PageInv'
<1> USE DEF PageInv
<1>1. PICK state \in {"choosing", "connecting", "sharing", "stopped"}, error \in BOOLEAN :
          Emit(state, error) /\ app'.active = (state # "stopped")
  BY DEF Emits
<1>2. app.active /\ page' = page /\ halt' = halt /\ app'.n = app.n
  BY DEF Emits
<1>3. /\ Event(state, error) \in ToPage
      /\ Event(state, error).type = "share-state" /\ Event(state, error).state = state
  <2>1. 0 \in 0..MaxStarts
    BY MaxStartsAssumption
  <2> QED  BY <2>1 DEF Event, ToPage
<1>4. /\ toPage' \in Seq(ToPage) /\ Len(toPage) \in Nat /\ Len(toPage') = Len(toPage) + 1
      /\ toPage'[Len(toPage')] = Event(state, error)
      /\ \A i \in 1..Len(toPage) :
            /\ i \in 1..Len(toPage') /\ toPage'[i] = toPage[i]
            /\ Shows(i)' = Shows(i) /\ Over(i)' = Over(i)
      /\ \A i \in 1..Len(toPage') : i \in 1..Len(toPage) \/ i = Len(toPage')
  BY <1>1, <1>3, Sending DEF Emit, PageTyped
<1>5. ~Asked /\ ~Asked'
  BY <1>2 DEF Called, Asked
<1>6. PageTyped'
  BY <1>2, <1>4 DEF PageTyped
<1>7. Called'
  <2>1. app'.n = Len(page'.calls) /\ Len(page'.calls) <= MaxStarts
    BY <1>2, <1>5 DEF Called
  <2>2. \A n \in 1..Len(page'.calls) : page'.calls[n] # "refused" /\ page'.calls[n] # "asked"
    BY <1>2, <1>5 DEF Called, Asked
  <2>3. \A i \in 1..Len(toPage') :
            /\ toPage'[i].type # "refused"
            /\ toPage'[i].type = "begun" => /\ toPage'[i].call \in 1..Len(page'.calls)
                                            /\ page'.calls[toPage'[i].call] # "asked"
    BY <1>2, <1>3, <1>4 DEF Called
  <2> QED  BY <1>5, <2>1, <2>2, <2>3 DEF Called
<1>8. Halting'
  <2>1. \A i \in 1..Len(toPage') : toPage'[i].type # "returned"
    BY <1>2, <1>3, <1>4 DEF Halting
  <2>2. halt'.at # "returned"
    BY <1>2 DEF Halting
  <2>3. halt'.at = "stopping" => halt'.share = app'.n
    BY <1>2 DEF Halting
  <2> QED  BY <1>2, <1>5, <2>1, <2>2, <2>3 DEF Halting
<1>9. Telling'
  <2>1. ~page'.start
    BY <1>2 DEF Telling
  <2>2. \A i \in 1..Len(toPage) : ~Over(i)'
    BY <1>2, <1>4 DEF Telling
  <2> DEFINE l == Len(toPage) + 1
  <2>3. \A i \in 1..Len(toPage') : Over(i)' => i = l /\ state = "stopped"
    BY <1>3, <1>4, <2>2 DEF Over, Shows
  <2>4. state = "stopped" => toPage'[l].type = "share-state" /\ toPage'[l].state = "stopped"
    BY <1>3, <1>4
  <2>5. l \in 1..Len(toPage') /\ \A j \in 1..Len(toPage') : j <= l
    BY <1>4
  <2>6. app'.active => \A i \in 1..Len(toPage') : ~Over(i)'
    BY <1>1, <2>3
  <2>7. ~app'.active => \E i \in 1..Len(toPage') :
                            Over(i)' /\ \A j \in 1..Len(toPage') : Shows(j)' => j <= i
    <3>1. SUFFICES ASSUME ~app'.active
                   PROVE  \E i \in 1..Len(toPage') :
                             Over(i)' /\ \A j \in 1..Len(toPage') : Shows(j)' => j <= i
      OBVIOUS
    <3>2. PICK i \in 1..Len(toPage') : i = l
      BY <2>5
    <3>3. Over(i)'
      BY <1>1, <2>4, <3>1, <3>2 DEF Over, Shows
    <3> QED  BY <2>5, <3>2, <3>3
  <2>8. \A i, j \in 1..Len(toPage') : Over(i)' /\ Over(j)' => i = j
    BY <2>3
  <2> QED  BY <1>5, <2>1, <2>6, <2>7, <2>8 DEF Telling
<1> QED  BY <1>6, <1>7, <1>8, <1>9

LEMMA StartClickKeeps ==
    ASSUME PageInv, StartClick
    PROVE  PageInv'
<1> USE DEF PageInv
<1> DEFINE q == Append(page.calls, "asked")
<1>0. /\ page.start /\ Len(page.calls) < MaxStarts
      /\ halt' = halt /\ toPage' = toPage /\ app' = app
  BY DEF StartClick
<1>1. page \in Page /\ page.calls \in CallSeq
  BY DEF PageTyped, Page
<1>2. q \in CallSeq /\ Len(page.calls) \in Nat /\ Len(q) = Len(page.calls) + 1
      /\ q[Len(q)] = "asked" /\ \A n \in 1..Len(page.calls) : q[n] = page.calls[n]
  BY <1>1, Appending DEF CallSeq, Calling
<1>3. page' = [page EXCEPT !.start = FALSE, !.stop = TRUE, !.stopping = FALSE, !.calls = q]
  BY DEF StartClick
<1> HIDE DEF q
<1>4. /\ page' \in Page /\ page'.calls = q /\ ~page'.start /\ page'.stop /\ ~page'.stopping
  BY <1>1, <1>2, <1>3 DEF Page
<1>5. ~app.active /\ ~Asked /\ (\A i \in 1..Len(toPage) : ~Shows(i)) /\ halt.at = "no"
  BY <1>0 DEF Telling, Halting
<1>6. Asked'
  BY <1>2, <1>4 DEF Asked
<1>7. \A i : Shows(i)' = Shows(i) /\ Over(i)' = Over(i)
  BY <1>0 DEF Shows, Over
<1>8. Called'
  <2>1. app'.n = Len(page'.calls) - 1 /\ Len(page'.calls) <= MaxStarts
    BY <1>0, <1>2, <1>4, <1>5, MaxStartsAssumption DEF Called
  <2>2. \A n \in 1..Len(page'.calls) :
           /\ page'.calls[n] # "refused"
           /\ page'.calls[n] = "asked" => n = Len(page'.calls) /\ ~app'.active
    <3>1. \A n \in 1..Len(q) : n \in 1..Len(page.calls) \/ n = Len(q)
      BY <1>2
    <3>2. \A n \in 1..Len(page.calls) : page.calls[n] \notin {"refused", "asked"}
      BY <1>5 DEF Called, Asked
    <3> QED  BY <1>0, <1>2, <1>4, <1>5, <3>1, <3>2
  <2>3. \A i \in 1..Len(toPage') :
           /\ toPage'[i].type # "refused"
           /\ toPage'[i].type = "begun" => /\ toPage'[i].call \in 1..Len(page'.calls)
                                           /\ page'.calls[toPage'[i].call] # "asked"
    BY <1>0, <1>2, <1>4 DEF Called
  <2> QED  BY <1>6, <2>1, <2>2, <2>3 DEF Called
<1>9. Halting'
  <2>1. halt'.at = "no" /\ Len(page'.calls) > 0
    BY <1>0, <1>2, <1>4, <1>5
  <2>2. \A i \in 1..Len(toPage') : toPage'[i].type # "returned"
    BY <1>0, <1>5 DEF Halting
  <2> QED  BY <1>4, <2>1, <2>2 DEF Halting
<1>10. Telling'
  BY <1>0, <1>4, <1>5, <1>6, <1>7 DEF Telling, Over
<1> QED  BY <1>0, <1>4, <1>8, <1>9, <1>10 DEF PageTyped

LEMMA StopClickKeeps ==
    ASSUME PageInv, StopClick
    PROVE  PageInv'
<1> USE DEF PageInv
<1>0. page.stop /\ toPage' = toPage /\ app' = app
  BY DEF StopClick
<1>1. page \in Page /\ halt \in Halt
  BY DEF PageTyped
<1>2. /\ page' \in Page /\ page'.calls = page.calls
      /\ ~page'.start /\ ~page'.stop /\ page'.stopping
  BY <1>1 DEF StopClick, Page
<1>3. halt' \in Halt /\ halt'.at = "waits"
  BY <1>1 DEF StopClick, Halt
<1>4. halt.at = "no" /\ Len(page.calls) > 0
  BY <1>0 DEF Halting
<1>5. Asked' = Asked /\ \A i : Shows(i)' = Shows(i) /\ Over(i)' = Over(i)
  BY <1>0, <1>2 DEF Asked, Shows, Over
<1>6. Called'
  BY <1>0, <1>2, <1>5 DEF Called
<1>7. Halting'
  BY <1>0, <1>2, <1>3, <1>4 DEF Halting
<1>8. Telling'
  BY <1>0, <1>2, <1>3, <1>5 DEF Telling
<1> QED  BY <1>0, <1>2, <1>3, <1>6, <1>7, <1>8 DEF PageTyped

(* The page reads an event. *)
LEMMA EventKeeps ==
    ASSUME PageInv, PageHandles, Shows(1)
    PROVE  PageInv'
<1> USE DEF PageInv
<1>0. toPage # <<>> /\ toPage' = Tail(toPage) /\ app' = app
  BY DEF PageHandles
<1>1. /\ toPage' \in Seq(ToPage) /\ 1 \in 1..Len(toPage)
      /\ Head(toPage) = toPage[1] /\ toPage[1] \in ToPage
      /\ \A i \in 1..Len(toPage') :
            /\ i + 1 \in 1..Len(toPage) /\ toPage'[i] = toPage[i + 1]
            /\ Shows(i)' = Shows(i + 1) /\ Over(i)' = Over(i + 1)
      /\ \A i \in 1..Len(toPage) : i = 1 \/ \E j \in 1..Len(toPage') : i = j + 1
  BY <1>0, Receiving DEF PageTyped
<1>2. toPage[1].type = "share-state" /\ (Over(1) <=> toPage[1].state = "stopped")
  BY DEF Shows, Over
<1>3. /\ page' = IF page.stopping THEN page
                 ELSE [Buttons(toPage[1].state = "stopped") EXCEPT !.error = toPage[1].error]
      /\ halt' = halt
  BY <1>1, <1>2 DEF PageHandles
<1>4. page \in Page /\ halt \in Halt /\ toPage[1].error \in BOOLEAN
  BY <1>1 DEF PageTyped, ToPage
<1>5. /\ page' \in Page /\ page'.calls = page.calls /\ page'.stopping = page.stopping
      /\ page.stopping => page'.start = page.start /\ page'.stop = page.stop
      /\ ~page.stopping => (page'.start <=> Over(1)) /\ (page'.stop <=> ~Over(1))
  <2>1. PICK b \in BOOLEAN : b <=> Over(1)
    OBVIOUS
  <2>2. b = (toPage[1].state = "stopped")
    BY <1>2, <2>1
  <2>3. CASE ~page.stopping
    <3>1. page' = [page EXCEPT !.start = b, !.stop = ~b, !.error = toPage[1].error]
      BY <1>3, <2>2, <2>3 DEF Buttons
    <3> QED  BY <1>4, <2>1, <2>3, <3>1 DEF Page
  <2> QED  BY <1>3, <1>4, <2>3
<1>6. Asked' = Asked
  BY <1>5 DEF Asked
<1>7. ~page.start
  BY <1>1 DEF Telling
<1>8. Called'
  <2>1. \A i \in 1..Len(toPage') :
            /\ toPage'[i].type # "refused"
            /\ toPage'[i].type = "begun" => /\ toPage'[i].call \in 1..Len(page'.calls)
                                            /\ page'.calls[toPage'[i].call] # "asked"
    BY <1>1, <1>5 DEF Called
  <2> QED  BY <1>0, <1>5, <1>6, <2>1 DEF Called
<1>9. Halting'
  <2>1. ~page.stopping => page.stop /\ Len(page.calls) > 0
    BY <1>7 DEF Halting
  <2>2. ASSUME NEW i \in 1..Len(toPage'), toPage'[i].type = "returned"
        PROVE  /\ halt.at = "returned"
               /\ \A j \in 1..Len(toPage') : Shows(j)' \/ toPage'[j].type = "returned" => j <= i
    <3>1. i + 1 \in 1..Len(toPage) /\ toPage[i + 1].type = "returned"
      BY <1>1, <2>2
    <3>2. /\ halt.at = "returned"
          /\ \A j \in 1..Len(toPage) : Shows(j) \/ toPage[j].type = "returned" => j <= i + 1
      BY <3>1 DEF Halting
    <3>3. ASSUME NEW j \in 1..Len(toPage'), Shows(j)' \/ toPage'[j].type = "returned"
          PROVE  j <= i
      <4>1. j + 1 <= i + 1
        BY <1>1, <3>2, <3>3
      <4> QED  BY <4>1
    <3> QED  BY <3>2, <3>3
  <2>3. halt.at = "returned" => \E i \in 1..Len(toPage') : toPage'[i].type = "returned"
    <3>1. SUFFICES ASSUME halt.at = "returned"
                   PROVE  \E i \in 1..Len(toPage') : toPage'[i].type = "returned"
      OBVIOUS
    <3>2. PICK i \in 1..Len(toPage) : toPage[i].type = "returned"
      BY <3>1 DEF Halting
    <3>3. PICK j \in 1..Len(toPage') : i = j + 1
      BY <1>1, <1>2, <3>2
    <3> QED  BY <1>1, <3>2, <3>3
  <2>4. /\ page'.stopping <=> halt'.at # "no"
        /\ page'.stopping => ~page'.start /\ ~page'.stop
        /\ ~page'.stopping => page'.stop = ~page'.start
    BY <1>3, <1>5 DEF Halting, Page
  <2>5. /\ page'.stop => Len(page'.calls) > 0
        /\ halt'.at # "no" => Len(page'.calls) > 0
    BY <1>3, <1>5, <2>1 DEF Halting
  <2>6. /\ halt'.at \in {"stopping", "returned"} => ~Asked'
        /\ halt'.at = "stopping" => ~app'.active \/ halt'.share = app'.n
        /\ halt'.at = "returned" => ~app'.active
    BY <1>0, <1>3, <1>6 DEF Halting
  <2> QED  BY <1>3, <2>2, <2>3, <2>4, <2>5, <2>6 DEF Halting
<1>10. Telling'
  <2>1. app.active \/ Asked => \A i \in 1..Len(toPage') : ~Over(i)'
    BY <1>1 DEF Telling
  <2>2. ASSUME NEW i \in 1..Len(toPage'), NEW j \in 1..Len(toPage'), Over(i)', Over(j)'
        PROVE  i = j
    <3>1. i + 1 = j + 1
      BY <1>1, <2>2 DEF Telling
    <3> QED  BY <3>1
  <2>3. page'.start => ~app.active /\ ~Asked /\ \A i \in 1..Len(toPage') : ~Shows(i)'
    <3>1. SUFFICES ASSUME page'.start
                   PROVE  ~app.active /\ ~Asked /\ \A i \in 1..Len(toPage') : ~Shows(i)'
      OBVIOUS
    <3>2. ~page.stopping /\ Over(1)
      BY <1>5, <1>7, <3>1
    <3>3. halt.at = "no" /\ ~app.active /\ ~Asked
      BY <1>1, <3>2 DEF Telling, Halting
    <3>4. PICK k \in 1..Len(toPage) : Over(k) /\ \A j \in 1..Len(toPage) : Shows(j) => j <= k
      BY <1>7, <3>3 DEF Telling
    <3>5. k = 1
      BY <1>1, <3>2, <3>4 DEF Telling
    <3>6. ASSUME NEW i \in 1..Len(toPage'), Shows(i)' PROVE FALSE
      <4>1. i + 1 <= 1
        BY <1>1, <3>4, <3>5, <3>6
      <4> QED  BY <4>1
    <3> QED  BY <3>3, <3>6
  <2>4. ASSUME halt.at = "no", ~app.active, ~Asked, ~page'.start
        PROVE  \E i \in 1..Len(toPage') :
                  Over(i)' /\ \A j \in 1..Len(toPage') : Shows(j)' => j <= i
    <3>1. ~page.stopping /\ ~Over(1)
      BY <1>5, <2>4 DEF Halting
    <3>2. PICK k \in 1..Len(toPage) : Over(k) /\ \A j \in 1..Len(toPage) : Shows(j) => j <= k
      BY <1>7, <2>4 DEF Telling
    <3>3. PICK i \in 1..Len(toPage') : k = i + 1
      BY <1>1, <3>1, <3>2
    <3>4. ASSUME NEW j \in 1..Len(toPage'), Shows(j)' PROVE j <= i
      <4>1. j + 1 <= i + 1
        BY <1>1, <3>2, <3>3, <3>4
      <4> QED  BY <4>1
    <3> QED  BY <1>1, <3>2, <3>3, <3>4
  <2>5. halt'.at = halt.at /\ app'.active = app.active
    BY <1>0, <1>3
  <2> QED  BY <1>6, <2>1, <2>2, <2>3, <2>4, <2>5 DEF Telling
<1> QED  BY <1>0, <1>1, <1>3, <1>4, <1>5, <1>8, <1>9, <1>10 DEF PageTyped

(* The page learns that its Start went through. *)
LEMMA BegunKeeps ==
    ASSUME PageInv, PageHandles, toPage[1].type = "begun"
    PROVE  PageInv'
<1> USE DEF PageInv
<1>0. toPage # <<>> /\ toPage' = Tail(toPage) /\ app' = app
  BY DEF PageHandles
<1>1. /\ toPage' \in Seq(ToPage) /\ 1 \in 1..Len(toPage)
      /\ Head(toPage) = toPage[1] /\ toPage[1] \in ToPage
      /\ \A i \in 1..Len(toPage') :
            /\ i + 1 \in 1..Len(toPage) /\ toPage'[i] = toPage[i + 1]
            /\ Shows(i)' = Shows(i + 1) /\ Over(i)' = Over(i + 1)
      /\ \A i \in 1..Len(toPage) : i = 1 \/ \E j \in 1..Len(toPage') : i = j + 1
  BY <1>0, Receiving DEF PageTyped
<1> DEFINE k == toPage[1].call
<1>2. k \in 1..Len(page.calls) /\ page.calls[k] # "asked" /\ ~Shows(1)
  BY <1>1 DEF Called, Shows
<1>3. page' = [page EXCEPT !.calls[k] = "settled"] /\ halt' = halt
  BY <1>1 DEF PageHandles
<1> HIDE DEF k
<1>4. page \in Page /\ halt \in Halt
  BY DEF PageTyped
<1>5. /\ page' \in Page /\ page'.start = page.start /\ page'.stop = page.stop
      /\ page'.stopping = page.stopping /\ Len(page'.calls) = Len(page.calls)
      /\ page'.calls[k] = "settled"
      /\ \A n \in 1..Len(page.calls) : n # k => page'.calls[n] = page.calls[n]
  BY <1>2, <1>3, <1>4, Answering DEF Calling
<1>6. /\ \A n \in 1..Len(page.calls) : page'.calls[n] = "asked" <=> page.calls[n] = "asked"
      /\ Asked' = Asked
  <2>1. \A n \in 1..Len(page.calls) : page'.calls[n] = "asked" <=> page.calls[n] = "asked"
    BY <1>2, <1>5
  <2> QED  BY <1>5, <2>1 DEF Asked
<1>7. Called'
  <2>1. \A i \in 1..Len(toPage') :
            /\ toPage'[i].type # "refused"
            /\ toPage'[i].type = "begun" => /\ toPage'[i].call \in 1..Len(page'.calls)
                                            /\ page'.calls[toPage'[i].call] # "asked"
    BY <1>1, <1>5, <1>6 DEF Called
  <2>2. \A n \in 1..Len(page'.calls) :
            /\ page'.calls[n] # "refused"
            /\ page'.calls[n] = "asked" => n = Len(page'.calls) /\ ~app'.active
    BY <1>0, <1>5, <1>6 DEF Called
  <2> QED  BY <1>0, <1>5, <1>6, <2>1, <2>2 DEF Called
<1>8. Halting'
  <2>1. ASSUME NEW i \in 1..Len(toPage'), toPage'[i].type = "returned"
        PROVE  /\ halt.at = "returned"
               /\ \A j \in 1..Len(toPage') : Shows(j)' \/ toPage'[j].type = "returned" => j <= i
    <3>1. i + 1 \in 1..Len(toPage) /\ toPage[i + 1].type = "returned"
      BY <1>1, <2>1
    <3>2. /\ halt.at = "returned"
          /\ \A j \in 1..Len(toPage) : Shows(j) \/ toPage[j].type = "returned" => j <= i + 1
      BY <3>1 DEF Halting
    <3>3. ASSUME NEW j \in 1..Len(toPage'), Shows(j)' \/ toPage'[j].type = "returned"
          PROVE  j <= i
      <4>1. j + 1 <= i + 1
        BY <1>1, <3>2, <3>3
      <4> QED  BY <4>1
    <3> QED  BY <3>2, <3>3
  <2>2. halt.at = "returned" => \E i \in 1..Len(toPage') : toPage'[i].type = "returned"
    <3>1. SUFFICES ASSUME halt.at = "returned"
                   PROVE  \E i \in 1..Len(toPage') : toPage'[i].type = "returned"
      OBVIOUS
    <3>2. PICK i \in 1..Len(toPage) : toPage[i].type = "returned"
      BY <3>1 DEF Halting
    <3>3. PICK j \in 1..Len(toPage') : i = j + 1
      BY <1>1, <3>2
    <3> QED  BY <1>1, <3>2, <3>3
  <2>3. /\ page'.stopping <=> halt'.at # "no"
        /\ page'.stopping => ~page'.start /\ ~page'.stop
        /\ ~page'.stopping => page'.stop = ~page'.start
        /\ page'.stop => Len(page'.calls) > 0
        /\ halt'.at # "no" => Len(page'.calls) > 0
    BY <1>3, <1>5 DEF Halting
  <2>4. /\ halt'.at \in {"stopping", "returned"} => ~Asked'
        /\ halt'.at = "stopping" => ~app'.active \/ halt'.share = app'.n
        /\ halt'.at = "returned" => ~app'.active
    BY <1>0, <1>3, <1>6 DEF Halting
  <2> QED  BY <1>3, <2>1, <2>2, <2>3, <2>4 DEF Halting
<1>9. Telling'
  <2>1. /\ app.active \/ Asked => \A i \in 1..Len(toPage') : ~Over(i)'
        /\ page'.start => ~app.active /\ ~Asked /\ \A i \in 1..Len(toPage') : ~Shows(i)'
    BY <1>1, <1>5 DEF Telling
  <2>2. ASSUME NEW i \in 1..Len(toPage'), NEW j \in 1..Len(toPage'), Over(i)', Over(j)'
        PROVE  i = j
    <3>1. i + 1 = j + 1
      BY <1>1, <2>2 DEF Telling
    <3> QED  BY <3>1
  <2>3. ASSUME halt.at = "no", ~app.active, ~Asked, ~page'.start
        PROVE  \E i \in 1..Len(toPage') :
                  Over(i)' /\ \A j \in 1..Len(toPage') : Shows(j)' => j <= i
    <3>1. PICK l \in 1..Len(toPage) : Over(l) /\ \A j \in 1..Len(toPage) : Shows(j) => j <= l
      BY <1>5, <2>3 DEF Telling
    <3>2. PICK i \in 1..Len(toPage') : l = i + 1
      BY <1>1, <1>2, <3>1 DEF Over
    <3>3. ASSUME NEW j \in 1..Len(toPage'), Shows(j)' PROVE j <= i
      <4>1. j + 1 <= i + 1
        BY <1>1, <3>1, <3>2, <3>3
      <4> QED  BY <4>1
    <3> QED  BY <1>1, <3>1, <3>2, <3>3
  <2>4. halt'.at = halt.at /\ app'.active = app.active
    BY <1>0, <1>3
  <2> QED  BY <1>6, <2>1, <2>2, <2>3, <2>4 DEF Telling
<1> QED  BY <1>0, <1>1, <1>3, <1>4, <1>5, <1>7, <1>8, <1>9 DEF PageTyped

(* The page learns that its Stop returned. *)
LEMMA ReturnedKeeps ==
    ASSUME PageInv, PageHandles, toPage[1].type = "returned"
    PROVE  PageInv'
<1> USE DEF PageInv
<1>0. toPage # <<>> /\ toPage' = Tail(toPage) /\ app' = app
  BY DEF PageHandles
<1>1. /\ toPage' \in Seq(ToPage) /\ 1 \in 1..Len(toPage)
      /\ Head(toPage) = toPage[1]
      /\ \A i \in 1..Len(toPage') :
            /\ i + 1 \in 1..Len(toPage) /\ toPage'[i] = toPage[i + 1]
            /\ Shows(i)' = Shows(i + 1) /\ Over(i)' = Over(i + 1)
  BY <1>0, Receiving DEF PageTyped
<1>2. /\ page' = [Buttons(TRUE) EXCEPT !.stopping = FALSE, !.error = FALSE]
      /\ halt' = [halt EXCEPT !.at = "no"]
  BY <1>1 DEF PageHandles
<1>3. page \in Page /\ halt \in Halt
  BY DEF PageTyped
<1>4. /\ page' \in Page /\ page'.calls = page.calls
      /\ page'.start /\ ~page'.stop /\ ~page'.stopping
      /\ halt' \in Halt /\ halt'.at = "no"
  BY <1>2, <1>3 DEF Page, Halt, Buttons
<1>5. /\ halt.at = "returned"
      /\ \A j \in 1..Len(toPage) : Shows(j) \/ toPage[j].type = "returned" => j <= 1
  BY <1>1 DEF Halting
<1>6. Asked' = Asked /\ ~Asked /\ ~app.active
  BY <1>4, <1>5 DEF Asked, Halting
<1>7. ASSUME NEW i \in 1..Len(toPage')
      PROVE  ~Shows(i)' /\ ~Over(i)' /\ toPage'[i].type # "returned"
  <2>1. i + 1 \in 1..Len(toPage) /\ ~(i + 1 <= 1)
    BY <1>1, <1>7
  <2>2. ~Shows(i + 1) /\ toPage[i + 1].type # "returned"
    BY <1>5, <2>1
  <2> QED  BY <1>1, <2>2 DEF Over
<1>8. Called'
  <2>1. \A i \in 1..Len(toPage') :
            /\ toPage'[i].type # "refused"
            /\ toPage'[i].type = "begun" => /\ toPage'[i].call \in 1..Len(page'.calls)
                                            /\ page'.calls[toPage'[i].call] # "asked"
    BY <1>1, <1>4 DEF Called
  <2> QED  BY <1>0, <1>4, <1>6, <2>1 DEF Called
<1>9. Halting'
  <2>1. \A i \in 1..Len(toPage') : toPage'[i].type # "returned"
    BY <1>7
  <2>2. page'.stop = ~page'.start
    BY <1>4 DEF Page
  <2> QED  BY <1>4, <2>1, <2>2 DEF Halting
<1>10. Telling'
  BY <1>0, <1>4, <1>6, <1>7 DEF Telling
<1> QED  BY <1>0, <1>1, <1>4, <1>8, <1>9, <1>10 DEF PageTyped

LEMMA HandlesKeepsPage ==
    ASSUME PageInv, PageHandles
    PROVE  PageInv'
<1>1. toPage # <<>> /\ toPage \in Seq(ToPage) /\ Len(toPage) \in Nat \ {0}
      /\ Head(toPage) = toPage[1] /\ toPage[1] \in ToPage
  BY Reading DEF PageHandles, PageInv, PageTyped
<1>2. toPage[1].type # "refused"
  <2>1. 1 \in 1..Len(toPage)
    BY <1>1
  <2> QED  BY <2>1 DEF PageInv, Called
<1>3. toPage[1].type \in {"share-state", "begun", "returned"}
  BY <1>1, <1>2 DEF ToPage
<1> QED  BY <1>3, EventKeeps, BegunKeeps, ReturnedKeeps DEF Shows

-----------------------------------------------------------------------------
(* The calls of App. *)

LEMMA Counting ==
    /\ MaxStarts \in Nat /\ 0 \in 0..MaxStarts
    /\ app \in App => app.n \in 0..MaxStarts /\ app.n \in Nat
<1>1. MaxStarts \in Nat /\ 0 \in 0..MaxStarts
  BY MaxStartsAssumption
<1>2. app \in App => app.n \in 0..MaxStarts
  BY DEF App
<1>3. \A n \in 0..MaxStarts : n \in Nat
  OBVIOUS
<1> QED  BY <1>1, <1>2, <1>3

LEMMA StartCallKeeps ==
    ASSUME PageInv, Shared, NEW n \in 1..Len(page.calls), AppStart(n)
    PROVE  PageInv' /\ Shared'
<1> USE DEF PageInv
<1>0. page.calls[n] = "asked" /\ halt' = halt /\ toPage' = toPage
  BY DEF AppStart
<1>1. n = Len(page.calls) /\ ~app.active /\ Asked
  BY <1>0 DEF Called, Asked
<1>2. /\ page' = [page EXCEPT !.calls[n] = "begun"] /\ NewContext
      /\ app' = [active |-> TRUE, n |-> app.n + 1, pc |-> "begin", run |-> FALSE,
                 told |-> FALSE, failure |-> ""]
      /\ session' = NoSession
  BY <1>1 DEF AppStart
<1>3. page \in Page
  BY DEF PageTyped
<1>4. /\ page' \in Page /\ page'.start = page.start /\ page'.stop = page.stop
      /\ page'.stopping = page.stopping
      /\ Len(page.calls) \in Nat /\ Len(page'.calls) = Len(page.calls)
      /\ page'.calls[n] = "begun"
      /\ \A k \in 1..Len(page.calls) : k # n => page'.calls[k] = page.calls[k]
  BY <1>2, <1>3, Answering DEF Calling
<1>5. app.n = Len(page.calls) - 1 /\ Len(page.calls) <= MaxStarts
  BY <1>1 DEF Called
<1>6. app.n + 1 = Len(page.calls) /\ app.n + 1 \in 0..MaxStarts
  BY <1>4, <1>5, Counting
<1>7. app' \in App /\ app'.active /\ app'.n = Len(page.calls) /\ app'.pc = "begin"
  BY <1>2, <1>4, <1>5, <1>6 DEF App
<1>8. \A k \in 1..Len(page.calls) : page'.calls[k] # "asked"
  BY <1>1, <1>4 DEF Called
<1>9. ~Asked'
  BY <1>4, <1>8 DEF Asked
<1>10. \A i : Shows(i)' = Shows(i) /\ Over(i)' = Over(i)
  BY <1>0 DEF Shows, Over
<1>11. Called'
  <2>1. \A k \in 1..Len(page.calls) : page'.calls[k] # "refused"
    BY <1>4 DEF Called
  <2>2. \A i \in 1..Len(toPage') :
            /\ toPage'[i].type # "refused"
            /\ toPage'[i].type = "begun" => /\ toPage'[i].call \in 1..Len(page'.calls)
                                            /\ page'.calls[toPage'[i].call] # "asked"
    BY <1>0, <1>4, <1>8 DEF Called
  <2> QED  BY <1>4, <1>5, <1>7, <1>8, <1>9, <2>1, <2>2 DEF Called
<1>12. halt.at \notin {"stopping", "returned"}
  BY <1>1 DEF Halting
<1>13. Halting'
  <2>1. \A i \in 1..Len(toPage') : toPage'[i].type # "returned"
    BY <1>0, <1>12 DEF Halting
  <2> QED  BY <1>0, <1>4, <1>12, <2>1 DEF Halting
<1>14. Telling'
  BY <1>0, <1>1, <1>4, <1>7, <1>10 DEF Telling
<1>15. Shared'
  BY <1>2, <1>7 DEF Shared, Sessioned, Phases, NewContext, NoSession, Idle
<1> QED  BY <1>0, <1>4, <1>7, <1>11, <1>13, <1>14, <1>15 DEF PageTyped

LEMMA StartRepliesKeeps ==
    ASSUME PageInv, NEW n \in 1..Len(page.calls), AppStartReplies(n)
    PROVE  PageInv'
<1> USE DEF PageInv
<1>0. page \in Page /\ page.calls[n] = "begun"
  BY DEF PageTyped, AppStartReplies, Called
<1>1. /\ page' = [page EXCEPT !.calls[n] = "replied"] /\ toPage' = Append(toPage, Reply("begun", n))
      /\ halt' = halt /\ app' = app
  BY <1>0 DEF AppStartReplies
<1>2. /\ page' \in Page /\ page'.start = page.start /\ page'.stop = page.stop
      /\ page'.stopping = page.stopping
      /\ Len(page.calls) \in Nat /\ Len(page'.calls) = Len(page.calls)
      /\ page'.calls[n] = "replied"
      /\ \A k \in 1..Len(page.calls) : k # n => page'.calls[k] = page.calls[k]
  BY <1>0, <1>1, Answering DEF Calling
<1>3. /\ Reply("begun", n) \in ToPage
      /\ Reply("begun", n).type = "begun" /\ Reply("begun", n).call = n
  <2>1. n \in 0..MaxStarts
    BY <1>2, MaxStartsAssumption DEF Called
  <2> QED  BY <2>1 DEF Reply, ToPage
<1>4. /\ toPage' \in Seq(ToPage) /\ Len(toPage) \in Nat /\ Len(toPage') = Len(toPage) + 1
      /\ toPage'[Len(toPage')] = Reply("begun", n)
      /\ \A i \in 1..Len(toPage) :
            /\ i \in 1..Len(toPage') /\ toPage'[i] = toPage[i]
            /\ Shows(i)' = Shows(i) /\ Over(i)' = Over(i)
      /\ \A i \in 1..Len(toPage') : i \in 1..Len(toPage) \/ i = Len(toPage')
  BY <1>1, <1>3, Sending DEF PageTyped
<1>5. \A i \in 1..Len(toPage') :
          Shows(i)' \/ toPage'[i].type = "returned" => i \in 1..Len(toPage)
  BY <1>3, <1>4 DEF Shows
<1>6. /\ \A k \in 1..Len(page.calls) : page'.calls[k] = "asked" <=> page.calls[k] = "asked"
      /\ Asked' = Asked
  <2>1. \A k \in 1..Len(page.calls) : page'.calls[k] = "asked" <=> page.calls[k] = "asked"
    BY <1>0, <1>2
  <2> QED  BY <1>2, <2>1 DEF Asked
<1>7. Called'
  <2>1. \A i \in 1..Len(toPage') :
            /\ toPage'[i].type # "refused"
            /\ toPage'[i].type = "begun" => /\ toPage'[i].call \in 1..Len(page'.calls)
                                            /\ page'.calls[toPage'[i].call] # "asked"
    BY <1>2, <1>3, <1>4, <1>6 DEF Called
  <2>2. \A k \in 1..Len(page'.calls) :
            /\ page'.calls[k] # "refused"
            /\ page'.calls[k] = "asked" => k = Len(page'.calls) /\ ~app'.active
    BY <1>1, <1>2, <1>6 DEF Called
  <2> QED  BY <1>1, <1>2, <1>6, <2>1, <2>2 DEF Called
<1>8. Halting'
  <2>1. \A i \in 1..Len(toPage') : toPage'[i].type = "returned" =>
            /\ halt'.at = "returned"
            /\ \A j \in 1..Len(toPage') : Shows(j)' \/ toPage'[j].type = "returned" => j <= i
    BY <1>1, <1>4, <1>5 DEF Halting
  <2>2. halt'.at = "returned" => \E i \in 1..Len(toPage') : toPage'[i].type = "returned"
    BY <1>1, <1>4 DEF Halting
  <2>3. /\ page'.stopping <=> halt'.at # "no"
        /\ page'.stopping => ~page'.start /\ ~page'.stop
        /\ ~page'.stopping => page'.stop = ~page'.start
        /\ page'.stop => Len(page'.calls) > 0
        /\ halt'.at # "no" => Len(page'.calls) > 0
    BY <1>1, <1>2 DEF Halting
  <2>4. /\ halt'.at \in {"stopping", "returned"} => ~Asked'
        /\ halt'.at = "stopping" => ~app'.active \/ halt'.share = app'.n
        /\ halt'.at = "returned" => ~app'.active
    BY <1>1, <1>6 DEF Halting
  <2> QED  BY <2>1, <2>2, <2>3, <2>4 DEF Halting
<1>9. Telling'
  <2>1. \A i \in 1..Len(toPage') : Over(i)' => i \in 1..Len(toPage) /\ Over(i)
    BY <1>4, <1>5 DEF Over
  <2>2. /\ page'.start => ~app'.active /\ ~Asked' /\ \A i \in 1..Len(toPage') : ~Shows(i)'
        /\ app'.active \/ Asked' => \A i \in 1..Len(toPage') : ~Over(i)'
        /\ \A i, j \in 1..Len(toPage') : Over(i)' /\ Over(j)' => i = j
    BY <1>1, <1>2, <1>4, <1>5, <1>6, <2>1 DEF Telling
  <2>3. ASSUME halt'.at = "no", ~app'.active, ~Asked', ~page'.start
        PROVE  \E i \in 1..Len(toPage') :
                  Over(i)' /\ \A j \in 1..Len(toPage') : Shows(j)' => j <= i
    <3>1. PICK i \in 1..Len(toPage) : Over(i) /\ \A j \in 1..Len(toPage) : Shows(j) => j <= i
      BY <1>1, <1>2, <1>6, <2>3 DEF Telling
    <3> QED  BY <1>4, <1>5, <3>1
  <2> QED  BY <2>2, <2>3 DEF Telling
<1> QED  BY <1>1, <1>2, <1>4, <1>7, <1>8, <1>9 DEF PageTyped

LEMMA StopCallKeeps ==
    ASSUME PageInv, AppStop
    PROVE  PageInv'
<1> USE DEF PageInv
<1>0. /\ halt.at = "waits" /\ page.calls[Len(page.calls)] = "settled"
      /\ halt' = [at |-> "stopping", share |-> IF app.active THEN app.n ELSE 0]
      /\ page' = page /\ toPage' = toPage /\ app' = app
  BY DEF AppStop
<1>1. halt' \in Halt /\ halt'.at = "stopping" /\ (app.active => halt'.share = app.n)
  <2>1. 0 \in 0..MaxStarts /\ app.n \in 0..MaxStarts
    BY Counting
  <2> QED  BY <1>0, <2>1 DEF Halt
<1>2. ~Asked
  BY <1>0 DEF Called, Asked
<1>3. Asked' = Asked /\ \A i : Shows(i)' = Shows(i) /\ Over(i)' = Over(i)
  BY <1>0 DEF Asked, Shows, Over
<1>4. Called'
  BY <1>0, <1>3 DEF Called
<1>5. Halting'
  BY <1>0, <1>1, <1>2, <1>3 DEF Halting
<1>6. Telling'
  BY <1>0, <1>1, <1>3 DEF Telling
<1> QED  BY <1>0, <1>1, <1>4, <1>5, <1>6 DEF PageTyped

LEMMA StopReturnsKeeps ==
    ASSUME PageInv, AppStopReturns
    PROVE  PageInv'
<1> USE DEF PageInv
<1>0. /\ halt.at = "stopping" /\ Done(halt.share)
      /\ halt' = [at |-> "returned", share |-> 0] /\ toPage' = Append(toPage, Reply("returned", 0))
      /\ page' = page /\ app' = app
  BY DEF AppStopReturns
<1>1. 0 \in 0..MaxStarts
  BY MaxStartsAssumption
<1>2. halt' \in Halt /\ halt'.at = "returned"
  BY <1>0, <1>1 DEF Halt
<1>3. Reply("returned", 0) \in ToPage /\ Reply("returned", 0).type = "returned"
  BY <1>1 DEF Reply, ToPage
<1>4. /\ toPage' \in Seq(ToPage) /\ Len(toPage) \in Nat /\ Len(toPage') = Len(toPage) + 1
      /\ toPage'[Len(toPage')] = Reply("returned", 0)
      /\ \A i \in 1..Len(toPage) :
            /\ i \in 1..Len(toPage') /\ toPage'[i] = toPage[i]
            /\ Shows(i)' = Shows(i) /\ Over(i)' = Over(i)
      /\ \A i \in 1..Len(toPage') : i \in 1..Len(toPage) \/ i = Len(toPage')
  BY <1>0, <1>3, Sending DEF PageTyped
<1>5. ~app.active /\ ~Asked
  <2>1. app.n \in Nat
    BY Counting
  <2> QED  BY <1>0, <2>1 DEF Halting, Done
<1>6. Asked' = Asked
  BY <1>0 DEF Asked
<1>7. \A i \in 1..Len(toPage') : Shows(i)' => i \in 1..Len(toPage)
  BY <1>3, <1>4 DEF Shows
<1>8. Called'
  <2>1. \A i \in 1..Len(toPage') :
            /\ toPage'[i].type # "refused"
            /\ toPage'[i].type = "begun" => /\ toPage'[i].call \in 1..Len(page'.calls)
                                            /\ page'.calls[toPage'[i].call] # "asked"
    BY <1>0, <1>3, <1>4 DEF Called
  <2> QED  BY <1>0, <1>6, <2>1 DEF Called
<1>9. Halting'
  <2>1. \A i \in 1..Len(toPage') : toPage'[i].type = "returned" <=> i = Len(toPage')
    BY <1>0, <1>3, <1>4 DEF Halting
  <2>2. /\ \A j \in 1..Len(toPage') : j <= Len(toPage')
        /\ \E i \in 1..Len(toPage') : i = Len(toPage')
    BY <1>4
  <2>3. /\ page'.stopping <=> halt'.at # "no"
        /\ page'.stopping => ~page'.start /\ ~page'.stop
        /\ ~page'.stopping => page'.stop = ~page'.start
        /\ page'.stop => Len(page'.calls) > 0
        /\ halt'.at # "no" => Len(page'.calls) > 0
    BY <1>0, <1>2 DEF Halting
  <2> QED  BY <1>0, <1>2, <1>5, <1>6, <2>1, <2>2, <2>3 DEF Halting
<1>10. Telling'
  <2>1. \A i \in 1..Len(toPage') : Over(i)' => i \in 1..Len(toPage) /\ Over(i)
    BY <1>4, <1>7 DEF Over
  <2> QED  BY <1>0, <1>2, <1>4, <1>5, <1>6, <1>7, <2>1 DEF Telling
<1> QED  BY <1>0, <1>2, <1>4, <1>8, <1>9, <1>10 DEF PageTyped

-----------------------------------------------------------------------------
(* The whole of the app. *)

IInv == SourceInv /\ Shared /\ PageInv

LEMMA Starts == Init => IInv
<1> SUFFICES ASSUME Init PROVE IInv
  OBVIOUS
<1>1. SourceInv
  BY SourceStarts DEF Init
<1>2. 0 \in 0..MaxStarts
  BY MaxStartsAssumption
<1>3. /\ app \in App /\ ~app.active /\ app.pc = "none" /\ app.n = 0
  BY <1>2 DEF Init, App
<1>4. Shared
  <2>1. Idle
    BY DEF Init, SourceInit, Unselected, Idle
  <2> QED  BY <1>3, <2>1 DEF Init, Shared, Sessioned, NoSession, Phases
<1>5. /\ page \in Page /\ page.calls = <<>> /\ Len(page.calls) = 0
      /\ page.start /\ ~page.stop /\ ~page.stopping
  <2>1. <<>> \in CallSeq
    BY DEF CallSeq
  <2> QED  BY <2>1 DEF Init, Page
<1>6. halt \in Halt /\ halt.at = "no"
  BY <1>2 DEF Init, Halt
<1>7. toPage \in Seq(ToPage) /\ Len(toPage) = 0
  <2>1. toPage = <<>>
    BY DEF Init
  <2> QED  BY <2>1
<1>8. ~Asked
  BY <1>5 DEF Asked
<1>9. \A i \in 1..Len(toPage) : FALSE
  BY <1>7
<1>10. Called
  BY <1>3, <1>5, <1>8, <1>9, MaxStartsAssumption DEF Called
<1>11. Halting
  <2>1. page.stop = ~page.start
    BY <1>5 DEF Page
  <2> QED  BY <1>5, <1>6, <1>9, <2>1 DEF Halting
<1>12. Telling
  BY <1>3, <1>5, <1>8, <1>9 DEF Telling
<1> QED  BY <1>1, <1>3, <1>4, <1>5, <1>6, <1>7, <1>10, <1>11, <1>12 DEF IInv, PageInv, PageTyped

LEMMA Keeps ==
    ASSUME IInv, [Next]_vars
    PROVE  IInv'
<1> USE DEF IInv
<1>1. SourceInv'
  BY AppCallsSource, SourceKeeps
<1>2. CASE SourceSteps
  BY <1>1, <1>2, SourceStepsKeep, UnseenKeeps DEF Shared
<1>3. CASE Share \/ WatchSource \/ Session
  BY <1>1, <1>3, ShareKeeps, UnseenKeeps, EmitsKeeps DEF Shared
<1>4. CASE Clicks \/ PageHandles
  <2>1. UNCHANGED <<source, app, session>>
    BY <1>4 DEF Clicks, StartClick, StopClick, PageHandles
  <2>2. Shared'
    BY <2>1 DEF Shared, Sessioned, Phases, Idle
  <2> QED  BY <1>1, <1>4, <2>2, StartClickKeeps, StopClickKeeps, HandlesKeepsPage DEF Clicks
<1>5. CASE Calls
  <2>1. CASE \E n \in 1..Len(page.calls) : AppStart(n)
    BY <1>1, <2>1, StartCallKeeps
  <2>2. CASE \E n \in 1..Len(page.calls) : AppStartReplies(n)
    <3>1. Shared'
      BY <2>2 DEF AppStartReplies, Shared, Sessioned, Phases, Idle
    <3> QED  BY <1>1, <2>2, <3>1, StartRepliesKeeps
  <2>3. CASE AppStop \/ AppStopReturns
    <3>1. UNCHANGED <<source, app, session>>
      BY <2>3 DEF AppStop, AppStopReturns, Cancel, sourceVars
    <3>2. Shared'
      BY <3>1 DEF Shared, Sessioned, Phases, Idle
    <3> QED  BY <1>1, <2>3, <3>2, StopCallKeeps, StopReturnsKeeps
  <2> QED  BY <1>5, <2>1, <2>2, <2>3 DEF Calls
<1>6. CASE UNCHANGED vars
  <2>1. Shared' /\ Unseen
    BY <1>6 DEF vars, Shared, Sessioned, Phases, Idle, Unseen
  <2> QED  BY <1>1, <2>1, UnseenKeeps DEF Shared
<1> QED  BY <1>2, <1>3, <1>4, <1>5, <1>6 DEF Next

(* In the app, the Source keeps its invariant, the share goroutine agrees    *)
(* with it, and the page with both.                                          *)
THEOREM Invariant == Spec => []IInv
<1>1. IInv /\ [Next]_vars => IInv'
  BY Keeps
<1> QED  BY <1>1, Starts, PTL DEF Spec

(* Every variable keeps its type: App never counts more shares than the page *)
(* asked for.                                                                *)
THEOREM TypeCorrect == Spec => []TypeOK
<1>1. IInv => TypeOK
  BY TypeParts DEF IInv, SourceInv, Shared, PageInv
<1> QED  BY <1>1, Invariant, PTL

(* GStreamer reads the selection only while its descriptor and the audio     *)
(* pipe are open.                                                            *)
THEOREM CaptureIsOutlived == Spec => []SourceOutlivesCapture
<1>1. IInv => SourceOutlivesCapture
  <2> SUFFICES ASSUME IInv, app.pc = "start" \/ session.at = "live"
               PROVE  source.fd /\ source.audio # "closed"
    BY DEF SourceOutlivesCapture
  <2>1. source.at = "ready"
    BY DEF IInv, Shared, Phases
  <2> QED  BY <2>1 DEF IInv, SourceInv, Held, Idle
<1> QED  BY <1>1, Invariant, PTL

(* An idle App has no source, no session and, once the portal has read what  *)
(* it was sent, no picker and no selection.                                  *)
THEOREM ShareIsOutlived == Spec => []NothingOutlivesShare
<1>1. IInv => NothingOutlivesShare
  BY SourceLeavesNothing DEF IInv, Shared, Phases, NothingOutlivesShare
<1> QED  BY <1>1, Invariant, PTL

(* The buttons of a page with nothing under way say what App is doing, and   *)
(* App refuses no Start of the page.                                         *)
THEOREM PageIsTold == Spec => []PageTellsTruth
<1>1. IInv => PageTellsTruth
  <2> SUFFICES ASSUME IInv PROVE PageTellsTruth
    OBVIOUS
  <2>1. \A n \in 1..Len(page.calls) : page.calls[n] # "refused"
    BY DEF IInv, PageInv, Called
  <2>2. ASSUME toPage = <<>>, halt.at = "no",
               \A n \in 1..Len(page.calls) : page.calls[n] = "settled"
        PROVE  page.start = ~app.active /\ page.stop = app.active
    <3>1. page \in Page /\ app \in App
      BY DEF IInv, PageInv, PageTyped
    <3>2. ~Asked
      BY <2>2 DEF Asked
    <3>3. \A i \in 1..Len(toPage) : FALSE
      BY <2>2
    <3>4. page.start <=> ~app.active
      BY <2>2, <3>2, <3>3 DEF IInv, PageInv, Telling
    <3>5. page.stop = ~page.start
      BY <2>2 DEF IInv, PageInv, Halting
    <3> QED  BY <3>1, <3>4, <3>5 DEF Page, App
  <2> QED  BY <2>1, <2>2 DEF PageTellsTruth
<1> QED  BY <1>1, Invariant, PTL
=============================================================================
