-------------------------- MODULE NativeSessionProofs --------------------------
(* What holds of the native sharer for any number of viewers, any limits and *)
(* queues of any length, with proofs checked by TLAPS.                       *)
EXTENDS NativeSession, FiniteSetTheorems, TLAPS

-----------------------------------------------------------------------------
(* The invariant, in parts. *)

(* What the streams carry: only refusals and the end name no viewer. *)
Heard == {m \in ToSharer : m.type \notin {"error", "stopped"} => m.peer \in PeerId}
Asked == {m \in ToServer : m.type # "stop" => m.peer \in PeerId}

FarTyped ==
    /\ open \in BOOLEAN /\ linkUp \in BOOLEAN
    /\ members \subseteq PeerId /\ departed \subseteq PeerId /\ offered \subseteq PeerId
    /\ IsFiniteSet(members)
StreamsTyped == toSharer \in Seq(Heard) /\ toServer \in Seq(Asked)
PeersTyped ==
    /\ peer \in [PeerId -> {"new", "offered", "answered", "dropped", "left"}]
    /\ held \in [PeerId -> 0..IceCap]
    /\ bitrates \in [PeerId -> 0..MaxRate]
    /\ encoder \in MinRate..MaxRate
    /\ connected \subseteq PeerId /\ failing \subseteq PeerId /\ broke \subseteq PeerId
    /\ iced \in [PeerId -> {"no", "sending", "sent"}]
ControlTyped ==
    /\ run \in {"reading", "media", "final", "done"}
    /\ failure \in {"", "lost", "rejected"}
    /\ cancelled \in BOOLEAN
    /\ pump \in {"running", "failed", "reported", "done"}
    /\ media \in {"live", "stopping", "closed"}
    /\ stop \in {"none", "media", "wait", "done"}
    /\ state \in [state : {"sharing", "stopped"}, viewers : Nat,
                  error : {"", "media", "lost", "rejected"}, notice : BOOLEAN]

Typed == FarTyped /\ StreamsTyped /\ PeersTyped /\ ControlTyped

(* How far the end has come: run, the pump, stopMedia and Stop in step. *)
Ending ==
    /\ state.state = "stopped" <=> run = "done"
    /\ run \in {"final", "done"} => media = "closed"
    /\ media = "closed" => pump = "done"
    /\ run # "reading" => Peers = {} /\ cancelled /\ media # "live"
    /\ stop \in {"wait", "done"} => media = "closed"
    /\ \A m \in Range(toServer) : m.type = "stop" => media = "closed"

(* An error is there only once the pump has reported its failure or run is   *)
(* over.                                                                     *)
Reported == pump \in {"running", "failed"} /\ run # "done" => state.error = ""

(* What the sharer reads of an end of the share, it reads "stopped" first. *)
Stops(i) == toSharer[i].type = "stopped"
Refuses(i) == toSharer[i].type = "error" /\ toSharer[i].peer = None
StoppedFirst ==
    run = "reading" =>
        /\ ~open => \E i \in 1..Len(toSharer) : Stops(i)
        /\ \A j \in 1..Len(toSharer) : Refuses(j) => \E i \in 1..(j - 1) : Stops(i)

(* The viewers map as the server had it when it sent the i-th message that   *)
(* is on its way: those whose join was read or comes, less those that leave. *)
Joins(p, i) == toSharer[i].type = "viewer-joined" /\ toSharer[i].peer = p
Leaves(p, i) == toSharer[i].type = "viewer-left" /\ toSharer[i].peer = p
Inside == {p \in PeerId : peer[p] \in {"offered", "answered", "dropped"}}
Coming(p, i) == \E j \in 1..i : Joins(p, j)
Going(p, i) == \E j \in 1..i : Leaves(p, j)
View(i) == {p \in PeerId : (p \in Inside \/ Coming(p, i)) /\ ~Going(p, i)}

Viewed ==
    /\ open => View(Len(toSharer)) = members
    /\ \A i \in 0..Len(toSharer) :
          IsFiniteSet(View(i)) /\ Cardinality(View(i)) <= MaxPeers
    /\ \A i \in 1..Len(toSharer) :
          toSharer[i].type \in {"viewer-joined", "viewer-left"}
              => toSharer[i].viewers = Cardinality(View(i))
    /\ \A p \in PeerId : \A i \in 1..Len(toSharer) :
          Joins(p, i) => /\ peer[p] = "new"
                         /\ \A j \in 1..Len(toSharer) :
                               /\ Joins(p, j) => i = j
                               /\ Leaves(p, j) => i < j

(* Whoever is asked to go, told to have gone or about to fail has a cause. *)
Gone == broke \cup departed
Caused ==
    /\ failing \subseteq broke
    /\ \A m \in Range(toServer) : m.type = "disconnect-peer" => m.peer \in Gone
    /\ \A m \in Range(toSharer) : m.type = "viewer-left" => m.peer \in Gone

(* A peer that was dropped leaves: its request or its viewer-left is coming. *)
Leaving(p) ==
    \/ Ask("disconnect-peer", p) \in Range(toServer)
    \/ \E m \in Range(toSharer) : m.type = "viewer-left" /\ m.peer = p
Dropped == {p \in PeerId : peer[p] = "dropped"}
Leavers ==
    /\ run = "reading" /\ ~cancelled /\ open => \A p \in Dropped : Leaving(p)
    /\ run = "reading" => state.viewers = Cardinality(Inside) \/ Dropped # {}

(* A peer has a bitrate only between its join and its departure. *)
Rated == \A p \in PeerId : peer[p] = "new" => bitrates[p] = 0

IInv == /\ Typed /\ Ending /\ Reported /\ StoppedFirst /\ Viewed /\ Caused /\ Leavers /\ Rated
        /\ NeverRejected /\ HealthyPeersStay /\ EncoderFollows /\ StoppedMeansStopped

-----------------------------------------------------------------------------
(* Streams: what one more message, or one less, leaves of them. *)

LEMMA Appending ==
    ASSUME NEW S, NEW q \in Seq(S), NEW m \in S
    PROVE  /\ Append(q, m) \in Seq(S)
           /\ Len(q) \in Nat /\ Len(Append(q, m)) = Len(q) + 1
           /\ \A i \in 1..Len(q) : Append(q, m)[i] = q[i]
           /\ Append(q, m)[Len(q) + 1] = m
  OBVIOUS

LEMMA Reading ==
    ASSUME NEW S, NEW q \in Seq(S), q # <<>>
    PROVE  /\ Tail(q) \in Seq(S) /\ Head(q) \in S /\ Head(q) = q[1]
           /\ Len(q) \in Nat \ {0} /\ Len(Tail(q)) = Len(q) - 1
           /\ \A i \in 1..(Len(q) - 1) : Tail(q)[i] = q[i + 1]
  OBVIOUS

LEMMA Contents ==
    ASSUME NEW S, NEW q \in Seq(S)
    PROVE  /\ Range(q) = {q[i] : i \in 1..Len(q)} /\ Range(q) \subseteq S
           /\ \A m \in S : Range(Append(q, m)) = Range(q) \cup {m}
           /\ q # <<>> => /\ Head(q) \in Range(q)
                         /\ Range(q) = Range(Tail(q)) \cup {Head(q)}
<1>1. DOMAIN q = 1..Len(q) /\ Len(q) \in Nat /\ \A i \in 1..Len(q) : q[i] \in S
  OBVIOUS
<1>2. Range(q) = {q[i] : i \in 1..Len(q)} /\ Range(q) \subseteq S
  BY <1>1 DEF Range
<1>3. ASSUME NEW m \in S
      PROVE  Range(Append(q, m)) = Range(q) \cup {m}
  <2>1. DOMAIN Append(q, m) = 1..(Len(q) + 1)
    BY Appending
  <2> QED  BY <1>1, <2>1, Appending DEF Range
<1>4. ASSUME q # <<>>
      PROVE  Head(q) \in Range(q) /\ Range(q) = Range(Tail(q)) \cup {Head(q)}
  <2>1. /\ Len(q) \in Nat \ {0} /\ Head(q) = q[1]
        /\ DOMAIN Tail(q) = 1..(Len(q) - 1)
        /\ \A i \in 1..(Len(q) - 1) : Tail(q)[i] = q[i + 1]
    BY <1>4, Reading
  <2>2. \A i \in 1..Len(q) : i = 1 \/ (i - 1 \in 1..(Len(q) - 1) /\ q[i] = Tail(q)[i - 1])
    BY <2>1
  <2>3. \A i \in 1..(Len(q) - 1) : i + 1 \in 1..Len(q)
    BY <2>1
  <2>4. Range(q) \subseteq Range(Tail(q)) \cup {Head(q)}
    <3> SUFFICES ASSUME NEW i \in 1..Len(q), i # 1 PROVE q[i] \in Range(Tail(q))
      BY <1>1, <2>1 DEF Range
    <3>1. i - 1 \in 1..(Len(q) - 1) /\ q[i] = Tail(q)[i - 1]
      BY <2>2
    <3> QED  BY <2>1, <3>1 DEF Range
  <2>5. Range(Tail(q)) \subseteq Range(q) /\ Head(q) \in Range(q)
    BY <1>1, <2>1, <2>3 DEF Range
  <2> QED  BY <2>4, <2>5
<1> QED  BY <1>2, <1>3, <1>4

LEMMA MessagesTyped ==
    /\ \A p \in PeerId, n \in Nat : /\ Told("viewer-joined", p, n) \in Heard
                                    /\ Told("viewer-left", p, n) \in Heard
                                    /\ Told("answer", p, n) \in Heard
                                    /\ Told("ice", p, n) \in Heard
    /\ \A p \in PeerId \cup {None} : /\ Told("error", p, 0) \in Heard
                                     /\ Told("stopped", p, 0) \in Heard
    /\ \A p \in PeerId : /\ Ask("offer", p) \in Asked /\ Ask("ice", p) \in Asked
                         /\ Ask("disconnect-peer", p) \in Asked
    /\ Ask("stop", None) \in Asked
  BY DEF Told, Ask, Heard, Asked, ToSharer, ToServer

LEMMA SentTyped ==
    ASSUME Typed, NEW m \in Asked, Send(m)
    PROVE  toServer' \in Seq(Asked) /\ cancelled' \in BOOLEAN
<1>1. toServer \in Seq(Asked) /\ cancelled \in BOOLEAN
  BY DEF Typed, StreamsTyped, ControlTyped
<1>2. Append(toServer, m) \in Seq(Asked)
  BY <1>1, Appending
<1> QED  BY <1>1, <1>2 DEF Send, Sent, NotSent

(* Every set of rates has a slowest one: of the sets of rates that are not   *)
(* above a given one, all finite, some has no smaller one within.            *)
LEMMA SlowestExists ==
    ASSUME NEW S \in SUBSET Nat, S # {}
    PROVE  /\ Slowest(S) \in S
           /\ \A r \in S : Slowest(S) <= r
<1> DEFINE UpTo(r) == {q \in S : q <= r}
           Parts == {UpTo(r) : r \in S}
<1>0. \A r \in S : r \in Nat
  OBVIOUS
<1>1. \A r \in S : UpTo(r) \in FiniteSubsetsOf(S)
  <2> TAKE r \in S
  <2>1. IsFiniteSet(0..r)
    BY <1>0, FS_Interval
  <2>2. UpTo(r) \in SUBSET (0..r)
    <3>1. \A x \in S : x <= r => x \in 0..r
      BY <1>0
    <3> QED  BY <3>1
  <2>3. IsFiniteSet(UpTo(r))
    BY <2>1, <2>2, FS_Subset
  <2> QED  BY <2>3 DEF FiniteSubsetsOf
<1>2. PICK A \in Parts : \A B \in Parts : <<B, A>> \notin StrictSubsetOrdering(S)
  <2>1. Parts \subseteq FiniteSubsetsOf(S) /\ Parts # {}
    BY <1>1
  <2> QED  BY <2>1, FS_StrictSubsetOrderingWellFounded, WFMin
<1>3. PICK r \in S : A = UpTo(r)
  OBVIOUS
<1>4. ASSUME NEW q \in S, q < r PROVE FALSE
  <2>1. UpTo(q) \subseteq UpTo(r) /\ r \in UpTo(r) /\ r \notin UpTo(q)
    <3>1. \A x \in S : x <= q => x <= r
      BY <1>0, <1>4
    <3>2. r <= r /\ ~(r <= q)
      BY <1>0, <1>4
    <3> QED  BY <3>1, <3>2
  <2>2. <<UpTo(q), A>> \in StrictSubsetOrdering(S)
    BY <1>1, <1>3, <2>1 DEF StrictSubsetOrdering, FiniteSubsetsOf
  <2> QED  BY <1>2, <2>2
<1>5. \A q \in S : r <= q
  BY <1>0, <1>4
<1> QED  BY <1>5 DEF Slowest

LEMMA RatesTyped ==
    ASSUME Typed, NEW p, NEW r \in 0..MaxRate, SetBitrate(p, r)
    PROVE  bitrates' \in [PeerId -> 0..MaxRate] /\ encoder' \in MinRate..MaxRate
<1>1. bitrates' \in [PeerId -> 0..MaxRate]
  BY DEF SetBitrate, Typed, PeersTyped
<1>2. Target(bitrates') \in MinRate..MaxRate
  <2> DEFINE rates == {MaxRate} \cup {bitrates'[q] : q \in {o \in PeerId : bitrates'[o] > 0}}
  <2>1. rates \in SUBSET Nat /\ MaxRate \in rates
    BY <1>1, SessionAssumption
  <2>2. Slowest(rates) \in rates /\ Slowest(rates) <= MaxRate
    BY <2>1, SlowestExists
  <2>3. Slowest(rates) \in Nat
    BY <2>1, <2>2
  <2>4. Clamp(Slowest(rates)) \in MinRate..MaxRate
    BY <2>2, <2>3, SessionAssumption DEF Clamp
  <2> QED  BY <2>4 DEF Target
<1>3. encoder \in MinRate..MaxRate
  BY DEF Typed, PeersTyped
<1> QED  BY <1>1, <1>2, <1>3 DEF SetBitrate

LEMMA ClosingTyped ==
    ASSUME Typed, NEW ps,
           NEW where \in {"new", "offered", "answered", "dropped", "left"},
           Closing(ps, where)
    PROVE  /\ peer' \in [PeerId -> {"new", "offered", "answered", "dropped", "left"}]
           /\ \A p \in PeerId : peer'[p] = IF p \in ps THEN where ELSE peer[p]
  BY DEF Closing, Typed, PeersTyped

-----------------------------------------------------------------------------
(* Type correctness. *)

LEMMA TypedParts == Typed => TypeOK
<1>1. Seq(Heard) \subseteq Seq(ToSharer) /\ Seq(Asked) \subseteq Seq(ToServer)
  BY DEF Heard, Asked
<1>2. StreamsTyped => toSharer \in Seq(ToSharer) /\ toServer \in Seq(ToServer)
  BY <1>1 DEF StreamsTyped
<1> QED  BY <1>2 DEF Typed, FarTyped, PeersTyped, ControlTyped, TypeOK

LEMMA TypedInit == Init => Typed
<1> SUFFICES ASSUME Init PROVE Typed
  OBVIOUS
<1>1. <<>> \in Seq(Heard) /\ <<>> \in Seq(Asked)
  OBVIOUS
<1>2. 0 \in 0..IceCap /\ 0 \in 0..MaxRate /\ MaxRate \in MinRate..MaxRate
  BY SessionAssumption
<1>3. FarTyped /\ StreamsTyped
  BY <1>1, FS_EmptySet DEF Init, FarTyped, StreamsTyped
<1>4. PeersTyped /\ ControlTyped
  BY <1>2 DEF Init, PeersTyped, ControlTyped
<1> QED  BY <1>3, <1>4 DEF Typed

LEMMA SharerSideKept ==
    ASSUME Typed, UNCHANGED sharerSide
    PROVE  ControlTyped' /\ (broke' \subseteq PeerId => PeersTyped')
<1>1. ControlTyped'
  BY DEF Typed, ControlTyped, sharerSide
<1>2. broke' \subseteq PeerId => PeersTyped'
  BY DEF Typed, PeersTyped, sharerSide, callbacks
<1> QED  BY <1>1, <1>2

(* The steps of the server. *)
LEMMA ServerTyped ==
    ASSUME Typed, Server
    PROVE  Typed'
<1> USE DEF Typed
<1>1. Cardinality(members) \in Nat
  BY FS_CardinalityType DEF FarTyped
<1>2. Cardinality(members) + 1 \in Nat
  BY <1>1
<1>3. \A p \in members : Cardinality(members) - 1 \in Nat
  BY <1>1, FS_EmptySet DEF FarTyped
<1>4. \A p : IsFiniteSet(members \cup {p}) /\ IsFiniteSet(members \ {p})
  BY FS_AddElement, FS_RemoveElement DEF FarTyped
<1>5. \A m \in Heard : Append(toSharer, m) \in Seq(Heard)
  BY Appending DEF StreamsTyped
<1>7. CASE ServerReceives
  <2> DEFINE m == Head(toServer)
  <2>1. m \in Asked /\ Tail(toServer) \in Seq(Asked) /\ toServer' = Tail(toServer)
    BY <1>7, Reading DEF ServerReceives, StreamsTyped
  <2>2. m.peer \in PeerId \cup {None} /\ m.type \in {"offer", "ice", "disconnect-peer", "stop"}
        /\ (m.type # "stop" => m.peer \in PeerId)
    BY <2>1 DEF Asked, ToServer
  <2>3. StreamsTyped'
    <3>1. toSharer' \in Seq(Heard)
      BY <1>3, <1>5, <1>7, <2>2, MessagesTyped DEF ServerReceives, Notify, StreamsTyped
    <3> QED  BY <2>1, <3>1 DEF StreamsTyped
  <2>4. FarTyped' /\ broke' \subseteq PeerId
    BY <1>4, <1>7, <2>2, FS_EmptySet DEF ServerReceives, FarTyped, PeersTyped, server
  <2>5. UNCHANGED sharerSide
    BY <1>7 DEF ServerReceives
  <2> QED  BY <2>3, <2>4, <2>5, SharerSideKept
<1>8. ASSUME NEW p \in PeerId,
             ViewerJoins(p) \/ ViewerLeaves(p) \/ ViewerAnswers(p) \/ ViewerSendsIce(p)
      PROVE  Typed'
  <2>1. toSharer' \in Seq(Heard)
    BY <1>1, <1>2, <1>3, <1>5, <1>8, MessagesTyped
    DEF ViewerJoins, ViewerLeaves, ViewerAnswers, ViewerSendsIce, Notify
  <2>2. FarTyped'
    BY <1>4, <1>8
    DEF ViewerJoins, ViewerLeaves, ViewerAnswers, ViewerSendsIce, FarTyped, server
  <2>3. UNCHANGED <<toServer, broke, sharerSide>>
    BY <1>8 DEF ViewerJoins, ViewerLeaves, ViewerAnswers, ViewerSendsIce
  <2> QED  BY <2>1, <2>2, <2>3, SharerSideKept DEF StreamsTyped, PeersTyped
<1> QED  BY <1>7, <1>8 DEF Server

LEMMA ReceivedTyped ==
    ASSUME Typed, NEW type, Receive(type)
    PROVE  /\ toSharer' \in Seq(Heard)
           /\ Head(toSharer).peer \in PeerId \cup {None}
           /\ type \notin {"error", "stopped"} => Head(toSharer).peer \in PeerId
           /\ Head(toSharer).viewers \in Nat
<1>1. Head(toSharer) \in Heard /\ toSharer' \in Seq(Heard) /\ Head(toSharer).type = type
  BY Reading DEF Typed, StreamsTyped, Receive
<1> QED  BY <1>1 DEF Heard, ToSharer

LEMMA DropTyped ==
    ASSUME Typed, NEW p \in PeerId, Drop(p)
    PROVE  /\ toServer' \in Seq(Asked) /\ cancelled' \in BOOLEAN
           /\ peer' \in [PeerId -> {"new", "offered", "answered", "dropped", "left"}]
           /\ broke' \subseteq PeerId
  BY SentTyped, MessagesTyped, ClosingTyped DEF Drop, Disconnect, Typed, PeersTyped

(* The steps of the goroutine that reads signaling. *)
LEMMA RunTyped ==
    ASSUME Typed, Run
    PROVE  Typed'
<1> USE DEF Typed
<1>1. CASE ReadJoined
  <2> DEFINE p == Head(toSharer).peer
             n == Head(toSharer).viewers
  <2>1. toSharer' \in Seq(Heard) /\ p \in PeerId /\ n \in Nat
    BY <1>1, ReceivedTyped DEF ReadJoined
  <2>2. /\ toServer' \in Seq(Asked) /\ cancelled' \in BOOLEAN
        /\ peer' \in [PeerId -> {"new", "offered", "answered", "dropped", "left"}]
        /\ broke' \subseteq PeerId
        /\ bitrates' \in [PeerId -> 0..MaxRate]
        /\ state' \in [state : {"sharing", "stopped"}, viewers : Nat,
                       error : {"", "media", "lost", "rejected"}, notice : BOOLEAN]
    <3>1. CASE UNCHANGED <<toServer, cancelled, peer, state, bitrates, broke>>
      BY <3>1 DEF StreamsTyped, PeersTyped, ControlTyped
    <3>2. CASE /\ Closing({p}, "dropped") /\ Disconnect(p)
               /\ UNCHANGED <<state, bitrates, broke>>
      <4>1. toServer' \in Seq(Asked) /\ cancelled' \in BOOLEAN
        BY <2>1, <3>2, SentTyped, MessagesTyped DEF Disconnect
      <4>2. peer' \in [PeerId -> {"new", "offered", "answered", "dropped", "left"}]
        BY <3>2, ClosingTyped
      <4> QED  BY <3>2, <4>1, <4>2 DEF PeersTyped, ControlTyped
    <3>3. CASE Drop(p) /\ UNCHANGED <<state, bitrates>>
      BY <2>1, <3>3, DropTyped DEF PeersTyped, ControlTyped
    <3>4. CASE /\ Sent(Ask("offer", p)) /\ Closing({p}, "offered")
               /\ bitrates' = [bitrates EXCEPT ![p] = MaxRate]
               /\ state' = [state EXCEPT !.viewers = n]
               /\ UNCHANGED broke
      <4>1. toServer' \in Seq(Asked) /\ cancelled' \in BOOLEAN
        BY <2>1, <3>4, SentTyped, MessagesTyped DEF Send
      <4>2. MaxRate \in 0..MaxRate
        BY SessionAssumption
      <4> QED
        BY <2>1, <3>4, <4>1, <4>2, ClosingTyped DEF PeersTyped, ControlTyped
    <3> QED  BY <1>1, <3>1, <3>2, <3>3, <3>4 DEF ReadJoined, AddPeer
  <2>3. UNCHANGED <<quiet, held, encoder>>
    BY <1>1 DEF ReadJoined
  <2>4. FarTyped' /\ StreamsTyped'
    BY <2>1, <2>2, <2>3 DEF FarTyped, StreamsTyped, quiet, server
  <2>5. PeersTyped'
    BY <2>2, <2>3 DEF PeersTyped, quiet, callbacks
  <2>6. ControlTyped'
    BY <2>2, <2>3 DEF ControlTyped, quiet
  <2> QED  BY <2>4, <2>5, <2>6
<1>2. CASE ReadLeft
  <2> DEFINE p == Head(toSharer).peer
             n == Head(toSharer).viewers
  <2>1. toSharer' \in Seq(Heard) /\ p \in PeerId /\ n \in Nat
    BY <1>2, ReceivedTyped DEF ReadLeft
  <2>2. /\ Closing({p}, "left") /\ SetBitrate(p, 0)
        /\ state' = [state EXCEPT !.viewers = n]
        /\ UNCHANGED <<quiet, toServer, cancelled, held, broke>>
    BY <1>2 DEF ReadLeft, Shown
  <2>3. 0 \in 0..MaxRate
    BY SessionAssumption
  <2>4. FarTyped' /\ StreamsTyped'
    BY <2>1, <2>2 DEF FarTyped, StreamsTyped, quiet, server
  <2>5. PeersTyped'
    BY <2>2, <2>3, RatesTyped, ClosingTyped DEF PeersTyped, quiet, callbacks
  <2>6. ControlTyped'
    BY <2>1, <2>2 DEF ControlTyped, quiet
  <2> QED  BY <2>4, <2>5, <2>6
<1>3. CASE ReadAnswer \/ ReadIce \/ ReadError
  <2> DEFINE p == Head(toSharer).peer
  <2>1. /\ toSharer' \in Seq(Heard) /\ p \in PeerId
        /\ UNCHANGED <<quiet, state, bitrates, encoder>>
    BY <1>3, ReceivedTyped DEF ReadAnswer, ReadIce, ReadError
  <2>2. /\ toServer' \in Seq(Asked) /\ cancelled' \in BOOLEAN
        /\ peer' \in [PeerId -> {"new", "offered", "answered", "dropped", "left"}]
        /\ broke' \subseteq PeerId
    <3>1. CASE UNCHANGED <<toServer, cancelled, peer, broke>>
      BY <3>1 DEF StreamsTyped, PeersTyped, ControlTyped
    <3>2. CASE Closing({p}, "answered") /\ UNCHANGED <<toServer, cancelled, broke>>
      BY <3>2, ClosingTyped DEF StreamsTyped, PeersTyped, ControlTyped
    <3>3. CASE Drop(p)
      BY <2>1, <3>3, DropTyped
    <3> QED  BY <1>3, <3>1, <3>2, <3>3 DEF ReadAnswer, ReadIce, ReadError
  <2>3. held' \in [PeerId -> 0..IceCap]
    <3>1. 0 \in 0..IceCap /\ held \in [PeerId -> 0..IceCap]
      BY SessionAssumption DEF PeersTyped
    <3>2. IceRoom(p) => held[p] + 1 \in 0..IceCap
      BY <2>1, <3>1, SessionAssumption DEF IceRoom
    <3> QED  BY <1>3, <3>1, <3>2 DEF ReadAnswer, ReadIce, ReadError
  <2>4. FarTyped' /\ StreamsTyped'
    BY <2>1, <2>2 DEF FarTyped, StreamsTyped, quiet, server
  <2>5. PeersTyped'
    BY <2>1, <2>2, <2>3 DEF PeersTyped, quiet, callbacks
  <2>6. ControlTyped'
    BY <2>1, <2>2 DEF ControlTyped, quiet
  <2> QED  BY <2>4, <2>5, <2>6
<1>4. CASE ReadEnd \/ ReadFails
  <2>1. PICK why \in {"", "lost", "rejected"} : Finish(why)
    BY <1>4 DEF ReadEnd, ReadFails
  <2>2. toSharer' \in Seq(Heard)
    BY <1>4, ReceivedTyped DEF ReadEnd, ReadFails, StreamsTyped
  <2>3. FarTyped' /\ StreamsTyped'
    BY <2>1, <2>2 DEF Finish, FarTyped, StreamsTyped, server
  <2>4. PeersTyped'
    BY <2>1, ClosingTyped DEF Finish, PeersTyped, callbacks
  <2>5. ControlTyped'
    BY <2>1 DEF Finish, ControlTyped
  <2> QED  BY <2>3, <2>4, <2>5
<1>5. CASE RunCloses
  <2>1. FarTyped' /\ StreamsTyped'
    BY <1>5 DEF RunCloses, FarTyped, StreamsTyped, server
  <2>2. PeersTyped'
    BY <1>5 DEF RunCloses, PeersTyped, callbacks
  <2>3. ControlTyped'
    BY <1>5 DEF RunCloses, ControlTyped
  <2> QED  BY <2>1, <2>2, <2>3
<1>6. CASE RunEnds
  <2>1. FarTyped' /\ StreamsTyped'
    BY <1>6 DEF RunEnds, FarTyped, StreamsTyped, server
  <2>2. PeersTyped'
    BY <1>6 DEF RunEnds, PeersTyped, callbacks
  <2>3. ControlTyped'
    BY <1>6 DEF RunEnds, Reason, ControlTyped
  <2> QED  BY <2>1, <2>2, <2>3
<1> QED  BY <1>1, <1>2, <1>3, <1>4, <1>5, <1>6 DEF Run

(* The steps of the pump, stopMedia and Stop. *)
LEMMA MediaTyped ==
    ASSUME Typed, PumpFails \/ Media \/ StopBegins \/ Stopping
    PROVE  Typed'
<1> USE DEF Typed
<1>1. UNCHANGED <<server, toSharer, linkUp, peer, held, bitrates, encoder, callbacks, broke,
                  run, failure>>
  BY DEF PumpFails, Media, PumpReports, PumpEnds, MediaCloses, others,
         StopBegins, Stopping, StopWrites, StopTimesOut, StopReturns, stopRest
<1>2. toServer' \in Seq(Asked)
  <2>1. UNCHANGED toServer \/ toServer' = Append(toServer, Ask("stop", None))
    BY DEF PumpFails, Media, PumpReports, PumpEnds, MediaCloses, others,
           StopBegins, Stopping, StopWrites, StopTimesOut, StopReturns
  <2> QED  BY <2>1, Appending, MessagesTyped DEF StreamsTyped
<1>3. FarTyped' /\ StreamsTyped'
  BY <1>1, <1>2 DEF FarTyped, StreamsTyped, server
<1>4. PeersTyped'
  BY <1>1 DEF PeersTyped, callbacks
<1>5. CASE PumpFails \/ Media
  <2>1. ControlTyped'
    BY <1>5 DEF ControlTyped, PumpFails, Media, PumpReports, PumpEnds, MediaCloses, others
  <2> QED  BY <1>3, <1>4, <2>1
<1>6. CASE StopBegins \/ Stopping
  <2>1. ControlTyped'
    BY <1>6 DEF ControlTyped, StopBegins, Stopping, StopWrites, StopTimesOut, StopReturns,
                stopRest
  <2> QED  BY <1>3, <1>4, <2>1
<1> QED  BY <1>5, <1>6

(* The steps of a peer's callbacks. *)
LEMMA CallbackTyped ==
    ASSUME Typed, NEW p \in PeerId, Callback(p)
    PROVE  Typed'
<1> USE DEF Typed
<1>1. UNCHANGED <<server, toSharer, linkUp, run, failure, pump, media, stop, peer, held>>
  BY DEF Callback, Connects, FailBegins, FailReports,
         CandidateBegins, CandidateSends, Estimate, callbackRest
<1>2. toServer' \in Seq(Asked) /\ cancelled' \in BOOLEAN
  <2>1. CASE UNCHANGED <<toServer, cancelled>>
    BY <2>1 DEF StreamsTyped, ControlTyped
  <2>2. CASE Send(Ask("ice", p)) \/ Disconnect(p)
    BY <2>2, SentTyped, MessagesTyped DEF Disconnect
  <2> QED
    BY <2>1, <2>2 DEF Callback, Connects, FailBegins, FailReports,
                      CandidateBegins, CandidateSends, Estimate
<1>3. FarTyped' /\ StreamsTyped'
  BY <1>1, <1>2 DEF FarTyped, StreamsTyped, server
<1>4. CASE Connects(p) \/ FailBegins(p) \/ FailReports(p) \/ CandidateBegins(p)
          \/ CandidateSends(p)
  <2>1. PeersTyped'
    BY <1>1, <1>4 DEF PeersTyped, Connects, FailBegins, FailReports,
                      CandidateBegins, CandidateSends
  <2>2. ControlTyped'
    BY <1>1, <1>2, <1>4 DEF ControlTyped, Connects, FailBegins, FailReports,
                            CandidateBegins, CandidateSends
  <2> QED  BY <1>3, <2>1, <2>2
<1>5. ASSUME NEW r \in 1..MaxRate, Estimate(p, r) PROVE Typed'
  <2>1. r \in 0..MaxRate
    BY SessionAssumption
  <2>2. PeersTyped'
    BY <1>1, <1>5, <2>1, RatesTyped DEF PeersTyped, Estimate, callbacks
  <2>3. ControlTyped'
    BY <1>1, <1>5 DEF ControlTyped, Estimate
  <2> QED  BY <1>3, <2>2, <2>3
<1> QED  BY <1>4, <1>5 DEF Callback

LEMMA NothingTyped ==
    ASSUME Typed, LinkBreaks \/ UNCHANGED vars
    PROVE  Typed'
<1> USE DEF Typed
<1>1. FarTyped' /\ StreamsTyped'
  BY DEF LinkBreaks, vars, FarTyped, StreamsTyped, server
<1>2. PeersTyped' /\ ControlTyped'
  BY SharerSideKept DEF LinkBreaks, vars, callbacks, sharerSide, PeersTyped
<1> QED  BY <1>1, <1>2

LEMMA TypedNext ==
    ASSUME Typed, [Next]_vars
    PROVE  Typed'
  BY ServerTyped, RunTyped, MediaTyped, CallbackTyped, NothingTyped DEF Next, Ended

LEMMA AlwaysTyped == Spec => []Typed
  BY TypedInit, TypedNext, PTL DEF Spec

(* In every state the variables of the native sharer have their types. *)
THEOREM TypeCorrect == Spec => []TypeOK
  BY AlwaysTyped, TypedParts, PTL

-----------------------------------------------------------------------------
(* The end of a session. *)

LEMMA SentContents ==
    ASSUME Typed, NEW m \in Asked, Send(m)
    PROVE  /\ Range(toServer') \subseteq Range(toServer) \cup {m}
           /\ cancelled => cancelled'
           /\ ~cancelled' => Range(toServer') = Range(toServer) \cup {m}
<1>1. Range(Append(toServer, m)) = Range(toServer) \cup {m}
  BY Contents DEF Typed, StreamsTyped
<1> QED  BY <1>1 DEF Send, Sent, NotSent

(* A message read while the session goes on: no "stop" is sent for it. *)
Reads == ReadJoined \/ ReadLeft \/ ReadAnswer \/ ReadIce \/ ReadError

LEMMA ReadsKeep ==
    ASSUME Typed, Reads
    PROVE  /\ run = "reading" /\ ~cancelled /\ UNCHANGED quiet
           /\ state'.state = state.state /\ state'.error = state.error
           /\ state'.notice = state.notice
           /\ \A m \in Range(toServer') : m \in Range(toServer) \/ m.type # "stop"
<1>1. run = "reading" /\ ~cancelled /\ UNCHANGED quiet
  BY DEF Reads, ReadJoined, ReadLeft, ReadAnswer, ReadIce, ReadError, Receive
<1>2. /\ state'.state = state.state /\ state'.error = state.error
      /\ state'.notice = state.notice
  BY DEF Reads, ReadJoined, ReadLeft, ReadAnswer, ReadIce, ReadError, AddPeer, Typed,
         ControlTyped
<1>3. \A m \in Range(toServer') : m \in Range(toServer) \/ m.type # "stop"
  <2> DEFINE p == Head(toSharer).peer
  <2>1. p \in PeerId
    BY ReceivedTyped DEF Reads, ReadJoined, ReadLeft, ReadAnswer, ReadIce, ReadError
  <2>2. UNCHANGED toServer \/ Send(Ask("offer", p)) \/ Send(Ask("disconnect-peer", p))
    BY DEF Reads, ReadJoined, ReadLeft, ReadAnswer, ReadIce, ReadError, AddPeer, Drop,
           Disconnect, Send
  <2>3. Ask("offer", p).type # "stop" /\ Ask("disconnect-peer", p).type # "stop"
    BY DEF Ask
  <2> QED  BY <2>1, <2>2, <2>3, SentContents, MessagesTyped
<1> QED  BY <1>1, <1>2, <1>3

LEMMA EndingNext ==
    ASSUME Typed, Ending, [Next]_vars
    PROVE  Ending'
<1>1. CASE Server
  <2>1. UNCHANGED sharerSide
    BY <1>1 DEF Server, ServerReceives, ViewerJoins, ViewerLeaves, ViewerAnswers, ViewerSendsIce
  <2>2. Range(toServer') \subseteq Range(toServer)
    <3>1. toServer # <<>> => Range(Tail(toServer)) \subseteq Range(toServer)
      BY Contents DEF Typed, StreamsTyped
    <3> QED
      BY <1>1, <3>1 DEF Server, ServerReceives, ViewerJoins, ViewerLeaves, ViewerAnswers,
                        ViewerSendsIce
  <2> QED  BY <2>1, <2>2 DEF Ending, sharerSide, Peers, Live
<1>2. CASE Reads
  BY <1>2, ReadsKeep DEF Ending, quiet, Typed, ControlTyped
<1>3. CASE ReadEnd \/ ReadFails
  <2>1. run = "reading" /\ \E why : Finish(why)
    BY <1>3 DEF ReadEnd, ReadFails, Receive
  <2>2. Peers' = {}
    BY <2>1, ClosingTyped DEF Finish, Peers, Live, Closing
  <2> QED  BY <2>1, <2>2 DEF Finish, Ending
<1>4. CASE RunCloses
  BY <1>4 DEF RunCloses, Ending, Peers, Live
<1>9. CASE RunEnds
  <2>1. state'.state = "stopped"
    BY <1>9 DEF RunEnds
  <2> QED  BY <1>9, <2>1 DEF RunEnds, Ending, Peers, Live
<1>5. CASE PumpFails \/ Media
  BY <1>5 DEF PumpFails, Media, PumpReports, PumpEnds, MediaCloses, others, Ending, Peers, Live,
              Typed, ControlTyped
<1>6. CASE StopBegins \/ Stopping
  <2>1. Range(Append(toServer, Ask("stop", None))) = Range(toServer) \cup {Ask("stop", None)}
    BY Contents, MessagesTyped DEF Typed, StreamsTyped
  <2>2. \A m \in Range(toServer') : m \in Range(toServer) \/ media' = "closed"
    BY <1>6, <2>1 DEF StopBegins, Stopping, StopWrites, StopTimesOut, StopReturns, MediaStopped
  <2> QED
    BY <1>6, <2>2 DEF StopBegins, Stopping, StopWrites, StopTimesOut, StopReturns, stopRest,
                      MediaStopped, Ending, Peers, Live
<1>7. ASSUME NEW p \in PeerId, Callback(p) PROVE Ending'
  <2>1. /\ UNCHANGED callbackRest /\ state'.state = state.state
        /\ UNCHANGED toServer \/ Send(Ask("ice", p)) \/ Send(Ask("disconnect-peer", p))
        /\ cancelled => cancelled'
    BY <1>7 DEF Callback, Connects, FailBegins, FailReports,
                CandidateBegins, CandidateSends, Estimate, Disconnect,
                Send, Sent, NotSent, Typed, ControlTyped
  <2>2. Ask("ice", p).type # "stop" /\ Ask("disconnect-peer", p).type # "stop"
    BY DEF Ask
  <2>3. \A m \in Range(toServer') : m \in Range(toServer) \/ m.type # "stop"
    BY <2>1, <2>2, SentContents, MessagesTyped
  <2> QED  BY <2>1, <2>3 DEF Ending, callbackRest, Peers, Live
<1>8. CASE LinkBreaks \/ UNCHANGED vars
  BY <1>8 DEF LinkBreaks, vars, sharerSide, Ending, Peers, Live
<1> QED
  BY <1>1, <1>2, <1>3, <1>4, <1>5, <1>6, <1>7, <1>8, <1>9 DEF Next, Run, Reads, Ended

LEMMA EndingInit == Init => Ending
<1> SUFFICES ASSUME Init PROVE Ending
  OBVIOUS
<1>1. Range(toServer) = {}
  <2>1. toServer = <<>>
    BY DEF Init
  <2> QED  BY <2>1 DEF Range
<1>2. state.state = "sharing" /\ run = "reading" /\ media = "live" /\ stop = "none"
  BY DEF Init
<1> QED  BY <1>1, <1>2 DEF Ending

LEMMA AlwaysEnding == Spec => []Ending
  BY EndingInit, EndingNext, AlwaysTyped, PTL DEF Spec

(* An end that anyone is told of is real: when the state says "stopped" the  *)
(* capture is closed, the pump has returned and no peer connection is open;  *)
(* and when a "stop" is on its way to the viewers nothing is captured.       *)
THEOREM StoppedIsStopped == Spec => []StoppedMeansStopped
<1>1. Typed /\ Ending => StoppedMeansStopped
  <2> SUFFICES ASSUME Typed, Ending PROVE StoppedMeansStopped
    OBVIOUS
  <2>1. \A i \in 1..Len(toServer) : toServer[i] \in Range(toServer)
    BY Contents DEF Typed, StreamsTyped
  <2> QED  BY <2>1 DEF Ending, StoppedMeansStopped
<1> QED  BY <1>1, AlwaysTyped, AlwaysEnding, PTL

-----------------------------------------------------------------------------
(* The reason of an end. *)

LEMMA ErrorSteps ==
    ASSUME Typed, [Next]_vars, ~PumpReports, ~RunEnds
    PROVE  /\ state'.error = state.error
           /\ UNCHANGED run \/ (run' # "done" /\ run # "done")
           /\ pump' = "failed" => pump \in {"running", "failed"}
           /\ pump' = "running" => pump = "running"
<1>1. CASE UNCHANGED <<run, pump, state>>
  BY <1>1
<1>2. CASE Reads
  BY <1>2, ReadsKeep DEF quiet
<1>3. CASE ReadEnd \/ ReadFails \/ RunCloses
  BY <1>3 DEF ReadEnd, ReadFails, RunCloses, Receive, Finish
<1>4. CASE PumpFails \/ PumpEnds
  BY <1>4 DEF PumpFails, PumpEnds, others
<1>5. ASSUME NEW p \in PeerId, Callback(p)
      PROVE  UNCHANGED <<run, pump>> /\ state'.error = state.error
  BY <1>5 DEF Callback, Connects, FailBegins, FailReports,
              CandidateBegins, CandidateSends, Estimate, callbackRest,
              Typed, ControlTyped
<1>6. CASE Server \/ LinkBreaks
  BY <1>1, <1>6 DEF Server, ServerReceives, ViewerJoins, ViewerLeaves, ViewerAnswers,
                    ViewerSendsIce, LinkBreaks, sharerSide
<1>7. CASE MediaCloses \/ StopBegins \/ Stopping \/ UNCHANGED vars
  BY <1>1, <1>7 DEF MediaCloses, others, StopBegins, Stopping, StopWrites, StopTimesOut,
                    StopReturns, stopRest, vars
<1> QED
  BY <1>2, <1>3, <1>4, <1>5, <1>6, <1>7 DEF Next, Run, Reads, Media, Ended

LEMMA ReportedNext ==
    ASSUME Typed, Ending, Reported, [Next]_vars
    PROVE  Reported'
<1>1. CASE PumpReports \/ RunEnds
  BY <1>1 DEF PumpReports, RunEnds, others, Reported
<1>2. CASE ~PumpReports /\ ~RunEnds
  BY <1>2, ErrorSteps DEF Reported
<1> QED  BY <1>1, <1>2

LEMMA AlwaysReported == Spec => []Reported
<1>1. Init => Reported
  <2> SUFFICES ASSUME Init PROVE state.error = ""
    BY DEF Reported
  <2> QED  BY DEF Init
<1>2. Typed /\ Ending /\ Reported /\ [Next]_vars => Reported'
  BY ReportedNext
<1> QED  BY <1>1, <1>2, AlwaysTyped, AlwaysEnding, PTL DEF Spec

(* Once the session has an error it keeps it: the capture failure that the   *)
(* pump recorded survives Stop, the server's end and the lost link, and the  *)
(* pump cannot report after run has ended, because run waits for its return. *)
THEOREM ErrorIsKept == Spec => ErrorSticks
<1>1. Typed /\ Ending /\ Reported /\ [Next]_vars
        => (state.error # "" => state'.error = state.error) \/ UNCHANGED vars
  <2> SUFFICES ASSUME Typed, Ending, Reported, [Next]_vars, state.error # ""
               PROVE  state'.error = state.error
    OBVIOUS
  <2>1. CASE PumpReports
    BY <2>1 DEF PumpReports, Ending, Reported
  <2>2. CASE RunEnds
    BY <2>2 DEF RunEnds, Reason
  <2> QED  BY <2>1, <2>2, ErrorSteps
<1> QED  BY <1>1, AlwaysTyped, AlwaysEnding, AlwaysReported, PTL DEF Spec, ErrorSticks

(* The toSharer stream grows by one message or loses its first. *)
Grows(m) == toSharer' = Append(toSharer, m)

LEMMA StoppedFirstNext ==
    ASSUME Typed, StoppedFirst, [Next]_vars
    PROVE  StoppedFirst'
<1> USE DEF Stops, Refuses
<1> SUFFICES ASSUME run' = "reading" PROVE StoppedFirst'
  BY DEF StoppedFirst
<1> DEFINE n == Len(toSharer)
<1>0. n \in Nat
  BY DEF Typed, StreamsTyped
<1>1. CASE UNCHANGED <<run, open, toSharer>>
  BY <1>1 DEF StoppedFirst
<1>2. CASE /\ run = "reading"
           /\ \E m \in Heard :
                 /\ Grows(m)
                 /\ open \/ ~open'
                 /\ open /\ ~open' => m.type = "stopped"
                 /\ m.type = "error" /\ m.peer = None => ~open
  <2>1. PICK m \in Heard : /\ Grows(m)
                           /\ open \/ ~open'
                           /\ open /\ ~open' => m.type = "stopped"
                           /\ m.type = "error" /\ m.peer = None => ~open
    BY <1>2
  <2>2. /\ Len(toSharer') = n + 1
        /\ \A i \in 1..n : toSharer'[i] = toSharer[i]
        /\ toSharer'[n + 1] = m
    BY <2>1, Appending DEF Typed, StreamsTyped, Grows
  <2>3. /\ ~open => \E i \in 1..n : Stops(i)
        /\ \A j \in 1..n : Refuses(j) => \E i \in 1..(j - 1) : Stops(i)
    BY <1>2 DEF StoppedFirst
  <2>4. \A i \in 1..n : Stops(i)' <=> Stops(i)
    BY <2>2
  <2>5. ~open' => \E i \in 1..(n + 1) : Stops(i)'
    BY <1>0, <2>1, <2>2, <2>3, <2>4
  <2>6. ASSUME NEW j \in 1..(n + 1), Refuses(j)'
        PROVE  \E i \in 1..(j - 1) : Stops(i)'
    <3>1. CASE j = n + 1
      BY <1>0, <2>1, <2>2, <2>3, <2>4, <2>6, <3>1
    <3>2. CASE j \in 1..n
      BY <1>0, <2>2, <2>3, <2>4, <2>6, <3>2
    <3> QED  BY <1>0, <2>6, <3>1, <3>2
  <2> QED  BY <2>2, <2>5, <2>6 DEF StoppedFirst
<1>3. CASE Reads
  <2>1. /\ run = "reading" /\ UNCHANGED open
        /\ toSharer # <<>> /\ toSharer' = Tail(toSharer)
        /\ Head(toSharer).type # "stopped"
        /\ ~(Head(toSharer).type = "error" /\ Head(toSharer).peer = None)
    BY <1>3, ReadsKeep
    DEF Reads, ReadJoined, ReadLeft, ReadAnswer, ReadIce, ReadError, Receive, quiet, server
  <2>2. /\ Head(toSharer) = toSharer[1] /\ n \in Nat \ {0} /\ Len(toSharer') = n - 1
        /\ \A i \in 1..(n - 1) : toSharer'[i] = toSharer[i + 1]
    BY <2>1, Reading DEF Typed, StreamsTyped
  <2>3. \A i \in 1..(n - 1) : (Stops(i)' <=> Stops(i + 1)) /\ (Refuses(i)' <=> Refuses(i + 1))
    BY <2>2
  <2>4. ASSUME NEW k \in 1..n, \E i \in 1..k : Stops(i)
        PROVE  \E i \in 1..(k - 1) : Stops(i)'
    <3>1. PICK i \in 1..k : Stops(i)
      BY <2>4
    <3>2. i # 1
      BY <2>1, <2>2, <3>1
    <3>3. i - 1 \in 1..(k - 1) /\ i - 1 \in 1..(n - 1) /\ (i - 1) + 1 = i
      BY <2>2, <3>2
    <3> QED  BY <2>3, <3>1, <3>3
  <2>5. ~open' => \E i \in 1..(n - 1) : Stops(i)'
    BY <2>1, <2>2, <2>4 DEF StoppedFirst
  <2>6. ASSUME NEW j \in 1..(n - 1), Refuses(j)'
        PROVE  \E i \in 1..(j - 1) : Stops(i)'
    <3>1. j + 1 \in 1..n /\ Refuses(j + 1) /\ j \in 1..n /\ (j + 1) - 1 = j
      BY <2>2, <2>3, <2>6
    <3>2. \E i \in 1..j : Stops(i)
      BY <2>1, <3>1 DEF StoppedFirst
    <3> QED  BY <2>4, <3>1, <3>2
  <2> QED  BY <2>2, <2>5, <2>6 DEF StoppedFirst
<1>4. CASE Server
  <2>1. CASE ServerReceives
    <3> DEFINE m == Head(toServer)
    <3>1. m \in Asked /\ UNCHANGED run
      BY <2>1, Reading DEF ServerReceives, sharerSide, Typed, StreamsTyped
    <3>2. m.peer \in members => m.peer \in PeerId /\ m.peer # None
      BY SessionAssumption DEF Typed, FarTyped
    <3>3. Cardinality(members) \in Nat /\ (m.peer \in members => Cardinality(members) # 0)
      BY FS_CardinalityType, FS_EmptySet DEF Typed, FarTyped
    <3>4. /\ Told("error", None, 0) \in Heard /\ Told("stopped", None, 0) \in Heard
          /\ m.peer \in members => /\ Told("error", m.peer, 0) \in Heard
                                   /\ Told("viewer-left", m.peer, Cardinality(members) - 1)
                                         \in Heard
      BY <3>2, <3>3, MessagesTyped
    <3> QED
      BY <1>1, <1>2, <2>1, <3>1, <3>2, <3>4 DEF ServerReceives, Notify, Grows, Told, server
  <2>2. ASSUME NEW p \in PeerId,
               ViewerJoins(p) \/ ViewerLeaves(p) \/ ViewerAnswers(p) \/ ViewerSendsIce(p)
        PROVE  StoppedFirst'
    <3>1. Cardinality(members) \in Nat /\ (p \in members => Cardinality(members) # 0)
      BY FS_CardinalityType, FS_EmptySet DEF Typed, FarTyped
    <3>2. /\ Told("viewer-joined", p, Cardinality(members) + 1) \in Heard
          /\ p \in members => Told("viewer-left", p, Cardinality(members) - 1) \in Heard
          /\ Told("answer", p, 0) \in Heard /\ Told("ice", p, 0) \in Heard
      BY <3>1, MessagesTyped
    <3>3. UNCHANGED <<run, open>>
      BY <2>2 DEF ViewerJoins, ViewerLeaves, ViewerAnswers, ViewerSendsIce, sharerSide, server
    <3> QED
      BY <1>2, <2>2, <3>2, <3>3
      DEF ViewerJoins, ViewerLeaves, ViewerAnswers, ViewerSendsIce, Notify, Grows, Told
  <2> QED  BY <1>4, <2>1, <2>2 DEF Server
<1>5. CASE ReadEnd \/ ReadFails \/ RunCloses \/ RunEnds
  BY <1>5 DEF ReadEnd, ReadFails, RunCloses, RunEnds, Finish
<1>6. CASE PumpFails \/ Media \/ StopBegins \/ Stopping \/ LinkBreaks \/ UNCHANGED vars
  BY <1>1, <1>6
  DEF PumpFails, Media, PumpReports, PumpEnds, MediaCloses, others, StopBegins, Stopping,
      StopWrites, StopTimesOut, StopReturns, stopRest, LinkBreaks, sharerSide, server, vars
<1>7. ASSUME NEW p \in PeerId, Callback(p) PROVE StoppedFirst'
  BY <1>1, <1>7 DEF Callback, Connects, FailBegins, FailReports,
                    CandidateBegins, CandidateSends, Estimate,
                    callbackRest, server
<1> QED  BY <1>3, <1>4, <1>5, <1>6, <1>7 DEF Next, Run, Reads, Ended

LEMMA AlwaysStoppedFirst == Spec => []StoppedFirst
<1>1. Init => StoppedFirst
  <2>1. Init => open /\ toSharer = <<>>
    BY DEF Init
  <2>2. 1..Len(<<>>) = {}
    OBVIOUS
  <2> QED  BY <2>1, <2>2 DEF StoppedFirst
<1>2. Typed /\ StoppedFirst /\ [Next]_vars => StoppedFirst'
  BY StoppedFirstNext
<1> QED  BY <1>1, <1>2, AlwaysTyped, PTL DEF Spec

(* No request of the native sharer is refused while it listens: whatever is  *)
(* sent after the share has ended at the server, "stopped" is read before    *)
(* the refusal, and run reads no further.                                    *)
THEOREM NeverIsRejected == Spec => []NeverRejected
<1>1. Init => NeverRejected
  BY DEF Init, NeverRejected
<1>2. ASSUME Typed, StoppedFirst, NeverRejected, [Next]_vars
      PROVE  NeverRejected'
  <2>1. CASE ReadEnd
    <3>1. /\ toSharer # <<>> /\ run = "reading"
          /\ failure' = IF Head(toSharer).type = "stopped" THEN "" ELSE "rejected"
          /\ Head(toSharer).type = "stopped" \/ Refuses(1)
      <4>1. toSharer # <<>> => Head(toSharer) = toSharer[1]
        BY Reading DEF Typed, StreamsTyped
      <4> QED  BY <2>1, <4>1 DEF ReadEnd, Receive, Finish, Refuses
    <3>2. 1 \in 1..Len(toSharer)
      <4>1. toSharer \in Seq(Heard)
        BY <1>2 DEF Typed, StreamsTyped
      <4>2. Len(toSharer) \in Nat \ {0}
        BY <3>1, <4>1, Reading
      <4> QED  BY <4>2
    <3>3. ~Refuses(1)
      <4>1. ~\E i \in 1..(1 - 1) : Stops(i)
        OBVIOUS
      <4> QED  BY <1>2, <3>1, <3>2, <4>1 DEF StoppedFirst
    <3> QED  BY <3>1, <3>3 DEF NeverRejected
  <2>2. CASE ReadFails
    BY <2>2 DEF ReadFails, Finish, NeverRejected
  <2>3. CASE UNCHANGED failure
    BY <2>3, <1>2 DEF NeverRejected
  <2>4. CASE Reads
    BY <2>3, <2>4, ReadsKeep, <1>2 DEF quiet
  <2>5. ASSUME NEW p \in PeerId, Callback(p) PROVE UNCHANGED failure
    BY <2>5 DEF Callback, Connects, FailBegins, FailReports,
                CandidateBegins, CandidateSends, Estimate, callbackRest
  <2>6. CASE Server \/ LinkBreaks
    BY <2>3, <2>6 DEF Server, ServerReceives, ViewerJoins, ViewerLeaves, ViewerAnswers,
                      ViewerSendsIce, LinkBreaks, sharerSide
  <2>7. CASE RunCloses \/ RunEnds \/ PumpFails \/ Media \/ StopBegins \/ Stopping \/ UNCHANGED vars
    BY <2>3, <2>7
    DEF RunCloses, RunEnds, PumpFails, Media, PumpReports, PumpEnds, MediaCloses, others,
        StopBegins, Stopping, StopWrites, StopTimesOut, StopReturns, stopRest, vars
  <2> QED
    BY <1>2, <2>1, <2>2, <2>3, <2>4, <2>5, <2>6, <2>7 DEF Next, Run, Reads, Ended
<1> QED  BY <1>1, <1>2, AlwaysTyped, AlwaysStoppedFirst, PTL DEF Spec

-----------------------------------------------------------------------------
(* The viewers maps at both ends of the stream. *)

KeepsPeers ==
    /\ Inside' = Inside
    /\ \A p \in PeerId : peer[p] = "new" => peer'[p] = "new"

(* What one more message makes of the views: those before it stay.  *)
LEMMA ViewsGrow ==
    ASSUME Typed, NEW m \in Heard, Grows(m), Inside' = Inside,
           NEW n \in Nat, n = Len(toSharer)
    PROVE  /\ Len(toSharer') = n + 1 /\ toSharer'[n + 1] = m
           /\ \A i \in 1..n : toSharer'[i] = toSharer[i]
           /\ \A i \in 0..n : View(i)' = View(i)
           /\ \A p \in PeerId :
                 p \in View(n + 1)' <=>
                    /\ \/ p \in Inside \/ Coming(p, n)
                       \/ m.type = "viewer-joined" /\ m.peer = p
                    /\ ~Going(p, n) /\ ~(m.type = "viewer-left" /\ m.peer = p)
<1>1. /\ Len(toSharer') = n + 1 /\ toSharer'[n + 1] = m
      /\ \A i \in 1..n : toSharer'[i] = toSharer[i]
  BY Appending DEF Typed, StreamsTyped, Grows
<1>2. ASSUME NEW p \in PeerId, NEW i \in 1..n
      PROVE  (Joins(p, i)' <=> Joins(p, i)) /\ (Leaves(p, i)' <=> Leaves(p, i))
  BY <1>1 DEF Joins, Leaves
<1>3. ASSUME NEW p \in PeerId, NEW i \in 0..n
      PROVE  (Coming(p, i)' <=> Coming(p, i)) /\ (Going(p, i)' <=> Going(p, i))
  <2>1. \A j \in 1..i : j \in 1..n
    BY <1>1
  <2> QED  BY <1>2, <2>1 DEF Coming, Going
<1>4. ASSUME NEW i \in 0..n PROVE View(i)' = View(i)
  <2>1. \A p \in PeerId : (Coming(p, i)' <=> Coming(p, i)) /\ (Going(p, i)' <=> Going(p, i))
    BY <1>3
  <2>2. View(i)' = {p \in PeerId : (p \in Inside' \/ Coming(p, i)') /\ ~Going(p, i)'}
    BY DEF View
  <2>3. View(i) = {p \in PeerId : (p \in Inside \/ Coming(p, i)) /\ ~Going(p, i)}
    BY DEF View
  <2>4. \A p : p \in View(i)' <=> p \in View(i)
    BY <2>1, <2>2, <2>3
  <2> QED  BY <2>4
<1>5. ASSUME NEW p \in PeerId
      PROVE  /\ Coming(p, n + 1)' <=> Coming(p, n) \/ Joins(p, n + 1)'
             /\ Going(p, n + 1)' <=> Going(p, n) \/ Leaves(p, n + 1)'
  <2>1. \A j : j \in 1..(n + 1) <=> j \in 1..n \/ j = n + 1
    BY <1>1
  <2>2. Coming(p, n + 1)' <=> \E j \in 1..(n + 1) : Joins(p, j)'
    BY <1>1 DEF Coming
  <2>3. Going(p, n + 1)' <=> \E j \in 1..(n + 1) : Leaves(p, j)'
    BY <1>1 DEF Going
  <2> QED  BY <1>2, <2>1, <2>2, <2>3 DEF Coming, Going
<1>6. \A p \in PeerId : /\ Joins(p, n + 1)' <=> m.type = "viewer-joined" /\ m.peer = p
                        /\ Leaves(p, n + 1)' <=> m.type = "viewer-left" /\ m.peer = p
  BY <1>1 DEF Joins, Leaves
<1>7. \A p \in PeerId :
         p \in View(n + 1)' <=> (p \in Inside' \/ Coming(p, n + 1)') /\ ~Going(p, n + 1)'
  BY DEF View
<1> QED  BY <1>1, <1>4, <1>5, <1>6, <1>7

(* The first message was read and Inside follows it. *)
Follows(h) ==
    \/ h.type \notin {"viewer-joined", "viewer-left"} /\ KeepsPeers
    \/ /\ h.type = "viewer-joined" /\ Inside' = Inside \cup {h.peer}
       /\ \A q \in PeerId \ {h.peer} : peer[q] = "new" => peer'[q] = "new"
    \/ /\ h.type = "viewer-left" /\ Inside' = Inside \ {h.peer}
       /\ \A q \in PeerId \ {h.peer} : peer[q] = "new" => peer'[q] = "new"

(* The views move up by one when the first message is read. *)
LEMMA ViewsMoveUp ==
    ASSUME Typed, Viewed, toSharer # <<>>, toSharer' = Tail(toSharer),
           Follows(Head(toSharer)), NEW n \in Nat, n = Len(toSharer)
    PROVE  /\ n # 0 /\ Len(toSharer') = n - 1
           /\ \A i \in 1..(n - 1) : toSharer'[i] = toSharer[i + 1]
           /\ \A i \in 0..(n - 1) : View(i)' = View(i + 1)
           /\ \A p \in PeerId, i \in 1..(n - 1) : Joins(p, i)' => peer'[p] = "new"
<1> DEFINE h == Head(toSharer)
<1>1. /\ n # 0 /\ Len(toSharer') = n - 1 /\ h = toSharer[1]
      /\ \A i \in 1..(n - 1) : toSharer'[i] = toSharer[i + 1]
  BY Reading DEF Typed, StreamsTyped
<1>2. 1 \in 1..n /\ \A i \in 1..(n - 1) : i + 1 \in 1..n /\ i + 1 # 1 /\ ~(i + 1 < 1)
  BY <1>1
<1>3. ASSUME NEW p \in PeerId, NEW i \in 1..(n - 1)
      PROVE  (Joins(p, i)' <=> Joins(p, i + 1)) /\ (Leaves(p, i)' <=> Leaves(p, i + 1))
  BY <1>1 DEF Joins, Leaves
<1>4. ASSUME NEW p \in PeerId, NEW i \in 0..(n - 1)
      PROVE  /\ Coming(p, i + 1) <=> Joins(p, 1) \/ Coming(p, i)'
             /\ Going(p, i + 1) <=> Leaves(p, 1) \/ Going(p, i)'
  <2>1. \A j \in 1..(i + 1) : j = 1 \/ (j - 1 \in 1..i /\ (j - 1) + 1 = j)
    BY <1>1
  <2>2. \A j \in 1..i : j \in 1..(n - 1) /\ j + 1 \in 1..(i + 1)
    BY <1>1
  <2>3. 1 \in 1..(i + 1)
    BY <1>1
  <2>4. \A j \in 1..i : (Joins(p, j)' <=> Joins(p, j + 1)) /\ (Leaves(p, j)' <=> Leaves(p, j + 1))
    BY <1>3, <2>2
  <2>5. Coming(p, i + 1) <=> Joins(p, 1) \/ Coming(p, i)'
    <3>1. ASSUME Coming(p, i + 1), ~Joins(p, 1) PROVE Coming(p, i)'
      <4>1. PICK j \in 1..(i + 1) : Joins(p, j)
        BY <3>1 DEF Coming
      <4>2. j - 1 \in 1..i /\ Joins(p, (j - 1) + 1)
        BY <2>1, <3>1, <4>1
      <4>3. Joins(p, j - 1)'
        BY <2>4, <4>2
      <4> QED  BY <4>2, <4>3 DEF Coming
    <3>2. Joins(p, 1) => Coming(p, i + 1)
      BY <2>3 DEF Coming
    <3>3. ASSUME Coming(p, i)' PROVE Coming(p, i + 1)
      <4>1. PICK j \in 1..i : Joins(p, j)'
        BY <3>3 DEF Coming
      <4> QED  BY <2>2, <2>4, <4>1 DEF Coming
    <3> QED  BY <3>1, <3>2, <3>3
  <2>6. Going(p, i + 1) <=> Leaves(p, 1) \/ Going(p, i)'
    <3>1. ASSUME Going(p, i + 1), ~Leaves(p, 1) PROVE Going(p, i)'
      <4>1. PICK j \in 1..(i + 1) : Leaves(p, j)
        BY <3>1 DEF Going
      <4>2. j - 1 \in 1..i /\ Leaves(p, (j - 1) + 1)
        BY <2>1, <3>1, <4>1
      <4>3. Leaves(p, j - 1)'
        BY <2>4, <4>2
      <4> QED  BY <4>2, <4>3 DEF Going
    <3>2. Leaves(p, 1) => Going(p, i + 1)
      BY <2>3 DEF Going
    <3>3. ASSUME Going(p, i)' PROVE Going(p, i + 1)
      <4>1. PICK j \in 1..i : Leaves(p, j)'
        BY <3>3 DEF Going
      <4> QED  BY <2>2, <2>4, <4>1 DEF Going
    <3> QED  BY <3>1, <3>2, <3>3
  <2> QED  BY <2>5, <2>6
<1>5. ASSUME NEW p \in PeerId, NEW i \in 1..(n - 1), Joins(p, i)'
      PROVE  ~Joins(p, 1) /\ ~Leaves(p, 1) /\ peer[p] = "new"
  <2>1. Joins(p, i + 1)
    BY <1>3, <1>5
  <2> QED  BY <1>2, <2>1 DEF Viewed
<1>6. \A p \in PeerId : /\ Joins(p, 1) <=> h.type = "viewer-joined" /\ h.peer = p
                        /\ Leaves(p, 1) <=> h.type = "viewer-left" /\ h.peer = p
  BY <1>1 DEF Joins, Leaves
<1>7. ASSUME NEW i \in 0..(n - 1) PROVE View(i)' = View(i + 1)
  <2>1. \A j \in 1..i : j \in 1..(n - 1)
    BY <1>1
  <2>2. ASSUME NEW p \in PeerId PROVE p \in View(i)' <=> p \in View(i + 1)
    <3>1. p \in View(i)' <=> (p \in Inside' \/ Coming(p, i)') /\ ~Going(p, i)'
      BY DEF View
    <3>2. p \in View(i + 1) <=> /\ p \in Inside \/ Joins(p, 1) \/ Coming(p, i)'
                                /\ ~Leaves(p, 1) /\ ~Going(p, i)'
      BY <1>4 DEF View
    <3>3. Coming(p, i)' => ~Leaves(p, 1)
      BY <1>5, <2>1 DEF Coming
    <3> QED  BY <1>6, <3>1, <3>2, <3>3 DEF Follows, KeepsPeers
  <2>3. View(i)' \subseteq PeerId /\ View(i + 1) \subseteq PeerId
    BY DEF View
  <2> QED  BY <2>2, <2>3
<1>8. ASSUME NEW p \in PeerId, NEW i \in 1..(n - 1), Joins(p, i)'
      PROVE  peer'[p] = "new"
  BY <1>5, <1>6, <1>8 DEF Follows, KeepsPeers
<1> QED  BY <1>1, <1>7, <1>8

LEMMA ViewedStays ==
    ASSUME Typed, Viewed, KeepsPeers, UNCHANGED toSharer, open' => open /\ members' = members
    PROVE  Viewed'
<1> DEFINE n == Len(toSharer)
<1>1. \A i : View(i)' = View(i)
  BY DEF View, Coming, Going, Joins, Leaves, KeepsPeers
<1>2. open' => View(Len(toSharer))' = members'
  BY <1>1 DEF Viewed
<1>3. \A i \in 0..Len(toSharer') :
         IsFiniteSet(View(i)') /\ Cardinality(View(i)') <= MaxPeers
  BY <1>1 DEF Viewed
<1>4. \A i \in 1..Len(toSharer') :
         toSharer'[i].type \in {"viewer-joined", "viewer-left"}
             => toSharer'[i].viewers = Cardinality(View(i)')
  BY <1>1 DEF Viewed
<1>5. \A p \in PeerId : \A i \in 1..Len(toSharer') :
         Joins(p, i)' => /\ peer'[p] = "new"
                         /\ \A j \in 1..Len(toSharer') :
                               /\ Joins(p, j)' => i = j
                               /\ Leaves(p, j)' => i < j
  BY DEF Viewed, KeepsPeers, Joins, Leaves
<1> QED  BY <1>2, <1>3, <1>4, <1>5 DEF Viewed

(* One more message, when the view that it makes is right. *)
LEMMA ViewedGrows ==
    ASSUME Typed, Viewed, KeepsPeers, NEW m \in Heard, Grows(m),
           NEW n \in Nat, n = Len(toSharer),
           IsFiniteSet(View(n + 1)'), Cardinality(View(n + 1)') <= MaxPeers,
           open' => View(n + 1)' = members',
           m.type \in {"viewer-joined", "viewer-left"}
               => m.viewers = Cardinality(View(n + 1)'),
           m.type = "viewer-joined"
               => peer[m.peer] = "new" /\ \A j \in 1..n : toSharer[j].peer # m.peer
    PROVE  Viewed'
<1>1. /\ Len(toSharer') = n + 1 /\ toSharer'[n + 1] = m
      /\ \A i \in 1..n : toSharer'[i] = toSharer[i]
      /\ \A i \in 0..n : View(i)' = View(i)
  BY ViewsGrow DEF KeepsPeers
<1>2. /\ \A i : i \in 0..(n + 1) <=> i \in 0..n \/ i = n + 1
      /\ \A i : i \in 1..(n + 1) <=> i \in 1..n \/ i = n + 1
      /\ \A i \in 1..n : i < n + 1 /\ i \in 0..n
  OBVIOUS
<1>3. open' => View(Len(toSharer))' = members'
  BY <1>1
<1>4. \A i \in 0..(n + 1) : IsFiniteSet(View(i)') /\ Cardinality(View(i)') <= MaxPeers
  BY <1>1, <1>2 DEF Viewed
<1>5. \A i \in 1..(n + 1) :
         toSharer'[i].type \in {"viewer-joined", "viewer-left"}
             => toSharer'[i].viewers = Cardinality(View(i)')
  BY <1>1, <1>2 DEF Viewed
<1>6. ASSUME NEW p \in PeerId, NEW i \in 1..(n + 1), Joins(p, i)'
      PROVE  /\ peer'[p] = "new"
             /\ \A j \in 1..(n + 1) : (Joins(p, j)' => i = j) /\ (Leaves(p, j)' => i < j)
  <2>1. \A j \in 1..n : (Joins(p, j)' <=> Joins(p, j)) /\ (Leaves(p, j)' <=> Leaves(p, j))
    BY <1>1 DEF Joins, Leaves
  <2>2. /\ Joins(p, n + 1)' => m.type = "viewer-joined" /\ m.peer = p
        /\ Leaves(p, n + 1)' => m.type = "viewer-left"
    BY <1>1 DEF Joins, Leaves
  <2>3. Joins(p, n + 1)' => \A j \in 1..n : ~Joins(p, j)' /\ ~Leaves(p, j)'
    BY <2>1, <2>2 DEF Joins, Leaves
  <2>4. peer[p] = "new"
    BY <1>2, <1>6, <2>1, <2>2 DEF Viewed
  <2>5. CASE i = n + 1
    BY <1>2, <1>6, <2>2, <2>3, <2>4, <2>5 DEF KeepsPeers
  <2>6. CASE i \in 1..n
    <3>1. Joins(p, i)
      BY <1>6, <2>1, <2>6
    <3>2. \A j \in 1..n : (Joins(p, j)' => i = j) /\ (Leaves(p, j)' => i < j)
      BY <2>1, <2>6, <3>1 DEF Viewed
    <3>3. ~Joins(p, n + 1)'
      BY <1>6, <2>3, <2>6
    <3> QED  BY <1>2, <2>4, <2>6, <3>2, <3>3 DEF KeepsPeers
  <2> QED  BY <1>2, <1>6, <2>5, <2>6
<1> QED  BY <1>1, <1>3, <1>4, <1>5, <1>6 DEF Viewed

(* One message less, when the sharer's map follows it. *)
LEMMA ViewedRead ==
    ASSUME Typed, Viewed, toSharer # <<>>, toSharer' = Tail(toSharer),
           Follows(Head(toSharer)), UNCHANGED <<open, members>>
    PROVE  Viewed'
<1>0. PICK n \in Nat : n = Len(toSharer)
  BY DEF Typed, StreamsTyped
<1>1. /\ n # 0 /\ Len(toSharer') = n - 1
      /\ \A i \in 1..(n - 1) : toSharer'[i] = toSharer[i + 1]
      /\ \A i \in 0..(n - 1) : View(i)' = View(i + 1)
      /\ \A p \in PeerId, i \in 1..(n - 1) : Joins(p, i)' => peer'[p] = "new"
  BY <1>0, ViewsMoveUp
<1>2. /\ \A i \in 0..(n - 1) : i + 1 \in 0..n
      /\ \A i \in 1..(n - 1) : i + 1 \in 1..n /\ i \in 0..(n - 1)
      /\ n - 1 \in 0..(n - 1) /\ (n - 1) + 1 = n
  BY <1>1
<1>3. open' => View(Len(toSharer))' = members'
  BY <1>0, <1>1, <1>2 DEF Viewed
<1>4. \A i \in 0..(n - 1) : IsFiniteSet(View(i)') /\ Cardinality(View(i)') <= MaxPeers
  BY <1>0, <1>1, <1>2 DEF Viewed
<1>5. \A i \in 1..(n - 1) :
         toSharer'[i].type \in {"viewer-joined", "viewer-left"}
             => toSharer'[i].viewers = Cardinality(View(i)')
  BY <1>0, <1>1, <1>2 DEF Viewed
<1>6. ASSUME NEW p \in PeerId, NEW i \in 1..(n - 1), Joins(p, i)',
             NEW j \in 1..(n - 1)
      PROVE  (Joins(p, j)' => i = j) /\ (Leaves(p, j)' => i < j)
  <2>1. \A k \in 1..(n - 1) : /\ Joins(p, k)' <=> Joins(p, k + 1)
                              /\ Leaves(p, k)' <=> Leaves(p, k + 1)
    BY <1>1 DEF Joins, Leaves
  <2>2. Joins(p, i + 1) /\ i + 1 \in 1..n /\ j + 1 \in 1..n
    BY <1>2, <1>6, <2>1
  <2>3. (Joins(p, j + 1) => i + 1 = j + 1) /\ (Leaves(p, j + 1) => i + 1 < j + 1)
    BY <1>0, <2>2 DEF Viewed
  <2> QED  BY <1>1, <2>1, <2>3
<1> QED  BY <1>0, <1>1, <1>3, <1>4, <1>5, <1>6 DEF Viewed

LEMMA ClosingKeeps ==
    ASSUME Typed, NEW ps \in SUBSET Inside, NEW where \in {"offered", "answered", "dropped"},
           Closing(ps, where)
    PROVE  KeepsPeers
<1>1. \A p \in PeerId : peer'[p] = IF p \in ps THEN where ELSE peer[p]
  BY ClosingTyped
<1>2. \A p \in PeerId : p \in Inside' <=> p \in Inside
  BY <1>1 DEF Inside
<1>3. \A p \in PeerId : peer[p] = "new" => peer'[p] = "new"
  BY <1>1 DEF Inside
<1>4. Inside \subseteq PeerId /\ Inside' \subseteq PeerId
  BY DEF Inside
<1> QED  BY <1>2, <1>3, <1>4 DEF KeepsPeers

(* Only a join and a departure that are read change who is inside. *)
LEMMA PeersKept ==
    ASSUME Typed, [Next]_vars, ~ReadJoined, ~ReadLeft
    PROVE  KeepsPeers
<1>1. CASE UNCHANGED peer
  BY <1>1 DEF KeepsPeers, Inside
<1>2. CASE ReadAnswer \/ ReadIce \/ ReadError
  <2> DEFINE p == Head(toSharer).peer
  <2>1. p \in PeerId
    BY <1>2, ReceivedTyped DEF ReadAnswer, ReadIce, ReadError
  <2>2. \/ UNCHANGED peer
        \/ Live(p) /\ (Closing({p}, "answered") \/ Closing({p}, "dropped"))
    BY <1>2 DEF ReadAnswer, ReadIce, ReadError, Drop, Live
  <2>3. Live(p) => {p} \in SUBSET Inside
    BY <2>1 DEF Live, Inside
  <2> QED  BY <1>1, <2>2, <2>3, ClosingKeeps
<1>3. CASE ReadEnd \/ ReadFails
  <2>1. Closing(Peers, "dropped")
    BY <1>3 DEF ReadEnd, ReadFails, Finish
  <2>2. Peers \in SUBSET Inside
    BY DEF Peers, Live, Inside
  <2> QED  BY <2>1, <2>2, ClosingKeeps
<1>4. CASE Server \/ LinkBreaks \/ RunCloses \/ RunEnds
  BY <1>1, <1>4 DEF Server, ServerReceives, ViewerJoins, ViewerLeaves, ViewerAnswers,
                    ViewerSendsIce, LinkBreaks, RunCloses, RunEnds, sharerSide
<1>5. CASE PumpFails \/ Media \/ StopBegins \/ Stopping \/ UNCHANGED vars
  BY <1>1, <1>5
  DEF PumpFails, Media, PumpReports, PumpEnds, MediaCloses, others, StopBegins, Stopping,
      StopWrites, StopTimesOut, StopReturns, stopRest, vars
<1>6. ASSUME NEW p \in PeerId, Callback(p) PROVE KeepsPeers
  BY <1>1, <1>6 DEF Callback, Connects, FailBegins, FailReports,
                    CandidateBegins, CandidateSends, Estimate,
                    callbackRest
<1> QED  BY <1>2, <1>3, <1>4, <1>5, <1>6 DEF Next, Run, Ended

(* A viewer that joins was not inside before, so that the map has room.      *)
LEMMA ReadJoinedPeer ==
    ASSUME Typed, Viewed, ReadJoined
    PROVE  LET p == Head(toSharer).peer IN
           /\ p \in PeerId /\ peer[p] = "new" /\ p \notin Inside
           /\ Head(toSharer).viewers = Cardinality(Inside \cup {p})
           /\ Room
           /\ AddPeer(p, Head(toSharer).viewers)
<1> DEFINE p == Head(toSharer).peer
<1>1. p \in PeerId /\ toSharer # <<>> /\ Head(toSharer).type = "viewer-joined"
  BY ReceivedTyped DEF ReadJoined, Receive
<1>2. Head(toSharer) = toSharer[1] /\ 1 \in 1..Len(toSharer) /\ 1 \in 0..Len(toSharer)
  BY <1>1, Reading DEF Typed, StreamsTyped
<1>3. Joins(p, 1)
  BY <1>1, <1>2 DEF Joins
<1>4. peer[p] = "new" /\ ~Leaves(p, 1)
  BY <1>1, <1>2, <1>3 DEF Viewed
<1>5. View(1) = Inside \cup {p}
  <2>1. 1..1 = {1}
    OBVIOUS
  <2>2. \A q \in PeerId : /\ Coming(q, 1) <=> q = p
                          /\ ~Going(q, 1)
    BY <1>1, <1>2, <2>1 DEF Coming, Going, Joins, Leaves
  <2>3. \A q : q \in View(1) <=> q \in Inside \/ q = p
    BY <1>1, <2>2 DEF View, Inside
  <2> QED  BY <2>3
<1>6. p \notin Inside /\ ~Live(p)
  BY <1>4 DEF Inside, Live
<1>7. /\ IsFiniteSet(Inside \cup {p}) /\ Cardinality(Inside \cup {p}) <= MaxPeers
      /\ Head(toSharer).viewers = Cardinality(Inside \cup {p})
  BY <1>1, <1>2, <1>5 DEF Viewed
<1>8. Room
  <2>1. IsFiniteSet(Inside) /\ Peers \subseteq Inside
    BY <1>7, FS_Subset DEF Peers, Live, Inside
  <2>2. Cardinality(Inside \cup {p}) = Cardinality(Inside) + 1
    BY <1>6, <2>1, FS_AddElement
  <2>3. Cardinality(Peers) <= Cardinality(Inside) /\ IsFiniteSet(Peers)
    BY <2>1, FS_Subset
  <2>4. Cardinality(Peers) \in Nat /\ Cardinality(Inside) \in Nat
    BY <2>1, <2>3, FS_CardinalityType
  <2> QED  BY <1>7, <2>2, <2>3, <2>4, SessionAssumption DEF Room
<1>9. AddPeer(p, Head(toSharer).viewers)
  BY <1>6, <1>8 DEF ReadJoined
<1> QED  BY <1>1, <1>4, <1>6, <1>7, <1>8, <1>9

(* A viewer that left is not counted any more. *)
LEMMA ReadLeftPeer ==
    ASSUME Typed, Viewed, ReadLeft
    PROVE  LET p == Head(toSharer).peer IN
           /\ p \in PeerId /\ Inside' = Inside \ {p}
           /\ Head(toSharer).viewers = Cardinality(Inside \ {p})
<1> DEFINE p == Head(toSharer).peer
<1>1. p \in PeerId /\ toSharer # <<>> /\ Head(toSharer).type = "viewer-left"
  BY ReceivedTyped DEF ReadLeft, Receive
<1>2. Head(toSharer) = toSharer[1] /\ 1 \in 1..Len(toSharer)
  BY <1>1, Reading DEF Typed, StreamsTyped
<1>3. View(1) = Inside \ {p}
  <2>1. 1..1 = {1}
    OBVIOUS
  <2>2. \A q \in PeerId : /\ ~Coming(q, 1)
                          /\ Going(q, 1) <=> q = p
    BY <1>1, <1>2, <2>1 DEF Coming, Going, Joins, Leaves
  <2>3. \A q : q \in View(1) <=> q \in Inside /\ q # p
    BY <1>1, <2>2 DEF View, Inside
  <2> QED  BY <2>3
<1>4. Head(toSharer).viewers = Cardinality(Inside \ {p})
  BY <1>1, <1>2, <1>3 DEF Viewed
<1>5. Inside' = Inside \ {p}
  <2>1. \A q \in PeerId : peer'[q] = IF q \in {p} THEN "left" ELSE peer[q]
    BY ClosingTyped DEF ReadLeft
  <2>2. \A q \in PeerId : q \in Inside' <=> q \in Inside /\ q # p
    BY <2>1 DEF Inside
  <2> QED  BY <2>2 DEF Inside
<1> QED  BY <1>1, <1>4, <1>5

LEMMA ViewedServer ==
    ASSUME Typed, Viewed, Server
    PROVE  Viewed'
<1>1. KeepsPeers
  BY PeersKept DEF Next, Server, ServerReceives, ViewerJoins, ViewerLeaves, ViewerAnswers,
                   ViewerSendsIce, ReadJoined, ReadLeft, Receive, sharerSide, KeepsPeers, Inside
<1>2. PICK n \in Nat : n = Len(toSharer)
  BY DEF Typed, StreamsTyped
<1>3. n \in 0..n
  BY <1>2
<1>4. /\ IsFiniteSet(members) /\ Cardinality(members) \in Nat
      /\ open => View(n) = members /\ Cardinality(members) <= MaxPeers
      /\ IsFiniteSet(View(n)) /\ Cardinality(View(n)) <= MaxPeers
  BY <1>2, <1>3, FS_CardinalityType DEF Typed, FarTyped, Viewed
(* a message that neither joins nor leaves *)
<1>5. ASSUME NEW m \in Heard, Grows(m), m.type \notin {"viewer-joined", "viewer-left"},
             open' => open /\ members' = members
      PROVE  Viewed'
  <2>1. \A p \in PeerId : p \in View(n + 1)' <=> p \in View(n)
    BY <1>1, <1>2, <1>5, ViewsGrow DEF KeepsPeers, View
  <2>2. View(n + 1)' = View(n)
    BY <2>1 DEF View
  <2> QED  BY <1>1, <1>2, <1>4, <1>5, <2>2, ViewedGrows
(* a departure *)
<1>6. ASSUME NEW p \in members, open, open', members' = members \ {p},
             Grows(Told("viewer-left", p, Cardinality(members) - 1))
      PROVE  Viewed'
  <2> DEFINE m == Told("viewer-left", p, Cardinality(members) - 1)
  <2>1. IsFiniteSet(members \ {p}) /\ Cardinality(members \ {p}) = Cardinality(members) - 1
    BY <1>4, FS_RemoveElement
  <2>2. p \in PeerId /\ Cardinality(members) - 1 \in Nat
    BY <2>1, FS_CardinalityType DEF Typed, FarTyped
  <2>3. m \in Heard /\ m.type = "viewer-left" /\ m.peer = p
        /\ m.viewers = Cardinality(members) - 1
    BY <2>2, MessagesTyped DEF Told
  <2>4. \A q \in PeerId : q \in View(n + 1)' <=> q \in View(n) /\ q # p
    BY <1>1, <1>2, <1>6, <2>3, ViewsGrow DEF KeepsPeers, View
  <2>5. View(n + 1)' = members \ {p}
    BY <1>4, <1>6, <2>4 DEF View
  <2>6. Cardinality(members \ {p}) <= MaxPeers
    BY <1>4, <1>6, <2>1, <2>2, SessionAssumption
  <2> QED  BY <1>1, <1>2, <1>6, <2>1, <2>3, <2>5, <2>6, ViewedGrows
<1>7. ASSUME NEW p \in PeerId, ViewerJoins(p) PROVE Viewed'
  <2> DEFINE m == Told("viewer-joined", p, Cardinality(members) + 1)
  <2>1. /\ open /\ peer[p] = "new" /\ p \notin members
        /\ Cardinality(members) < MaxPeers
        /\ \A i \in 1..n : toSharer[i].peer # p
        /\ members' = members \cup {p} /\ Grows(m)
    BY <1>2, <1>7 DEF ViewerJoins, Serving, Notify, Grows
  <2>2. IsFiniteSet(members \cup {p}) /\ Cardinality(members \cup {p}) = Cardinality(members) + 1
    BY <1>4, <2>1, FS_AddElement
  <2>3. Cardinality(members) + 1 \in Nat
    BY <1>4
  <2>4. m \in Heard /\ m.type = "viewer-joined" /\ m.peer = p
        /\ m.viewers = Cardinality(members) + 1
    BY <2>3, MessagesTyped DEF Told
  <2>5. ~Going(p, n)
    BY <2>1 DEF Going, Leaves
  <2>6. \A q \in PeerId : q \in View(n + 1)' <=> q \in View(n) \/ q = p
    BY <1>1, <1>2, <2>1, <2>4, <2>5, ViewsGrow DEF KeepsPeers, View
  <2>7. View(n + 1)' = members \cup {p}
    BY <1>4, <2>1, <2>6 DEF View
  <2>8. Cardinality(members \cup {p}) <= MaxPeers
    BY <1>4, <2>1, <2>2, SessionAssumption
  <2> QED  BY <1>1, <1>2, <2>1, <2>2, <2>4, <2>7, <2>8, ViewedGrows
<1>8. ASSUME NEW p \in PeerId, ViewerLeaves(p) PROVE Viewed'
  BY <1>6, <1>8 DEF ViewerLeaves, Serving, Notify, Grows
<1>9. ASSUME NEW p \in PeerId, ViewerAnswers(p) \/ ViewerSendsIce(p) PROVE Viewed'
  <2>1. /\ Grows(Told("answer", p, 0)) \/ Grows(Told("ice", p, 0))
        /\ UNCHANGED <<open, members>>
    BY <1>9 DEF ViewerAnswers, ViewerSendsIce, Notify, Grows, server
  <2>2. /\ Told("answer", p, 0) \in Heard /\ Told("answer", p, 0).type = "answer"
        /\ Told("ice", p, 0) \in Heard /\ Told("ice", p, 0).type = "ice"
    BY MessagesTyped DEF Told
  <2> QED  BY <1>5, <2>1, <2>2
<1>10. CASE ServerReceives
  <2> DEFINE p == Head(toServer).peer
  <2>1. \/ UNCHANGED <<server, toSharer>>
        \/ UNCHANGED <<open, members, toSharer>>
        \/ Grows(Told("error", None, 0)) /\ UNCHANGED server
        \/ Grows(Told("stopped", None, 0)) /\ ~open'
        \/ /\ p \in members /\ open /\ open' /\ members' = members \ {p}
           /\ Grows(Told("viewer-left", p, Cardinality(members) - 1))
        \/ p \in members /\ Grows(Told("error", p, 0)) /\ UNCHANGED server
    BY <1>10 DEF ServerReceives, Notify, Grows, server
  <2>2. CASE UNCHANGED <<open, members, toSharer>>
    BY <1>1, <2>2, ViewedStays
  <2>3. CASE \/ Grows(Told("error", None, 0)) /\ UNCHANGED server
             \/ Grows(Told("stopped", None, 0)) /\ ~open'
             \/ p \in members /\ Grows(Told("error", p, 0)) /\ UNCHANGED server
    <3>1. p \in members => p \in PeerId
      BY DEF Typed, FarTyped
    <3>2. /\ Told("error", None, 0) \in Heard /\ Told("stopped", None, 0) \in Heard
          /\ p \in members => Told("error", p, 0) \in Heard
      BY <3>1, MessagesTyped
    <3>3. Told("error", None, 0).type = "error" /\ Told("stopped", None, 0).type = "stopped"
          /\ Told("error", p, 0).type = "error"
      BY DEF Told
    <3> QED  BY <1>5, <2>3, <3>2, <3>3 DEF server
  <2> QED  BY <1>6, <2>1, <2>2, <2>3 DEF server
<1> QED  BY <1>7, <1>8, <1>9, <1>10 DEF Server

LEMMA ViewedNext ==
    ASSUME Typed, Viewed, [Next]_vars
    PROVE  Viewed'
<1>1. CASE UNCHANGED <<toSharer, open, members>>
  <2>1. ~ReadJoined /\ ~ReadLeft
    <3>1. toSharer # <<>> => Tail(toSharer) # toSharer
      <4>1. toSharer # <<>> => Len(Tail(toSharer)) = Len(toSharer) - 1 /\ Len(toSharer) \in Nat
        BY Reading DEF Typed, StreamsTyped
      <4> QED  BY <4>1
    <3> QED  BY <1>1, <3>1 DEF ReadJoined, ReadLeft, Receive
  <2> QED  BY <1>1, <2>1, PeersKept, ViewedStays
<1>2. CASE Server
  BY <1>2, ViewedServer
<1>3. CASE ReadJoined
  <2> DEFINE p == Head(toSharer).peer
  <2>1. p \in PeerId /\ p \notin Inside /\ AddPeer(p, Head(toSharer).viewers)
    BY <1>3, ReadJoinedPeer
  <2>2. Closing({p}, "offered") \/ Closing({p}, "dropped")
    BY <2>1 DEF AddPeer, Drop
  <2>3. \A q \in PeerId : IF q = p THEN peer'[q] \in {"offered", "dropped"}
                                   ELSE peer'[q] = peer[q]
    BY <2>2, ClosingTyped
  <2>4. \A q \in PeerId : q \in Inside' <=> q \in Inside \/ q = p
    BY <2>3 DEF Inside
  <2>5. Inside' = Inside \cup {p}
    BY <2>1, <2>4 DEF Inside
  <2>6. Follows(Head(toSharer))
    BY <1>3, <2>3, <2>5 DEF ReadJoined, Receive, Follows
  <2> QED  BY <1>3, <2>6, ViewedRead DEF ReadJoined, Receive, quiet, server
<1>4. CASE ReadLeft
  <2> DEFINE p == Head(toSharer).peer
  <2>1. p \in PeerId /\ Inside' = Inside \ {p}
    BY <1>4, ReadLeftPeer
  <2>2. \A q \in PeerId : q # p => peer'[q] = peer[q]
    BY <1>4, ClosingTyped DEF ReadLeft
  <2>3. Follows(Head(toSharer))
    BY <1>4, <2>1, <2>2 DEF ReadLeft, Receive, Follows
  <2> QED  BY <1>4, <2>3, ViewedRead DEF ReadLeft, Receive, quiet, server
<1>5. CASE ReadAnswer \/ ReadIce \/ ReadError \/ ReadEnd
  <2>1. /\ toSharer # <<>> /\ toSharer' = Tail(toSharer)
        /\ Head(toSharer).type \notin {"viewer-joined", "viewer-left"}
        /\ UNCHANGED <<open, members>>
    BY <1>5 DEF ReadAnswer, ReadIce, ReadError, ReadEnd, Receive, Finish, quiet, server
  <2>2. KeepsPeers
    BY <1>5, <2>1, PeersKept DEF Next, Run, ReadJoined, ReadLeft, Receive
  <2> QED  BY <2>1, <2>2, ViewedRead DEF Follows
<1>6. CASE ReadFails \/ RunCloses \/ RunEnds \/ LinkBreaks
  BY <1>1, <1>6 DEF ReadFails, Finish, RunCloses, RunEnds, LinkBreaks, server
<1>7. CASE PumpFails \/ Media \/ StopBegins \/ Stopping \/ UNCHANGED vars
  BY <1>1, <1>7
  DEF PumpFails, Media, PumpReports, PumpEnds, MediaCloses, others, StopBegins, Stopping,
      StopWrites, StopTimesOut, StopReturns, stopRest, server, vars
<1>8. ASSUME NEW p \in PeerId, Callback(p) PROVE Viewed'
  BY <1>1, <1>8 DEF Callback, Connects, FailBegins, FailReports,
                    CandidateBegins, CandidateSends, Estimate,
                    callbackRest, server
<1> QED  BY <1>2, <1>3, <1>4, <1>5, <1>6, <1>7, <1>8 DEF Next, Run, Ended

LEMMA ViewedInit == Init => Viewed
<1> SUFFICES ASSUME Init PROVE Viewed
  OBVIOUS
<1>1. /\ toSharer = <<>> /\ members = {} /\ Inside = {}
  BY DEF Init, Inside
<1>2. Len(toSharer) = 0 /\ 1..0 = {} /\ 0..0 = {0}
  BY <1>1
<1>3. View(0) = {}
  BY <1>1, <1>2 DEF View, Coming
<1>4. IsFiniteSet({}) /\ Cardinality({}) = 0 /\ 0 <= MaxPeers
  BY FS_EmptySet, SessionAssumption
<1> QED  BY <1>1, <1>2, <1>3, <1>4 DEF Viewed

LEMMA AlwaysViewed == Spec => []Viewed
  BY ViewedInit, ViewedNext, AlwaysTyped, PTL DEF Spec

-----------------------------------------------------------------------------
(* Every departure has a cause. *)

LEMMA CausedKept ==
    ASSUME Caused, broke \subseteq broke', departed \subseteq departed',
           failing' \subseteq failing \cup broke',
           \A m \in Range(toServer') :
               m \in Range(toServer) \/ (m.type = "disconnect-peer" => m.peer \in Gone'),
           \A m \in Range(toSharer') :
               m \in Range(toSharer) \/ (m.type = "viewer-left" => m.peer \in Gone')
    PROVE  Caused'
  BY DEF Caused, Gone

(* What a step of run that reads a message does to one peer. *)
LEMMA ReadsOne ==
    ASSUME Typed, Viewed, Reads, ~ReadLeft
    PROVE  LET p == Head(toSharer).peer IN
           /\ p \in PeerId
           /\ \/ UNCHANGED <<toServer, broke, peer>>
              \/ /\ peer[p] \notin {"dropped", "left"}
                 /\ \/ UNCHANGED <<toServer, broke>> /\ Closing({p}, "answered")
                    \/ Send(Ask("offer", p)) /\ Closing({p}, "offered") /\ UNCHANGED broke
                    \/ Drop(p)
<1>1. Head(toSharer).peer \in PeerId
  BY ReceivedTyped DEF Reads, ReadJoined, ReadLeft, ReadAnswer, ReadIce, ReadError
<1>2. CASE ReadJoined
  BY <1>1, <1>2, ReadJoinedPeer DEF AddPeer, Send
<1>3. CASE ReadAnswer \/ ReadIce \/ ReadError
  BY <1>1, <1>3 DEF ReadAnswer, ReadIce, ReadError, Live
<1> QED  BY <1>2, <1>3 DEF Reads

LEMMA CausedNext ==
    ASSUME Typed, Viewed, Caused, [Next]_vars
    PROVE  Caused'
<1>1. /\ toSharer # <<>> => Range(Tail(toSharer)) \subseteq Range(toSharer)
      /\ toServer # <<>> => Range(Tail(toServer)) \subseteq Range(toServer)
                            /\ Head(toServer) \in Range(toServer)
      /\ \A m \in Heard : Range(Append(toSharer, m)) = Range(toSharer) \cup {m}
      /\ \A m \in Asked : Range(Append(toServer, m)) = Range(toServer) \cup {m}
  BY Contents DEF Typed, StreamsTyped
<1>2. CASE ServerReceives
  <2> DEFINE p == Head(toServer).peer
  <2>1. /\ UNCHANGED <<failing, departed>> /\ broke \subseteq broke'
        /\ Range(toServer') \subseteq Range(toServer)
    BY <1>1, <1>2 DEF ServerReceives, server, sharerSide, callbacks
  <2>2. \/ UNCHANGED toSharer
        \/ \E m \in Heard : Grows(m) /\ m.type # "viewer-left"
        \/ /\ Head(toServer).type = "disconnect-peer" /\ p \in members
           /\ Grows(Told("viewer-left", p, Cardinality(members) - 1))
    <3>1. p \in members => p \in PeerId
      BY DEF Typed, FarTyped
    <3>2. /\ Told("error", None, 0) \in Heard /\ Told("stopped", None, 0) \in Heard
          /\ p \in members => Told("error", p, 0) \in Heard
      BY <3>1, MessagesTyped
    <3>3. Told("error", None, 0).type = "error" /\ Told("stopped", None, 0).type = "stopped"
          /\ Told("error", p, 0).type = "error"
      BY DEF Told
    <3> QED  BY <1>2, <3>2, <3>3 DEF ServerReceives, Notify, Grows
  <2>3. CASE UNCHANGED toSharer \/ \E m \in Heard : Grows(m) /\ m.type # "viewer-left"
    BY <1>1, <2>1, <2>3, CausedKept DEF Grows
  <2>4. CASE /\ Head(toServer).type = "disconnect-peer" /\ p \in members
             /\ Grows(Told("viewer-left", p, Cardinality(members) - 1))
    <3>1. p \in Gone
      BY <1>1, <1>2, <2>4 DEF Caused, ServerReceives
    <3>2. Cardinality(members) - 1 \in Nat /\ p \in PeerId
      BY <2>4, FS_CardinalityType, FS_EmptySet DEF Typed, FarTyped
    <3>3. /\ Told("viewer-left", p, Cardinality(members) - 1) \in Heard
          /\ Told("viewer-left", p, Cardinality(members) - 1).peer = p
      BY <3>2, MessagesTyped DEF Told
    <3>4. \A m \in Range(toSharer') : m \in Range(toSharer) \/ m.peer \in Gone'
      BY <1>1, <2>1, <2>4, <3>1, <3>3 DEF Grows, Gone
    <3> QED  BY <2>1, <3>4, CausedKept
  <2> QED  BY <2>2, <2>3, <2>4
<1>3. ASSUME NEW p \in PeerId,
             ViewerJoins(p) \/ ViewerLeaves(p) \/ ViewerAnswers(p) \/ ViewerSendsIce(p)
      PROVE  Caused'
  <2>1. UNCHANGED <<failing, broke, toServer>> /\ departed \subseteq departed'
    BY <1>3 DEF ViewerJoins, ViewerLeaves, ViewerAnswers, ViewerSendsIce, server, sharerSide,
                callbacks
  <2>2. /\ Cardinality(members) \in Nat /\ Cardinality(members) + 1 \in Nat
        /\ p \in members => Cardinality(members) - 1 \in Nat
    BY FS_CardinalityType, FS_EmptySet DEF Typed, FarTyped
  <2>3. PICK m \in Heard : Grows(m) /\ (m.type = "viewer-left" => m.peer \in departed')
    <3>1. CASE ViewerLeaves(p)
      <4> DEFINE m == Told("viewer-left", p, Cardinality(members) - 1)
      <4>1. m \in Heard /\ m.peer = p
        BY <2>2, <3>1, MessagesTyped DEF Told, ViewerLeaves
      <4> QED  BY <3>1, <4>1 DEF ViewerLeaves, Notify, Grows
    <3>2. CASE ViewerJoins(p)
      <4> DEFINE m == Told("viewer-joined", p, Cardinality(members) + 1)
      <4>1. m \in Heard /\ m.type = "viewer-joined"
        BY <2>2, MessagesTyped DEF Told
      <4> QED  BY <3>2, <4>1 DEF ViewerJoins, Notify, Grows
    <3>3. CASE ViewerAnswers(p) \/ ViewerSendsIce(p)
      <4>1. /\ Told("answer", p, 0) \in Heard /\ Told("answer", p, 0).type = "answer"
            /\ Told("ice", p, 0) \in Heard /\ Told("ice", p, 0).type = "ice"
        BY MessagesTyped DEF Told
      <4> QED  BY <3>3, <4>1 DEF ViewerAnswers, ViewerSendsIce, Notify, Grows
    <3> QED  BY <1>3, <3>1, <3>2, <3>3
  <2> QED  BY <1>1, <2>1, <2>3, CausedKept DEF Grows, Gone
<1>4. CASE Reads
  <2> DEFINE p == Head(toSharer).peer
  <2>1. /\ UNCHANGED <<failing, departed>> /\ Range(toSharer') \subseteq Range(toSharer)
    BY <1>1, <1>4, ReadsKeep
    DEF Reads, ReadJoined, ReadLeft, ReadAnswer, ReadIce, ReadError, Receive, quiet, server,
        callbacks
  <2>2. CASE ReadLeft
    BY <2>1, <2>2, CausedKept DEF ReadLeft
  <2>3. CASE ~ReadLeft
    <3>1. /\ p \in PeerId
          /\ \/ UNCHANGED <<toServer, broke>>
             \/ Send(Ask("offer", p)) /\ UNCHANGED broke
             \/ Drop(p)
      BY <1>4, <2>3, ReadsOne
    <3>2. CASE UNCHANGED <<toServer, broke>>
      BY <2>1, <3>2, CausedKept
    <3>3. CASE Send(Ask("offer", p)) /\ UNCHANGED broke
      <4>1. Ask("offer", p) \in Asked /\ Ask("offer", p).type # "disconnect-peer"
        BY <3>1, MessagesTyped DEF Ask
      <4>2. Range(toServer') \subseteq Range(toServer) \cup {Ask("offer", p)}
        BY <3>3, <4>1, SentContents
      <4> QED  BY <2>1, <3>3, <4>1, <4>2, CausedKept
    <3>4. CASE Drop(p)
      <4>1. Ask("disconnect-peer", p) \in Asked /\ Ask("disconnect-peer", p).peer = p
        BY <3>1, MessagesTyped DEF Ask
      <4>2. Range(toServer') \subseteq Range(toServer) \cup {Ask("disconnect-peer", p)}
        BY <3>4, <4>1, SentContents DEF Drop, Disconnect
      <4>3. broke \subseteq broke' /\ p \in Gone'
        BY <3>4 DEF Drop, Gone
      <4> QED  BY <2>1, <4>1, <4>2, <4>3, CausedKept
    <3> QED  BY <3>1, <3>2, <3>3, <3>4
  <2> QED  BY <2>2, <2>3
<1>5. CASE ReadEnd \/ ReadFails \/ RunCloses \/ RunEnds
  <2>1. /\ UNCHANGED <<failing, departed, broke, toServer>>
        /\ Range(toSharer') \subseteq Range(toSharer)
    BY <1>1, <1>5 DEF ReadEnd, ReadFails, RunCloses, RunEnds, Receive, Finish, server, callbacks
  <2> QED  BY <2>1, CausedKept
<1>6. CASE PumpFails \/ Media \/ StopBegins \/ StopTimesOut \/ StopReturns \/ LinkBreaks
             \/ UNCHANGED vars
  <2>1. UNCHANGED <<failing, departed, broke, toServer, toSharer>>
    BY <1>6 DEF PumpFails, Media, PumpReports, PumpEnds, MediaCloses, others, StopBegins,
                StopTimesOut, StopReturns, stopRest, LinkBreaks, sharerSide, server, callbacks,
                vars
  <2> QED  BY <2>1, CausedKept
<1>7. CASE StopWrites
  <2>1. /\ UNCHANGED <<failing, departed, broke, toSharer>>
        /\ UNCHANGED toServer \/ toServer' = Append(toServer, Ask("stop", None))
    BY <1>7 DEF StopWrites, stopRest, server, callbacks
  <2>2. Ask("stop", None) \in Asked /\ Ask("stop", None).type # "disconnect-peer"
    BY MessagesTyped DEF Ask
  <2> QED  BY <1>1, <2>1, <2>2, CausedKept
<1>8. ASSUME NEW p \in PeerId, Callback(p) PROVE Caused'
  <2>1. UNCHANGED <<departed, toSharer>>
    BY <1>8 DEF Callback, Connects, FailBegins, FailReports,
                CandidateBegins, CandidateSends, Estimate, callbackRest,
                server
  <2>2. CASE Connects(p) \/ \E r \in 1..MaxRate : Estimate(p, r)
    BY <2>1, <2>2, CausedKept DEF Connects, Estimate, callbacks
  <2>3. CASE FailBegins(p)
    <3>1. broke' = broke \cup {p} /\ failing' = failing \cup {p} /\ UNCHANGED toServer
      BY <2>3 DEF FailBegins, PeerContextLive, OwnCause
    <3> QED  BY <2>1, <3>1, CausedKept
  <2>4. CASE FailReports(p)
    <3>1. p \in broke /\ UNCHANGED broke /\ failing' \subseteq failing
      BY <2>4 DEF FailReports, Caused
    <3>2. Ask("disconnect-peer", p) \in Asked /\ Ask("disconnect-peer", p).peer = p
      BY MessagesTyped DEF Ask
    <3>3. Range(toServer') \subseteq Range(toServer) \cup {Ask("disconnect-peer", p)}
      BY <2>4, <3>2, SentContents DEF FailReports, Disconnect
    <3> QED  BY <2>1, <3>1, <3>2, <3>3, CausedKept DEF Gone
  <2>5. CASE CandidateBegins(p)
    <3>1. UNCHANGED <<broke, failing, toServer>>
      BY <2>5 DEF CandidateBegins
    <3> QED  BY <2>1, <3>1, CausedKept
  <2>6. CASE CandidateSends(p)
    <3>1. UNCHANGED <<broke, failing>>
      BY <2>6 DEF CandidateSends
    <3>2. Ask("ice", p) \in Asked /\ Ask("ice", p).type # "disconnect-peer"
      BY MessagesTyped DEF Ask
    <3>3. Range(toServer') \subseteq Range(toServer) \cup {Ask("ice", p)}
      BY <2>6, <3>2, SentContents DEF CandidateSends
    <3> QED  BY <2>1, <3>1, <3>2, <3>3, CausedKept
  <2> QED  BY <1>8, <2>2, <2>3, <2>4, <2>5, <2>6 DEF Callback
<1> QED
  BY <1>2, <1>3, <1>4, <1>5, <1>6, <1>7, <1>8 DEF Next, Server, Run, Reads, Stopping, Ended

LEMMA AlwaysCaused == Spec => []Caused
<1>1. Init => Caused
  <2> SUFFICES ASSUME Init PROVE Caused
    OBVIOUS
  <2>1. Range(toServer) = {} /\ Range(toSharer) = {}
    <3>1. toServer = <<>> /\ toSharer = <<>>
      BY DEF Init
    <3> QED  BY <3>1 DEF Range
  <2>2. failing = {}
    BY DEF Init
  <2> QED  BY <2>1, <2>2 DEF Caused
<1>2. Typed /\ Viewed /\ Caused /\ [Next]_vars => Caused'
  BY CausedNext
<1> QED  BY <1>1, <1>2, AlwaysTyped, AlwaysViewed, PTL DEF Spec

(* Only its own failure or departure ends a viewer's connection while the    *)
(* share goes on: whoever is dropped or gone had broken or departed, and the *)
(* notice of a failed connection is shown for a failure only.                *)
THEOREM HealthyStay == Spec => []HealthyPeersStay
<1>1. Init => HealthyPeersStay
  <2> SUFFICES ASSUME Init PROVE HealthyPeersStay
    OBVIOUS
  <2>1. (\A p \in PeerId : peer[p] = "new") /\ state.notice = FALSE
    BY DEF Init
  <2> QED  BY <2>1 DEF HealthyPeersStay
<1>2. ASSUME Typed, Viewed, Caused, HealthyPeersStay, [Next]_vars
      PROVE  HealthyPeersStay'
  <2>1. /\ broke \subseteq broke' /\ departed \subseteq departed'
        /\ run' = "reading" => run = "reading"
    <3>1. CASE Reads
      BY <3>1, ReadsKeep
      DEF Reads, ReadJoined, ReadLeft, ReadAnswer, ReadIce, ReadError, AddPeer, Drop, quiet,
          server
    <3>2. CASE ~Reads
      BY <1>2, <3>2
      DEF Next, Server, ServerReceives, ViewerJoins, ViewerLeaves, ViewerAnswers, ViewerSendsIce,
          LinkBreaks, Run, Reads, ReadEnd, ReadFails, RunCloses, RunEnds, Finish,
          PumpFails, Media, PumpReports, PumpEnds, MediaCloses, others, StopBegins, Stopping,
          StopWrites, StopTimesOut, StopReturns, stopRest, Callback, Connects, FailBegins,
          FailReports,
              CandidateBegins, CandidateSends, Estimate, callbackRest, Ended, vars, server, sharerSide
    <3> QED  BY <3>1, <3>2
  <2>2. ASSUME run' = "reading", NEW q \in PeerId, peer'[q] \in {"dropped", "left"}
        PROVE  q \in Gone'
    <3>1. CASE UNCHANGED peer
      BY <1>2, <2>1, <2>2, <3>1 DEF HealthyPeersStay, Gone
    <3>2. CASE ReadLeft
      <4> DEFINE p == Head(toSharer).peer
      <4>1. toSharer # <<>> /\ Head(toSharer).type = "viewer-left"
        BY <3>2 DEF ReadLeft, Receive
      <4>2. Head(toSharer) \in Range(toSharer)
        BY <1>2, <4>1, Contents DEF Typed, StreamsTyped
      <4>3. p \in Gone
        BY <1>2, <4>1, <4>2 DEF Caused
      <4>4. peer'[q] = IF q \in {p} THEN "left" ELSE peer[q]
        BY <1>2, <3>2, ClosingTyped DEF ReadLeft
      <4> QED  BY <1>2, <2>1, <2>2, <4>3, <4>4 DEF HealthyPeersStay, Gone
    <3>3. CASE Reads /\ ~ReadLeft
      <4> DEFINE p == Head(toSharer).peer
      <4>1. \/ UNCHANGED peer
            \/ Closing({p}, "answered") \/ Closing({p}, "offered")
            \/ Closing({p}, "dropped") /\ p \in broke'
        BY <1>2, <3>3, ReadsOne DEF Drop
      <4>2. \/ peer'[q] = peer[q] \/ peer'[q] \in {"answered", "offered"}
            \/ peer'[q] = "dropped" /\ q \in broke'
        BY <1>2, <4>1, ClosingTyped
      <4> QED  BY <1>2, <2>1, <2>2, <4>2 DEF HealthyPeersStay, Gone
    <3>4. CASE ~Reads
      BY <1>2, <2>2, <3>1, <3>4
      DEF Next, Server, ServerReceives, ViewerJoins, ViewerLeaves, ViewerAnswers, ViewerSendsIce,
          LinkBreaks, Run, Reads, ReadEnd, ReadFails, RunCloses, RunEnds, Finish,
          PumpFails, Media, PumpReports, PumpEnds, MediaCloses, others, StopBegins, Stopping,
          StopWrites, StopTimesOut, StopReturns, stopRest, Callback, Connects, FailBegins,
          FailReports,
              CandidateBegins, CandidateSends, Estimate, callbackRest, Ended, vars, server, sharerSide
    <3> QED  BY <3>2, <3>3, <3>4
  <2>3. ASSUME state'.notice PROVE broke' # {}
    <3>1. CASE state'.notice = state.notice
      BY <1>2, <2>1, <2>3, <3>1 DEF HealthyPeersStay
    <3>2. CASE \E p \in PeerId : FailReports(p)
      BY <1>2, <2>1, <3>2 DEF FailReports, Caused
    <3>3. CASE Reads
      BY <1>2, <3>1, <3>3, ReadsKeep
    <3>4. CASE RunEnds
      BY <2>3, <3>4 DEF RunEnds
    <3>5. CASE PumpReports
      BY <1>2, <3>1, <3>5 DEF PumpReports, Typed, ControlTyped
    <3>6. CASE ~Reads /\ ~RunEnds /\ ~PumpReports /\ ~\E p \in PeerId : FailReports(p)
      BY <1>2, <3>1, <3>6
      DEF Next, Server, ServerReceives, ViewerJoins, ViewerLeaves, ViewerAnswers, ViewerSendsIce,
          LinkBreaks, Run, Reads, ReadEnd, ReadFails, RunCloses, Finish,
          PumpFails, Media, PumpEnds, MediaCloses, others, StopBegins, Stopping,
          StopWrites, StopTimesOut, StopReturns, stopRest, Callback, Connects, FailBegins,
          CandidateBegins, CandidateSends, Estimate, callbackRest, Ended, vars, sharerSide
    <3> QED  BY <3>2, <3>3, <3>4, <3>5, <3>6
  <2> QED  BY <2>2, <2>3 DEF HealthyPeersStay, Gone
<1> QED  BY <1>1, <1>2, AlwaysTyped, AlwaysViewed, AlwaysCaused, PTL DEF Spec

-----------------------------------------------------------------------------
(* Whoever is dropped leaves. *)

LEMMA LeavingKept ==
    ASSUME NEW p, Leaving(p),
           Ask("disconnect-peer", p) \in Range(toServer)
               => \/ Ask("disconnect-peer", p) \in Range(toServer')
                  \/ \E m \in Range(toSharer') : m.type = "viewer-left" /\ m.peer = p,
           \A m \in Range(toSharer) : m.type = "viewer-left" /\ m.peer = p
               => m \in Range(toSharer')
    PROVE  Leaving(p)'
  BY DEF Leaving

LEMMA LeavingNext ==
    ASSUME Typed, Viewed, [Next]_vars, run' = "reading", ~cancelled', open',
           run = "reading" /\ ~cancelled /\ open => \A p \in Dropped : Leaving(p),
           NEW p \in Dropped'
    PROVE  Leaving(p)'
<1>1. /\ toSharer # <<>> => /\ Range(toSharer) = Range(Tail(toSharer)) \cup {Head(toSharer)}
                            /\ Head(toSharer) \in Range(toSharer)
      /\ toServer # <<>> => Range(toServer) = Range(Tail(toServer)) \cup {Head(toServer)}
      /\ \A m \in Heard : Range(Append(toSharer, m)) = Range(toSharer) \cup {m}
      /\ \A m \in Asked : Range(Append(toServer, m)) = Range(toServer) \cup {m}
      /\ \A i \in 1..Len(toSharer) : toSharer[i] \in Range(toSharer)
  BY Contents DEF Typed, StreamsTyped
<1>2. p \in PeerId /\ peer'[p] = "dropped"
  BY DEF Dropped
<1>3. /\ Ask("disconnect-peer", p) \in Asked /\ Ask("disconnect-peer", p).peer = p
      /\ Ask("disconnect-peer", p).type = "disconnect-peer"
  BY <1>2, MessagesTyped DEF Ask
(* a step that leaves the peers and what the viewers are told alone *)
<1>4. ASSUME run = "reading", ~cancelled, open, UNCHANGED peer,
             Range(toServer) \subseteq Range(toServer'), Range(toSharer) \subseteq Range(toSharer')
      PROVE  Leaving(p)'
  BY <1>2, <1>4, LeavingKept DEF Dropped
<1>5. CASE ServerReceives
  <2> DEFINE q == Head(toServer).peer
  <2>1. /\ UNCHANGED <<run, peer, cancelled>> /\ open
        /\ toServer # <<>> /\ toServer' = Tail(toServer)
    BY <1>5 DEF ServerReceives, sharerSide, server
  <2>2. Leaving(p)
    BY <1>2, <2>1 DEF Dropped
  <2>3. /\ \A i \in members : i \in PeerId
        /\ Cardinality(members) \in Nat /\ (q \in members => Cardinality(members) # 0)
    BY FS_CardinalityType, FS_EmptySet DEF Typed, FarTyped
  <2>4. /\ Told("error", None, 0) \in Heard /\ Told("stopped", None, 0) \in Heard
        /\ q \in members => /\ Told("error", q, 0) \in Heard
                            /\ Told("viewer-left", q, Cardinality(members) - 1) \in Heard
    BY <2>3, MessagesTyped
  <2>5. UNCHANGED toSharer \/ \E m \in Heard : Grows(m)
    BY <1>5, <2>4 DEF ServerReceives, Notify, Grows
  <2>6. Range(toSharer) \subseteq Range(toSharer')
    BY <1>1, <2>5 DEF Grows
  <2>7. CASE Head(toServer) # Ask("disconnect-peer", p)
    BY <1>1, <2>1, <2>2, <2>6, <2>7, LeavingKept
  <2>8. CASE Head(toServer) = Ask("disconnect-peer", p)
    <3>1. q = p /\ Head(toServer).type = "disconnect-peer"
      BY <1>3, <2>8
    <3>2. CASE p \in members
      <4>1. Grows(Told("viewer-left", p, Cardinality(members) - 1))
        BY <1>5, <2>1, <3>1, <3>2 DEF ServerReceives, Notify, Grows
      <4>2. Told("viewer-left", p, Cardinality(members) - 1) \in Range(toSharer')
        BY <1>1, <2>4, <3>1, <3>2, <4>1 DEF Grows
      <4> QED  BY <4>2 DEF Leaving, Told
    <3>3. CASE p \notin members
      <4>1. p \in Inside /\ p \notin View(Len(toSharer))
        BY <1>2, <2>1, <3>3 DEF Inside, Viewed
      <4>2. Going(p, Len(toSharer))
        BY <1>2, <4>1 DEF View
      <4>3. PICK i \in 1..Len(toSharer) : Leaves(p, i)
        BY <4>2 DEF Going
      <4>4. toSharer[i] \in Range(toSharer')
        BY <1>1, <2>6
      <4> QED  BY <4>3, <4>4 DEF Leaving, Leaves
    <3> QED  BY <3>2, <3>3
  <2> QED  BY <2>7, <2>8
<1>6. ASSUME NEW q \in PeerId,
             ViewerJoins(q) \/ ViewerLeaves(q) \/ ViewerAnswers(q) \/ ViewerSendsIce(q)
      PROVE  Leaving(p)'
  <2>1. UNCHANGED <<run, peer, cancelled, open, toServer>>
    BY <1>6 DEF ViewerJoins, ViewerLeaves, ViewerAnswers, ViewerSendsIce, server, sharerSide
  <2>2. Cardinality(members) \in Nat /\ (q \in members => Cardinality(members) # 0)
    BY FS_CardinalityType, FS_EmptySet DEF Typed, FarTyped
  <2>3. /\ Told("viewer-joined", q, Cardinality(members) + 1) \in Heard
        /\ q \in members => Told("viewer-left", q, Cardinality(members) - 1) \in Heard
        /\ Told("answer", q, 0) \in Heard /\ Told("ice", q, 0) \in Heard
    BY <2>2, MessagesTyped
  <2>4. \E m \in Heard : Grows(m)
    BY <1>6, <2>3 DEF ViewerJoins, ViewerLeaves, ViewerAnswers, ViewerSendsIce, Notify, Grows
  <2>5. Range(toSharer) \subseteq Range(toSharer')
    BY <1>1, <2>4 DEF Grows
  <2> QED  BY <1>4, <2>1, <2>5
<1>7. CASE Reads
  <2> DEFINE h == Head(toSharer)
             q == h.peer
  <2>1. /\ run = "reading" /\ ~cancelled /\ open
        /\ toSharer # <<>> /\ toSharer' = Tail(toSharer)
    BY <1>7, ReadsKeep
    DEF Reads, ReadJoined, ReadLeft, ReadAnswer, ReadIce, ReadError, Receive, quiet, server
  <2>2. CASE ReadLeft
    <3>1. \A o \in PeerId : peer'[o] = IF o \in {q} THEN "left" ELSE peer[o]
      BY <2>2, ClosingTyped DEF ReadLeft
    <3>2. p # q /\ p \in Dropped
      BY <1>2, <3>1 DEF Dropped
    <3>3. UNCHANGED toServer
      BY <2>2 DEF ReadLeft
    <3> QED  BY <1>1, <2>1, <3>2, <3>3, LeavingKept
  <2>3. CASE ~ReadLeft
    <3>0. h.type # "viewer-left"
      BY <1>7, <2>3 DEF Reads, ReadJoined, ReadAnswer, ReadIce, ReadError, Receive
    <3>1. /\ q \in PeerId
          /\ \/ UNCHANGED <<toServer, peer>>
             \/ UNCHANGED toServer /\ Closing({q}, "answered")
             \/ Send(Ask("offer", q)) /\ Closing({q}, "offered")
             \/ Drop(q)
      BY <1>7, <2>3, ReadsOne
    <3>2. CASE Drop(q) /\ p = q
      BY <1>3, <3>2, SentContents DEF Drop, Disconnect, Leaving
    <3>3. CASE ~(Drop(q) /\ p = q)
      <4>1. peer[p] = "dropped"
        BY <1>2, <3>1, <3>3, ClosingTyped DEF Drop
      <4>2. /\ Ask("offer", q) \in Asked /\ Ask("disconnect-peer", q) \in Asked
        BY <3>1, MessagesTyped
      <4>3. Range(toServer) \subseteq Range(toServer')
        BY <3>1, <4>2, SentContents DEF Drop, Disconnect
      <4>4. Leaving(p)
        BY <1>2, <2>1, <4>1 DEF Dropped
      <4> QED  BY <1>1, <2>1, <3>0, <4>3, <4>4, LeavingKept
    <3> QED  BY <3>2, <3>3
  <2> QED  BY <2>2, <2>3
<1>8. CASE PumpFails \/ Media \/ StopBegins \/ StopReturns \/ LinkBreaks \/ UNCHANGED vars
  <2>1. UNCHANGED <<run, peer, open, toServer, toSharer>>
    BY <1>8 DEF PumpFails, Media, PumpReports, PumpEnds, MediaCloses, others, StopBegins,
                StopReturns, stopRest, LinkBreaks, sharerSide, server, vars
  <2>2. cancelled => cancelled'
    BY <1>8 DEF PumpFails, Media, PumpReports, PumpEnds, MediaCloses, StopBegins, StopReturns,
                LinkBreaks, sharerSide, vars
  <2> QED  BY <1>4, <2>1, <2>2
<1>9. CASE StopWrites
  <2>1. /\ UNCHANGED <<run, peer, open, toSharer, cancelled>>
        /\ UNCHANGED toServer \/ toServer' = Append(toServer, Ask("stop", None))
    BY <1>9 DEF StopWrites, stopRest, server
  <2> QED  BY <1>1, <1>4, <2>1, MessagesTyped
<1>10. ASSUME NEW q \in PeerId, Callback(q) PROVE Leaving(p)'
  <2>1. /\ UNCHANGED <<run, peer, open, toSharer>>
        /\ \/ UNCHANGED <<toServer, cancelled>>
           \/ Send(Ask("ice", q)) \/ Send(Ask("disconnect-peer", q))
    BY <1>10 DEF Callback, Connects, FailBegins, FailReports,
                 CandidateBegins, CandidateSends, Estimate,
                 callbackRest, server, Disconnect
  <2>2. ~cancelled
    BY <2>1 DEF Send, Sent, NotSent
  <2>3. Range(toServer) \subseteq Range(toServer')
    BY <2>1, SentContents, MessagesTyped
  <2> QED  BY <1>4, <2>1, <2>2, <2>3
<1>11. ~(ReadEnd \/ ReadFails \/ RunCloses \/ RunEnds \/ StopTimesOut)
  BY DEF ReadEnd, ReadFails, RunCloses, RunEnds, Finish, StopTimesOut
<1> QED
  BY <1>5, <1>6, <1>7, <1>8, <1>9, <1>10, <1>11 DEF Next, Server, Run, Reads, Stopping, Ended

LEMMA CountedNext ==
    ASSUME Typed, Viewed, [Next]_vars, run' = "reading",
           run = "reading" => state.viewers = Cardinality(Inside) \/ Dropped # {}
    PROVE  state'.viewers = Cardinality(Inside') \/ Dropped' # {}
<1>1. run = "reading" /\ ~(ReadEnd \/ ReadFails \/ RunCloses \/ RunEnds)
  BY DEF Next, Server, ServerReceives, ViewerJoins, ViewerLeaves, ViewerAnswers, ViewerSendsIce,
         LinkBreaks, Run, ReadJoined, ReadLeft, ReadAnswer, ReadIce, ReadError, ReadEnd,
         ReadFails, RunCloses, RunEnds, Receive, Finish, quiet,
         PumpFails, Media, PumpReports, PumpEnds, MediaCloses, others, StopBegins, Stopping,
         StopWrites, StopTimesOut, StopReturns, stopRest, Callback, Connects, FailBegins,
         FailReports,
         CandidateBegins, CandidateSends, Estimate, callbackRest, Ended, vars, sharerSide
<1>2. CASE ReadLeft
  <2>1. /\ Inside' = Inside \ {Head(toSharer).peer}
        /\ Head(toSharer).viewers = Cardinality(Inside \ {Head(toSharer).peer})
    BY <1>2, ReadLeftPeer
  <2>2. state'.viewers = Head(toSharer).viewers
    BY <1>2 DEF ReadLeft, Shown, Typed, ControlTyped
  <2> QED  BY <2>1, <2>2
<1>3. CASE ReadJoined
  <2> DEFINE p == Head(toSharer).peer
  <2>1. /\ p \in PeerId /\ Head(toSharer).viewers = Cardinality(Inside \cup {p})
        /\ AddPeer(p, Head(toSharer).viewers)
    BY <1>3, ReadJoinedPeer
  <2>2. CASE Drop(p)
    <3>1. p \in Dropped'
      BY <2>1, <2>2, ClosingTyped DEF Drop, Dropped
    <3> QED  BY <3>1
  <2>3. CASE /\ Closing({p}, "offered")
             /\ state' = [state EXCEPT !.viewers = Head(toSharer).viewers]
    <3>1. \A q \in PeerId : q \in Inside' <=> q \in Inside \cup {p}
      BY <2>3, ClosingTyped DEF Inside
    <3>2. Inside' = Inside \cup {p}
      BY <2>1, <3>1 DEF Inside
    <3> QED  BY <2>1, <2>3, <3>2 DEF Typed, ControlTyped
  <2> QED  BY <2>1, <2>2, <2>3 DEF AddPeer
<1>4. CASE ReadAnswer \/ ReadIce \/ ReadError
  <2> DEFINE p == Head(toSharer).peer
  <2>1. Inside' = Inside
    BY <1>4, PeersKept DEF KeepsPeers, Next, Run, ReadJoined, ReadLeft, ReadAnswer, ReadIce,
                           ReadError, Receive
  <2>2. UNCHANGED state
    BY <1>4 DEF ReadAnswer, ReadIce, ReadError
  <2>3. /\ p \in PeerId
        /\ \/ UNCHANGED peer
           \/ peer[p] # "dropped" /\ \E where \in {"answered", "offered", "dropped"} :
                                        Closing({p}, where)
    BY <1>4, ReadsOne DEF Reads, ReadLeft, ReadAnswer, ReadIce, ReadError, Receive, Drop
  <2>4. \A q \in PeerId : peer[q] = "dropped" => peer'[q] = "dropped"
    BY <2>3, ClosingTyped
  <2>5. Dropped \subseteq Dropped'
    BY <2>4 DEF Dropped
  <2> QED  BY <1>1, <2>1, <2>2, <2>5
<1>5. CASE ~(ReadLeft \/ ReadJoined \/ ReadAnswer \/ ReadIce \/ ReadError)
  <2>1. UNCHANGED peer /\ state'.viewers = state.viewers
    BY <1>1, <1>5
    DEF Next, Server, ServerReceives, ViewerJoins, ViewerLeaves, ViewerAnswers, ViewerSendsIce,
        LinkBreaks, Run, PumpFails, Media, PumpReports, PumpEnds, MediaCloses, others,
        StopBegins, Stopping, StopWrites, StopTimesOut, StopReturns, stopRest, Callback,
        Connects, FailBegins, FailReports,
        CandidateBegins, CandidateSends, Estimate, callbackRest, Ended, vars,
        sharerSide, Typed, ControlTyped
  <2> QED  BY <1>1, <2>1 DEF Inside, Dropped
<1> QED  BY <1>2, <1>3, <1>4, <1>5

LEMMA AlwaysLeavers == Spec => []Leavers
<1>1. Init => Leavers
  <2> SUFFICES ASSUME Init PROVE Leavers
    OBVIOUS
  <2>1. (\A p \in PeerId : peer[p] = "new") /\ state.viewers = 0
    BY DEF Init
  <2>2. Inside = {} /\ Dropped = {}
    BY <2>1 DEF Inside, Dropped
  <2> QED  BY <2>1, <2>2, FS_EmptySet DEF Leavers
<1>2. ASSUME Typed, Viewed, Leavers, [Next]_vars PROVE Leavers'
  <2>1. run' = "reading" /\ ~cancelled' /\ open' => \A p \in Dropped' : Leaving(p)'
    BY <1>2, LeavingNext DEF Leavers
  <2>2. run' = "reading" => state'.viewers = Cardinality(Inside') \/ Dropped' # {}
    BY <1>2, CountedNext DEF Leavers
  <2> QED  BY <2>1, <2>2 DEF Leavers
<1> QED  BY <1>1, <1>2, AlwaysTyped, AlwaysViewed, PTL DEF Spec

(* With nothing in flight that would change it, the sharer's peers and the   *)
(* count that it shows are the viewers of the server's session.              *)
THEOREM PeersDoAgree == Spec => []PeersAgree
<1>1. ASSUME Typed, Viewed, Leavers PROVE PeersAgree
  <2> SUFFICES ASSUME run = "reading", ~cancelled, open, toSharer = <<>>,
                      \A i \in 1..Len(toServer) : toServer[i].type # "disconnect-peer"
               PROVE  Peers = members /\ state.viewers = Cardinality(members)
    BY DEF PeersAgree
  <2>1. Len(toSharer) = 0 /\ 1..0 = {} /\ Range(toSharer) = {}
    BY DEF Range
  <2>2. Inside = members
    <3>1. View(0) = Inside
      BY <2>1 DEF View, Coming, Going, Inside
    <3> QED  BY <1>1, <2>1, <3>1 DEF Viewed
  <2>3. \A p \in PeerId : Ask("disconnect-peer", p) \notin Range(toServer)
    <3>1. Range(toServer) = {toServer[i] : i \in 1..Len(toServer)}
      BY <1>1, Contents DEF Typed, StreamsTyped
    <3> QED  BY <3>1 DEF Ask
  <2>4. Dropped = {}
    <3>1. Dropped \subseteq PeerId
      BY DEF Dropped
    <3> QED  BY <1>1, <2>1, <2>3, <3>1 DEF Leavers, Leaving
  <2>5. Peers = Inside
    BY <2>4 DEF Peers, Live, Inside, Dropped
  <2> QED  BY <1>1, <2>2, <2>4, <2>5 DEF Leavers
<1> QED  BY <1>1, AlwaysTyped, AlwaysViewed, AlwaysLeavers, PTL

-----------------------------------------------------------------------------
(* The encoder's bitrate. *)

(* A peer that enters at the highest rate does not change the slowest one. *)
LEMMA NewcomerKeepsTarget ==
    ASSUME Typed, NEW p \in PeerId, bitrates[p] = 0,
           bitrates' = [bitrates EXCEPT ![p] = MaxRate]
    PROVE  Target(bitrates') = Target(bitrates)
<1> DEFINE rates(b) == {MaxRate} \cup {b[q] : q \in {o \in PeerId : b[o] > 0}}
<1>1. \A q \in PeerId : bitrates'[q] = IF q = p THEN MaxRate ELSE bitrates[q]
  BY DEF Typed, PeersTyped
<1>2. \A r : r \in rates(bitrates') <=> r \in rates(bitrates)
  <2>1. ASSUME NEW q \in PeerId, bitrates[q] > 0 PROVE bitrates[q] \in rates(bitrates')
    <3>1. q # p
      BY <2>1
    <3> QED  BY <1>1, <2>1, <3>1
  <2>2. ASSUME NEW q \in PeerId, bitrates'[q] > 0 PROVE bitrates'[q] \in rates(bitrates)
    BY <1>1, <2>2
  <2> QED  BY <2>1, <2>2
<1>3. rates(bitrates') = rates(bitrates)
  BY <1>2
<1> QED  BY <1>3 DEF Target

LEMMA RatedNext ==
    ASSUME Typed, Viewed, Rated, EncoderFollows, [Next]_vars
    PROVE  Rated' /\ EncoderFollows'
<1>1. ASSUME UNCHANGED <<bitrates, encoder>>, media' # "closed" => media # "closed",
             \A p \in PeerId : peer'[p] \in {"new", "left"} => peer'[p] = peer[p]
      PROVE  Rated' /\ EncoderFollows'
  BY <1>1 DEF Rated, EncoderFollows
<1>2. CASE ReadJoined
  <2> DEFINE p == Head(toSharer).peer
  <2>1. /\ p \in PeerId /\ peer[p] = "new" /\ AddPeer(p, Head(toSharer).viewers)
        /\ UNCHANGED <<media, encoder>>
    BY <1>2, ReadJoinedPeer DEF ReadJoined, quiet
  <2>2. CASE Drop(p) /\ UNCHANGED bitrates
    <3>1. \A q \in PeerId : peer'[q] = IF q \in {p} THEN "dropped" ELSE peer[q]
      BY <2>2, ClosingTyped DEF Drop
    <3> QED  BY <1>1, <2>1, <2>2, <3>1
  <2>3. CASE Closing({p}, "offered") /\ bitrates' = [bitrates EXCEPT ![p] = MaxRate]
    <3>1. \A q \in PeerId : peer'[q] = IF q \in {p} THEN "offered" ELSE peer[q]
      BY <2>3, ClosingTyped
    <3>2. bitrates[p] = 0
      BY <2>1 DEF Rated
    <3>3. Target(bitrates') = Target(bitrates)
      BY <2>1, <2>3, <3>2, NewcomerKeepsTarget
    <3>4. \A q \in PeerId : q # p => bitrates'[q] = bitrates[q]
      BY <2>3 DEF Typed, PeersTyped
    <3>5. Rated'
      BY <3>1, <3>4 DEF Rated
    <3>6. \A q \in PeerId : peer'[q] = "left" => bitrates'[q] = 0
      BY <3>1, <3>4 DEF EncoderFollows
    <3> QED  BY <2>1, <3>3, <3>5, <3>6 DEF EncoderFollows
  <2> QED  BY <2>1, <2>2, <2>3 DEF AddPeer
<1>3. CASE ReadLeft
  <2> DEFINE p == Head(toSharer).peer
  <2>1. p \in PeerId
    BY <1>3, ReceivedTyped DEF ReadLeft
  <2>2. /\ bitrates' = [bitrates EXCEPT ![p] = 0]
        /\ encoder' = IF media = "closed" THEN encoder ELSE Target(bitrates')
        /\ UNCHANGED media
    BY <1>3 DEF ReadLeft, SetBitrate, quiet
  <2>3. \A q \in PeerId : peer'[q] = IF q \in {p} THEN "left" ELSE peer[q]
    BY <1>3, ClosingTyped DEF ReadLeft
  <2>4. \A q \in PeerId : bitrates'[q] = IF q = p THEN 0 ELSE bitrates[q]
    BY <2>1, <2>2 DEF Typed, PeersTyped
  <2>5. Rated'
    BY <2>3, <2>4 DEF Rated
  <2>6. \A q \in PeerId : peer'[q] = "left" => bitrates'[q] = 0
    BY <2>3, <2>4 DEF EncoderFollows
  <2> QED  BY <2>2, <2>5, <2>6 DEF EncoderFollows
<1>4. CASE ReadAnswer \/ ReadIce \/ ReadError
  <2> DEFINE p == Head(toSharer).peer
  <2>1. UNCHANGED <<bitrates, encoder, media>>
    BY <1>4 DEF ReadAnswer, ReadIce, ReadError, quiet
  <2>2. /\ p \in PeerId
        /\ \/ UNCHANGED peer
           \/ \E where \in {"answered", "offered", "dropped"} : Closing({p}, where)
    BY <1>4, ReadsOne DEF Reads, ReadLeft, ReadAnswer, ReadIce, ReadError, Receive, Drop
  <2>3. \A q \in PeerId : peer'[q] \in {"new", "left"} => peer'[q] = peer[q]
    BY <2>2, ClosingTyped
  <2> QED  BY <1>1, <2>1, <2>3
<1>5. CASE ReadEnd \/ ReadFails
  <2>1. Closing(Peers, "dropped") /\ UNCHANGED <<bitrates, encoder>>
        /\ (media' # "closed" => media # "closed")
    BY <1>5 DEF ReadEnd, ReadFails, Finish
  <2>2. \A q \in PeerId : peer'[q] \in {"new", "left"} => peer'[q] = peer[q]
    BY <2>1, ClosingTyped
  <2> QED  BY <1>1, <2>1, <2>2
<1>6. ASSUME NEW p \in PeerId, Callback(p) PROVE Rated' /\ EncoderFollows'
  <2>1. UNCHANGED <<peer, media>>
    BY <1>6 DEF Callback, Connects, FailBegins, FailReports,
                CandidateBegins, CandidateSends, Estimate, callbackRest
  <2>2. CASE UNCHANGED <<bitrates, encoder>>
    BY <1>1, <2>1, <2>2
  <2>3. ASSUME NEW r \in 1..MaxRate, Estimate(p, r), ~UNCHANGED <<bitrates, encoder>>
        PROVE  Rated' /\ EncoderFollows'
    <3>1. /\ bitrates[p] # 0
          /\ bitrates' = [bitrates EXCEPT ![p] = r]
          /\ encoder' = IF media = "closed" THEN encoder ELSE Target(bitrates')
      BY <2>3 DEF Estimate, SetBitrate
    <3>2. peer[p] \notin {"new", "left"}
      BY <3>1 DEF Rated, EncoderFollows
    <3>3. \A q \in PeerId : q # p => bitrates'[q] = bitrates[q]
      BY <3>1 DEF Typed, PeersTyped
    <3>4. Rated'
      BY <2>1, <3>2, <3>3 DEF Rated
    <3>5. \A q \in PeerId : peer'[q] = "left" => bitrates'[q] = 0
      BY <2>1, <3>2, <3>3 DEF EncoderFollows
    <3> QED  BY <2>1, <3>1, <3>4, <3>5 DEF EncoderFollows
  <2> QED  BY <1>6, <2>2, <2>3 DEF Callback, Connects, FailBegins, FailReports,
                                   CandidateBegins, CandidateSends
<1>7. CASE Server \/ LinkBreaks \/ RunCloses \/ RunEnds \/ PumpFails \/ Media \/ StopBegins
             \/ Stopping \/ UNCHANGED vars
  <2>1. UNCHANGED <<bitrates, encoder, peer>> /\ (media' # "closed" => media # "closed")
    BY <1>7
    DEF Server, ServerReceives, ViewerJoins, ViewerLeaves, ViewerAnswers, ViewerSendsIce,
        LinkBreaks, RunCloses, RunEnds, PumpFails, Media, PumpReports, PumpEnds, MediaCloses,
        others, StopBegins, Stopping, StopWrites, StopTimesOut, StopReturns, stopRest, vars,
        sharerSide
  <2> QED  BY <1>1, <2>1
<1> QED  BY <1>2, <1>3, <1>4, <1>5, <1>6, <1>7 DEF Next, Run, Ended

LEMMA RatedInit == Init => Rated /\ EncoderFollows
<1> SUFFICES ASSUME Init PROVE Rated /\ EncoderFollows
  OBVIOUS
<1>1. /\ \A p \in PeerId : peer[p] = "new" /\ bitrates[p] = 0
      /\ encoder = MaxRate
  BY DEF Init
<1>2. Target(bitrates) = MaxRate
  <2>1. {q \in PeerId : bitrates[q] > 0} = {}
    BY <1>1
  <2>2. {MaxRate} \cup {bitrates[p] : p \in {q \in PeerId : bitrates[q] > 0}} = {MaxRate}
    BY <2>1
  <2>3. Slowest({MaxRate}) = MaxRate
    BY SessionAssumption DEF Slowest
  <2>4. Clamp(MaxRate) = MaxRate
    BY SessionAssumption DEF Clamp
  <2> QED  BY <2>2, <2>3, <2>4 DEF Target
<1> QED  BY <1>1, <1>2 DEF Rated, EncoderFollows

(* While the screen is captured the encoder runs at the slowest rate of the  *)
(* viewers that are there, within the limits, and an estimate that comes     *)
(* late for a viewer that left is not counted.                               *)
THEOREM EncoderDoesFollow == Spec => []EncoderFollows
<1>1. Typed /\ Viewed /\ Rated /\ EncoderFollows /\ [Next]_vars => Rated' /\ EncoderFollows'
  BY RatedNext
<1> QED  BY <1>1, RatedInit, AlwaysTyped, AlwaysViewed, PTL DEF Spec

-----------------------------------------------------------------------------

(* The whole invariant, every part of which is inductive given those before. *)
LEMMA Invariant == Spec => []IInv
<1>1. Spec => [](Rated /\ EncoderFollows)
  BY RatedInit, RatedNext, AlwaysTyped, AlwaysViewed, PTL DEF Spec
<1> QED
  BY <1>1, AlwaysTyped, AlwaysEnding, AlwaysReported, AlwaysStoppedFirst, AlwaysViewed,
     AlwaysCaused, AlwaysLeavers, NeverIsRejected, HealthyStay, StoppedIsStopped, PTL DEF IInv
=============================================================================
