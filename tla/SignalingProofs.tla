--------------------------- MODULE SignalingProofs ---------------------------
(* What holds of the signaling server for any number of connections, tokens, *)
(* viewers and queued messages, with proofs checked by TLAPS.                *)
EXTENDS SignalingAccess, SignalingViews, FiniteSetTheorems, TLAPS

(* Finiteness of the viewers maps, without which their size means nothing. *)
FiniteViewers == \A s \in SessionId : IsFiniteSet(Taken(s))

Typed == TypeOK /\ FiniteViewers

-----------------------------------------------------------------------------
(* emit: what a batch of messages leaves of connections and queues. *)

LEMMA EmitTyped ==
    ASSUME TypeOK, NEW batch, \A c \in DOMAIN batch : batch[c] \in Message,
           Emit(batch)
    PROVE  /\ conn' \in [Client -> {"open", "silent", "closed"}]
           /\ out' \in [Client -> Seq(Message)]
           /\ \A c \in Client : conn[c] = "closed" => conn'[c] = "closed"
  BY DEF Emit, TypeOK

LEMMA DropTyped ==
    ASSUME TypeOK, NEW cs, Drop(cs)
    PROVE  /\ conn' \in [Client -> {"open", "silent", "closed"}]
           /\ out' \in [Client -> Seq(Message)]
           /\ \A c \in Client : conn[c] = "closed" \/ c \in cs => conn'[c] = "closed"
  BY DEF Drop, TypeOK

LEMMA MsgTyped ==
    /\ \A p \in PeerId \cup {None}, n \in Nat :
          /\ \A t \in RelayType : Msg(t, p, n) \in Message
          /\ Msg("heartbeat", p, n) \in Message
          /\ Msg("started", p, n) \in Message
          /\ Msg("joined", p, n) \in Message
          /\ Msg("viewer-joined", p, n) \in Message
          /\ Msg("viewer-left", p, n) \in Message
    /\ \A p \in PeerId \cup {None} :
          /\ Error("rejected", p) \in Message
          /\ Error("connection-failed", p) \in Message
    /\ Rejected \in Message
    /\ Stopped \in Message
  BY DEF Msg, Error, Rejected, Stopped, Message, RelayType

LEMMA RefuseTyped ==
    ASSUME TypeOK, NEW c, Refuse(c)
    PROVE  /\ conn' \in [Client -> {"open", "silent", "closed"}]
           /\ out' \in [Client -> Seq(Message)]
           /\ \A d \in Client : conn[d] = "closed" => conn'[d] = "closed"
           /\ UNCHANGED registry
  BY EmitTyped, MsgTyped DEF Refuse, To

-----------------------------------------------------------------------------
(* The viewers maps change one key at a time or are cleared. *)

LEMMA TakenAdd ==
    ASSUME TypeOK, NEW s \in SessionId, NEW p \in PeerId, NEW c \in Client,
           viewers' = [viewers EXCEPT ![s][p] = c]
    PROVE  /\ Taken(s)' = Taken(s) \cup {p}
           /\ \A t \in SessionId \ {s} : Taken(t)' = Taken(t)
  BY NoneAssumption DEF Taken, TypeOK

LEMMA TakenRemove ==
    ASSUME TypeOK, NEW s \in SessionId, NEW p,
           viewers' = [viewers EXCEPT ![s][p] = None]
    PROVE  /\ Taken(s)' = Taken(s) \ {p}
           /\ \A t \in SessionId \ {s} : Taken(t)' = Taken(t)
  BY DEF Taken, TypeOK

LEMMA TakenClear ==
    ASSUME TypeOK, NEW s \in SessionId,
           viewers' = [viewers EXCEPT ![s] = [p \in PeerId |-> None]]
    PROVE  /\ Taken(s)' = {}
           /\ \A t \in SessionId \ {s} : Taken(t)' = Taken(t)
  BY DEF Taken, TypeOK

LEMMA TakenSame ==
    ASSUME UNCHANGED viewers
    PROVE  \A s : Taken(s)' = Taken(s)
  BY DEF Taken

-----------------------------------------------------------------------------
(* Type correctness. *)

LEMMA EndSessionTyped ==
    ASSUME Typed, NEW s \in SessionId, EndSession(s)
    PROVE  /\ sessions' \subseteq SessionId
           /\ session' \in [Client -> SessionId \cup {None}]
           /\ viewers' \in [SessionId -> [PeerId -> Client \cup {None}]]
           /\ conn' \in [Client -> {"open", "silent", "closed"}]
           /\ out' \in [Client -> Seq(Message)]
           /\ \A c \in Client : conn[c] = "closed" => conn'[c] = "closed"
           /\ FiniteViewers'
<1>1. \A c \in DOMAIN [d \in Members(s) \cup {sharer[s]} |-> Stopped] :
         [d \in Members(s) \cup {sharer[s]} |-> Stopped][c] \in Message
  BY MsgTyped
<1>2. /\ conn' \in [Client -> {"open", "silent", "closed"}]
      /\ out' \in [Client -> Seq(Message)]
      /\ \A c \in Client : conn[c] = "closed" => conn'[c] = "closed"
  BY <1>1, EmitTyped DEF EndSession, Typed
<1>3. FiniteViewers'
  BY TakenClear, FS_EmptySet DEF EndSession, Typed, FiniteViewers
<1>4. /\ sessions' \subseteq SessionId
      /\ session' \in [Client -> SessionId \cup {None}]
      /\ viewers' \in [SessionId -> [PeerId -> Client \cup {None}]]
  BY DEF EndSession, Typed, TypeOK
<1> QED  BY <1>2, <1>3, <1>4

LEMMA TypedInit == Init => Typed
<1> SUFFICES ASSUME Init PROVE Typed
  OBVIOUS
<1>1. TypeOK
  <2>1. out \in [Client -> Seq(Message)]
    <3>1. <<>> \in Seq(Message)
      OBVIOUS
    <3> QED  BY <3>1 DEF Init
  <2> QED  BY <2>1 DEF Init, TypeOK
<1>2. \A s \in SessionId : Taken(s) = {}
  BY DEF Init, Taken
<1> QED  BY <1>1, <1>2, FS_EmptySet DEF Typed, FiniteViewers

LEMMA LeaveTyped ==
    ASSUME Typed, NEW c \in Client, Leave(c)
    PROVE  Typed'
<1> USE DEF Typed
<1> PICK s \in SessionId \cup {None} : s = session[c]
  BY DEF TypeOK
<1>1. CASE s = None
  BY <1>1, TakenSame DEF Leave, Goto, TypeOK, FiniteViewers
<1>2. CASE s # None /\ sharer[s] # c
  <2>1. s \in SessionId /\ id[c] \in PeerId \cup {None}
    BY <1>2 DEF TypeOK
  <2>2. IsFiniteSet(Taken(s) \ {id[c]}) /\ Cardinality(Taken(s) \ {id[c]}) \in Nat
    BY <2>1, FS_RemoveElement, FS_CardinalityType DEF FiniteViewers
  <2> DEFINE m == Msg("viewer-left", id[c], Left(s, id[c]))
  <2>3. m \in Message
    BY <2>1, <2>2, MsgTyped DEF Left
  <2>4. /\ viewers' = [viewers EXCEPT ![s][id[c]] = None]
        /\ session' = [session EXCEPT ![c] = None]
        /\ Emit(To(sharer[s], m))
        /\ UNCHANGED <<closed, sessions, sharer, issued, id>>
        /\ clients' = clients \ {c} /\ Goto(c, "done")
    BY <1>2 DEF Leave
  <2>5. /\ conn' \in [Client -> {"open", "silent", "closed"}]
        /\ out' \in [Client -> Seq(Message)]
    BY <2>3, <2>4, EmitTyped DEF To
  <2>6. FiniteViewers'
    <3>1. /\ Taken(s)' = Taken(s) \ {id[c]}
          /\ \A t \in SessionId \ {s} : Taken(t)' = Taken(t)
      BY <2>1, <2>4, TakenRemove
    <3> QED  BY <2>1, <2>2, <3>1 DEF FiniteViewers
  <2> QED  BY <2>4, <2>5, <2>6 DEF TypeOK, Goto
<1>3. CASE s # None /\ sharer[s] = c
  <2>1. s \in SessionId /\ EndSession(s)
    BY <1>3 DEF Leave, TypeOK
  <2>2. /\ UNCHANGED <<closed, sharer, issued, id>>
        /\ clients' = clients \ {c} /\ Goto(c, "done")
    BY DEF Leave
  <2> QED  BY <2>1, <2>2, EndSessionTyped DEF TypeOK, Goto
<1> QED  BY <1>1, <1>2, <1>3

LEMMA DisconnectPeerTyped ==
    ASSUME Typed, NEW c \in Client, NEW p \in PeerId, DisconnectPeer(c, p)
    PROVE  Typed'
<1> DEFINE s == session[c]
           v == viewers[s][p]
<1> USE DEF Typed
<1>1. CASE ~Sharing(c)
  BY <1>1, RefuseTyped, TakenSame
  DEF DisconnectPeer, Request, Goto, TypeOK, FiniteViewers, registry
<1>2. CASE Sharing(c) /\ v = None
  BY <1>2, TakenSame
  DEF DisconnectPeer, Ignore, Request, Goto, TypeOK, FiniteViewers, registry
<1>3. CASE Sharing(c) /\ v # None
  <2>1. s \in SessionId /\ v \in Client
    BY <1>3 DEF Sharing, TypeOK
  <2>2. IsFiniteSet(Taken(s) \ {p}) /\ Cardinality(Taken(s) \ {p}) \in Nat
    BY <2>1, FS_RemoveElement, FS_CardinalityType DEF FiniteViewers
  <2> DEFINE m == Msg("viewer-left", p, Left(s, p))
             e == Error("connection-failed", None)
  <2>3. m \in Message /\ e \in Message
    BY <2>2, MsgTyped DEF Left
  <2>4. /\ session' = [session EXCEPT ![v] = None]
        /\ viewers' = [viewers EXCEPT ![s][p] = None]
        /\ Emit(To2(v, e, c, m))
        /\ UNCHANGED <<closed, clients, sessions, sharer, issued, id>>
        /\ Goto(c, "reading")
    BY <1>3 DEF DisconnectPeer, Request
  <2>5. /\ conn' \in [Client -> {"open", "silent", "closed"}]
        /\ out' \in [Client -> Seq(Message)]
    <3>1. \A d \in DOMAIN To2(v, e, c, m) : To2(v, e, c, m)[d] \in Message
      BY <2>3 DEF To2
    <3> QED  BY <3>1, <2>4, EmitTyped
  <2>6. FiniteViewers'
    BY <2>1, <2>2, <2>4, TakenRemove DEF FiniteViewers
  <2> QED  BY <2>4, <2>5, <2>6 DEF TypeOK, Goto
<1> QED  BY <1>1, <1>2, <1>3

LEMMA JoinTyped ==
    ASSUME Typed, NEW c \in Client, NEW s \in SessionId, NEW code \in SessionId,
           Join(c, s, code)
    PROVE  Typed'
<1> USE DEF Typed
<1>1. CASE JoinRefused(c, s, code)
  BY <1>1, RefuseTyped, TakenSame
  DEF Join, Request, Goto, TypeOK, FiniteViewers, registry
<1>2. CASE ~JoinRefused(c, s, code)
  <2>1. PICK p \in PeerId \ issued :
          /\ issued' = issued \cup {p}
          /\ session' = [session EXCEPT ![c] = s]
          /\ id' = [id EXCEPT ![c] = p]
          /\ viewers' = [viewers EXCEPT ![s][p] = c]
          /\ Emit(To2(c, Msg("joined", p, Cardinality(Taken(s) \cup {p})),
                      sharer[s], Msg("viewer-joined", p, Cardinality(Taken(s) \cup {p}))))
    BY <1>2 DEF Join
  <2>2. IsFiniteSet(Taken(s) \cup {p}) /\ Cardinality(Taken(s) \cup {p}) \in Nat
    BY FS_AddElement, FS_CardinalityType DEF FiniteViewers
  <2> DEFINE m == Msg("joined", p, Cardinality(Taken(s) \cup {p}))
             n == Msg("viewer-joined", p, Cardinality(Taken(s) \cup {p}))
  <2>3. m \in Message /\ n \in Message
    BY <2>2, MsgTyped
  <2>4. \A d \in DOMAIN To2(c, m, sharer[s], n) : To2(c, m, sharer[s], n)[d] \in Message
    BY <2>3 DEF To2
  <2>5. /\ conn' \in [Client -> {"open", "silent", "closed"}]
        /\ out' \in [Client -> Seq(Message)]
    BY <2>1, <2>4, EmitTyped
  <2>6. FiniteViewers'
    BY <2>1, <2>2, TakenAdd DEF FiniteViewers
  <2>7. UNCHANGED <<closed, clients, sessions, sharer>> /\ Goto(c, "reading")
    BY <1>2 DEF Join, Request
  <2> QED  BY <2>1, <2>5, <2>6, <2>7 DEF TypeOK, Goto
<1> QED  BY <1>1, <1>2

LEMMA RelayTyped ==
    ASSUME Typed, NEW c \in Client, NEW t \in RelayType, NEW p \in PeerId,
           NEW w \in BOOLEAN, Relay(c, t, p, w)
    PROVE  Typed'
<1> USE DEF Typed
<1>1. /\ conn' \in [Client -> {"open", "silent", "closed"}]
      /\ out' \in [Client -> Seq(Message)]
      /\ UNCHANGED registry
  <2>1. Rejected \in Message /\ Error("rejected", p) \in Message /\ Msg(t, p, 0) \in Message
    BY MsgTyped
  <2> QED  BY <2>1, EmitTyped DEF Relay, Refuse, Ignore, To, TypeOK
<1>2. UNCHANGED closed /\ Goto(c, "reading")
  BY DEF Relay, Request
<1> QED  BY <1>1, <1>2, TakenSame DEF TypeOK, FiniteViewers, registry, Goto

LEMMA TypedNext ==
    ASSUME Typed, [Next]_vars
    PROVE  Typed'
<1> USE DEF Typed
<1>1. ASSUME NEW c \in Client, Register(c) PROVE Typed'
  BY <1>1, DropTyped, TakenSame DEF Register, Goto, TypeOK, FiniteViewers, registry
<1>2. ASSUME NEW c \in Client, Read(c) PROVE Typed'
  BY <1>2, TakenSame DEF Read, Goto, TypeOK, FiniteViewers, registry
<1>3. ASSUME NEW c \in Client, RejectFrame(c) PROVE Typed'
  BY <1>3, EmitTyped, MsgTyped, TakenSame
  DEF RejectFrame, To, TypeOK, FiniteViewers, registry
<1>4. ASSUME NEW c \in Client, Handle(c) PROVE Typed'
  <2>1. CASE \E p \in PeerId : DisconnectPeer(c, p)
    BY <2>1, DisconnectPeerTyped
  <2>2. CASE Stop(c)
    <3>1. CASE Sharing(c)
      <4>1. session[c] \in SessionId /\ EndSession(session[c])
        BY <2>2, <3>1 DEF Stop, Sharing, TypeOK
      <4> QED
        BY <2>2, <3>1, <4>1, EndSessionTyped DEF Stop, Request, Goto, TypeOK
    <3>2. CASE ~Sharing(c)
      BY <2>2, <3>2, RefuseTyped, TakenSame
      DEF Stop, Request, Goto, TypeOK, FiniteViewers, registry
    <3> QED  BY <3>1, <3>2
  <2>3. CASE \E s, code \in SessionId : Join(c, s, code)
    BY <2>3, JoinTyped
  <2>4. CASE Start(c)
    <3>1. CASE session[c] # None
      BY <2>4, <3>1, RefuseTyped, TakenSame
      DEF Start, Request, Goto, TypeOK, FiniteViewers, registry
    <3>2. CASE session[c] = None
      <4>1. Msg("started", None, 0) \in Message
        BY MsgTyped
      <4>2. /\ conn' \in [Client -> {"open", "silent", "closed"}]
            /\ out' \in [Client -> Seq(Message)]
        BY <2>4, <3>2, <4>1, EmitTyped DEF Start, To
      <4>3. PICK s \in SessionId : /\ sessions' = sessions \cup {s}
                                   /\ sharer' = [sharer EXCEPT ![s] = c]
                                   /\ session' = [session EXCEPT ![c] = s]
        BY <2>4, <3>2 DEF Start
      <4>4. UNCHANGED <<closed, clients, viewers, issued, id>> /\ Goto(c, "reading")
        BY <2>4, <3>2 DEF Start, Request
      <4> QED
        BY <4>2, <4>3, <4>4, TakenSame DEF Goto, TypeOK, FiniteViewers
    <3> QED  BY <3>1, <3>2
  <2>5. CASE \E t \in RelayType, p \in PeerId, w \in BOOLEAN : Relay(c, t, p, w)
    BY <2>5, RelayTyped
  <2>6. CASE Unknown(c)
    BY <2>6, RefuseTyped, TakenSame
    DEF Unknown, Request, Goto, TypeOK, FiniteViewers, registry
  <2> QED  BY <1>4, <2>1, <2>2, <2>3, <2>4, <2>5, <2>6 DEF Handle
<1>5. ASSUME NEW c \in Client, Leave(c) PROVE Typed'
  BY <1>5, LeaveTyped
<1>6. ASSUME NEW c \in Client, Heartbeat(c) PROVE Typed'
  BY <1>6, EmitTyped, MsgTyped, TakenSame
  DEF Heartbeat, To, TypeOK, FiniteViewers, registry
<1>7. ASSUME NEW c \in Client, PingFails(c) \/ WriteFails(c) \/ Hangup(c)
      PROVE  Typed'
  BY <1>7, DropTyped, TakenSame
  DEF PingFails, WriteFails, Hangup, TypeOK, FiniteViewers, registry
<1>8. ASSUME NEW c \in Client, GoSilent(c) PROVE Typed'
  BY <1>8, TakenSame DEF GoSilent, TypeOK, FiniteViewers, registry
<1>9. ASSUME NEW c \in Client, Write(c) PROVE Typed'
  <2>1. Tail(out[c]) \in Seq(Message)
    BY <1>9 DEF Write, TypeOK
  <2> QED  BY <1>9, <2>1, TakenSame DEF Write, TypeOK, FiniteViewers, registry
<1>10. CASE ServerClose
  BY <1>10, DropTyped, TakenSame DEF ServerClose, TypeOK, FiniteViewers, registry
<1>11. CASE UNCHANGED vars
  BY <1>11, TakenSame DEF vars, registry, TypeOK, FiniteViewers
<1> QED
  BY <1>1, <1>2, <1>3, <1>4, <1>5, <1>6, <1>7, <1>8, <1>9, <1>10, <1>11
  DEF Next, ClientStep

(* The state of the server always has its type, and no viewers map is ever   *)
(* infinite.                                                                 *)
THEOREM TypeCorrect == Spec => []Typed
<1>1. Init => Typed
  BY TypedInit
<1>2. Typed /\ [Next]_vars => Typed'
  BY TypedNext
<1> QED  BY <1>1, <1>2, PTL DEF Spec

(* The type invariant that the runs check. *)
THEOREM TypeOKHolds == Spec => []TypeOK
<1>1. Typed => TypeOK
  BY DEF Typed
<1> QED  BY <1>1, TypeCorrect, PTL

-----------------------------------------------------------------------------
(* The registry.  The lemmas take one kind of change each; Running clients   *)
(* are those whose handler is in its read loop.                              *)

RunningKept == \A c \in Client : Running(c)' = Running(c)

LEMMA GotoKeepsRunning ==
    ASSUME TypeOK, NEW c \in Client, Running(c), NEW w \in {"reading", "holding"},
           Goto(c, w)
    PROVE  RunningKept
  BY DEF TypeOK, Running, RunningKept, Goto

LEMMA RequestKeepsRunning ==
    ASSUME TypeOK, NEW c \in Client, Request(c)
    PROVE  RunningKept /\ Running(c) /\ UNCHANGED clients
  BY GotoKeepsRunning DEF Request, Running

LEMMA RegistrySame ==
    ASSUME Registry, UNCHANGED registry, RunningKept
    PROVE  Registry'
  BY DEF Registry, registry, RunningKept, Running, Viewing

(* A session ends; at most its sharer leaves the read loop with it. *)
LEMMA RegistryEnd ==
    ASSUME TypeOK, Registry, NEW s \in sessions, EndSession(s),
           UNCHANGED <<sharer, issued, id>>,
           clients' = {c \in Client : Running(c)'},
           \A c \in Client \ {sharer[s]} : Running(c)' = Running(c)
    PROVE  Registry'
<1>1. /\ sharer[s] \in Client /\ s \in SessionId
      /\ \A c \in Client : session[c] = s => session'[c] = None
  BY NoneAssumption DEF Registry, TypeOK, EndSession, Members, Taken, Viewing
<1>2. \A c \in Client : session[c] # s => session'[c] = session[c]
  BY DEF Registry, TypeOK, EndSession, Members, Taken
<1>3. /\ viewers'[s] = [p \in PeerId |-> None]
      /\ \A t \in SessionId \ {s} : viewers'[t] = viewers[t]
      /\ sessions' = sessions \ {s}
  BY <1>1 DEF EndSession, TypeOK
<1>4. \A c \in Client :
         session'[c] # None => Running(c)' /\ session'[c] \in sessions'
  BY <1>1, <1>2, <1>3 DEF Registry
<1>5. \A t \in sessions' : sharer'[t] # None /\ session'[sharer'[t]] = t
  BY <1>1, <1>2, <1>3 DEF Registry, TypeOK
<1>6. ASSUME NEW t \in SessionId, NEW p \in PeerId, NEW c, c = viewers'[t][p], c # None
      PROVE  Viewing(c)' /\ session'[c] = t /\ id'[c] = p /\ p \in issued'
  <2>1. t # s /\ c = viewers[t][p] /\ c \in Client
    BY <1>3, <1>6 DEF TypeOK
  <2>2. Viewing(c) /\ session[c] = t /\ id[c] = p /\ p \in issued
    BY <1>6, <2>1 DEF Registry
  <2> QED  BY <1>2, <2>1, <2>2 DEF Viewing
<1>7. \A c \in Client : Viewing(c)' =>
         id'[c] \in PeerId /\ viewers'[session'[c]][id'[c]] = c
  BY <1>1, <1>2, <1>3, NoneAssumption DEF Registry, TypeOK, Viewing
<1> QED  BY <1>4, <1>5, <1>6, <1>7 DEF Registry

(* A viewer's place is taken away; it may be leaving its read loop. *)
LEMMA RegistryRemove ==
    ASSUME TypeOK, Registry, NEW s \in SessionId, NEW p \in PeerId, NEW v \in Client,
           viewers[s][p] = v,
           viewers' = [viewers EXCEPT ![s][p] = None],
           session' = [session EXCEPT ![v] = None],
           UNCHANGED <<sessions, sharer, issued, id>>,
           clients' = {c \in Client : Running(c)'},
           \A c \in Client \ {v} : Running(c)' = Running(c)
    PROVE  Registry'
<1>1. Viewing(v) /\ session[v] = s /\ id[v] = p
  BY NoneAssumption DEF Registry
<1>2. \A c \in Client : session'[c] = IF c = v THEN None ELSE session[c]
  BY DEF TypeOK
<1>3. \A t \in SessionId, q \in PeerId :
         viewers'[t][q] = IF t = s /\ q = p THEN None ELSE viewers[t][q]
  BY DEF TypeOK
<1>4. \A c \in Client :
         session'[c] # None => Running(c)' /\ session'[c] \in sessions'
  BY <1>2 DEF Registry
<1>5. \A t \in sessions' : sharer'[t] # None /\ session'[sharer'[t]] = t
  BY <1>1, <1>2 DEF Registry, TypeOK, Viewing
<1>6. ASSUME NEW t \in SessionId, NEW q \in PeerId, NEW c, c = viewers'[t][q], c # None
      PROVE  Viewing(c)' /\ session'[c] = t /\ id'[c] = q /\ q \in issued'
  <2>1. ~(t = s /\ q = p) /\ c = viewers[t][q] /\ c \in Client
    BY <1>3, <1>6 DEF TypeOK
  <2>2. Viewing(c) /\ session[c] = t /\ id[c] = q /\ q \in issued
    BY <1>6, <2>1 DEF Registry
  <2>3. c # v
    BY <1>1, <2>1, <2>2
  <2> QED  BY <1>2, <2>1, <2>2, <2>3 DEF Viewing
<1>7. ASSUME NEW c \in Client, Viewing(c)'
      PROVE  id'[c] \in PeerId /\ viewers'[session'[c]][id'[c]] = c
  <2>1. c # v /\ session'[c] = session[c] /\ Viewing(c)
    BY <1>2, <1>7 DEF Viewing
  <2>2. id[c] \in PeerId /\ viewers[session[c]][id[c]] = c /\ session[c] \in SessionId
    BY <2>1 DEF Registry, TypeOK, Viewing
  <2> QED  BY <1>3, <2>1, <2>2
<1> QED  BY <1>4, <1>5, <1>6, <1>7 DEF Registry

(* A client joins with a fresh token. *)
LEMMA RegistryAdd ==
    ASSUME TypeOK, Registry, RunningKept, NEW s \in sessions, NEW c \in Client,
           NEW p \in PeerId \ issued, Running(c), session[c] = None,
           viewers' = [viewers EXCEPT ![s][p] = c],
           session' = [session EXCEPT ![c] = s],
           id' = [id EXCEPT ![c] = p],
           issued' = issued \cup {p},
           UNCHANGED <<clients, sessions, sharer>>
    PROVE  Registry'
<1>1. s \in SessionId /\ sharer[s] # c /\ viewers[s][p] = None
  BY NoneAssumption DEF Registry, TypeOK
<1>2. \A d \in Client : /\ session'[d] = IF d = c THEN s ELSE session[d]
                        /\ id'[d] = IF d = c THEN p ELSE id[d]
  BY DEF TypeOK
<1>3. \A t \in SessionId, q \in PeerId :
         viewers'[t][q] = IF t = s /\ q = p THEN c ELSE viewers[t][q]
  BY DEF TypeOK
<1>4. /\ clients' = {d \in Client : Running(d)'}
      /\ \A d \in Client :
            session'[d] # None => Running(d)' /\ session'[d] \in sessions'
  BY <1>2 DEF Registry, RunningKept
<1>5. \A t \in sessions' : sharer'[t] # None /\ session'[sharer'[t]] = t
  BY <1>2, NoneAssumption DEF Registry, TypeOK
<1>6. ASSUME NEW t \in SessionId, NEW q \in PeerId, NEW d, d = viewers'[t][q], d # None
      PROVE  Viewing(d)' /\ session'[d] = t /\ id'[d] = q /\ q \in issued'
  <2>1. CASE t = s /\ q = p
    BY <1>1, <1>2, <1>3, <1>6, <2>1, NoneAssumption DEF Viewing
  <2>2. CASE ~(t = s /\ q = p)
    <3>1. d = viewers[t][q] /\ d \in Client
      BY <1>3, <1>6, <2>2 DEF TypeOK
    <3>2. Viewing(d) /\ session[d] = t /\ id[d] = q /\ q \in issued
      BY <1>6, <3>1 DEF Registry
    <3>3. d # c
      BY <3>2 DEF Viewing
    <3> QED  BY <1>2, <3>1, <3>2, <3>3 DEF Viewing
  <2> QED  BY <2>1, <2>2
<1>7. ASSUME NEW d \in Client, Viewing(d)'
      PROVE  id'[d] \in PeerId /\ viewers'[session'[d]][id'[d]] = d
  <2>1. CASE d = c
    BY <1>1, <1>2, <1>3, <2>1
  <2>2. CASE d # c
    <3>1. /\ Viewing(d) /\ session'[d] = session[d] /\ id'[d] = id[d]
      BY <1>2, <1>7, <2>2 DEF Viewing
    <3>2. /\ id[d] \in PeerId /\ viewers[session[d]][id[d]] = d
          /\ session[d] \in SessionId
      BY <3>1 DEF Registry, TypeOK, Viewing
    <3>3. id[d] \in issued
      BY <3>2, NoneAssumption DEF Registry
    <3> QED  BY <1>3, <3>1, <3>2, <3>3
  <2> QED  BY <2>1, <2>2
<1> QED  BY <1>4, <1>5, <1>6, <1>7 DEF Registry

(* A client starts a session with a fresh token. *)
LEMMA RegistryStart ==
    ASSUME TypeOK, Registry, RunningKept, NEW s \in SessionId, NEW c \in Client,
           Running(c), session[c] = None, sharer[s] = None,
           sessions' = sessions \cup {s},
           sharer' = [sharer EXCEPT ![s] = c],
           session' = [session EXCEPT ![c] = s],
           UNCHANGED <<clients, viewers, issued, id>>
    PROVE  Registry'
<1>1. s \notin sessions /\ c # None
  BY NoneAssumption DEF Registry
<1>2. \A d \in Client : session'[d] = IF d = c THEN s ELSE session[d]
  BY DEF TypeOK
<1>3. \A t \in SessionId : sharer'[t] = IF t = s THEN c ELSE sharer[t]
  BY DEF TypeOK
<1>4. /\ clients' = {d \in Client : Running(d)'}
      /\ \A d \in Client :
            session'[d] # None => Running(d)' /\ session'[d] \in sessions'
  BY <1>2 DEF Registry, RunningKept
<1>5. \A t \in sessions' : sharer'[t] # None /\ session'[sharer'[t]] = t
  <2>1. \A t \in sessions : sharer[t] \in Client /\ sharer[t] # c /\ t # s
    BY <1>1, NoneAssumption DEF Registry, TypeOK
  <2> QED  BY <1>1, <1>2, <1>3, <2>1 DEF Registry, TypeOK
<1>6. ASSUME NEW t \in SessionId, NEW q \in PeerId, NEW d, d = viewers'[t][q], d # None
      PROVE  Viewing(d)' /\ session'[d] = t /\ id'[d] = q /\ q \in issued'
  <2>1. d \in Client /\ Viewing(d) /\ session[d] = t /\ id[d] = q /\ q \in issued
    BY <1>6 DEF Registry, TypeOK
  <2>2. d # c /\ t \in sessions
    BY <2>1 DEF Viewing, Registry
  <2> QED  BY <1>1, <1>2, <1>3, <2>1, <2>2 DEF Viewing
<1>7. ASSUME NEW d \in Client, Viewing(d)'
      PROVE  id'[d] \in PeerId /\ viewers'[session'[d]][id'[d]] = d
  <2>1. d # c
    BY <1>2, <1>3, <1>7 DEF Viewing
  <2>2. Viewing(d) /\ session'[d] = session[d]
    <3>1. session'[d] = session[d] /\ session[d] # None
      BY <1>2, <1>7, <2>1 DEF Viewing
    <3>2. session[d] \in SessionId /\ session[d] # s
      BY <1>1, <3>1 DEF Registry, TypeOK
    <3> QED  BY <1>3, <1>7, <3>1, <3>2 DEF Viewing
  <2> QED  BY <2>2 DEF Registry
<1> QED  BY <1>4, <1>5, <1>6, <1>7 DEF Registry

-----------------------------------------------------------------------------
(* Every step of the server changes the registry in one of these ways. *)

Same == UNCHANGED registry /\ RunningKept

Enters(c) ==
    /\ ~closed /\ ~Running(c) /\ Running(c)'
    /\ \A d \in Client \ {c} : Running(d)' = Running(d)
    /\ clients' = clients \cup {c}
    /\ UNCHANGED <<sessions, sharer, viewers, issued, session, id>>

Ends(s) ==
    /\ EndSession(s) /\ Moved(sharer[s])
    /\ clients' = {c \in Client : Running(c)'} /\ clients' \subseteq clients
    /\ \A c \in Client \ {sharer[s]} : Running(c)' = Running(c)
    /\ UNCHANGED <<sharer, issued, id>>

Removes(s, p, v) ==
    /\ viewers[s][p] = v
    /\ viewers' = [viewers EXCEPT ![s][p] = None]
    /\ session' = [session EXCEPT ![v] = None]
    /\ Moved(v) \/ Moved(sharer[s])
    /\ clients' = {c \in Client : Running(c)'} /\ clients' \subseteq clients
    /\ \A c \in Client \ {v} : Running(c)' = Running(c)
    /\ UNCHANGED <<sessions, sharer, issued, id>>

Adds(s, p, c) ==
    /\ RunningKept /\ Running(c) /\ session[c] = None /\ ~(Count(s) >= MaxViewers)
    /\ viewers' = [viewers EXCEPT ![s][p] = c]
    /\ session' = [session EXCEPT ![c] = s]
    /\ id' = [id EXCEPT ![c] = p]
    /\ issued' = issued \cup {p}
    /\ UNCHANGED <<clients, sessions, sharer>>

Starts(s, c) ==
    /\ RunningKept /\ Running(c) /\ session[c] = None /\ sharer[s] = None
    /\ sessions' = sessions \cup {s}
    /\ sharer' = [sharer EXCEPT ![s] = c]
    /\ session' = [session EXCEPT ![c] = s]
    /\ UNCHANGED <<clients, viewers, issued, id>>

Leaves(c) ==
    /\ session[c] = None
    /\ clients' = {d \in Client : Running(d)'} /\ clients' \subseteq clients
    /\ \A d \in Client \ {c} : Running(d)' = Running(d)
    /\ UNCHANGED <<sessions, sharer, viewers, issued, session, id>>

Change ==
    \/ Same
    \/ \E c \in Client : Enters(c) \/ Leaves(c)
    \/ \E s \in sessions : Ends(s)
    \/ \E s \in SessionId, p \in PeerId, v \in Client : Removes(s, p, v)
    \/ \E s \in sessions, p \in PeerId \ issued, c \in Client : Adds(s, p, c)
    \/ \E s \in SessionId, c \in Client : Starts(s, c)

LEMMA LeaveChanges ==
    ASSUME TypeOK, Registry, NEW c \in Client, Leave(c)
    PROVE  Change
<1>1. /\ Running(c) /\ Moved(c) /\ clients' = clients \ {c} /\ ~Running(c)'
      /\ \A d \in Client \ {c} : Running(d)' = Running(d)
  BY DEF Leave, Goto, Running, Moved, TypeOK
<1>2. clients' = {d \in Client : Running(d)'} /\ clients' \subseteq clients
  BY <1>1 DEF Registry
<1> PICK s \in SessionId \cup {None} : s = session[c]
  BY DEF TypeOK
<1>3. CASE s = None
  <2>1. Leaves(c)
    BY <1>1, <1>2, <1>3 DEF Leave, Leaves
  <2> QED  BY <2>1 DEF Change
<1>4. CASE s # None /\ sharer[s] # c
  <2>1. s \in SessionId /\ id[c] \in PeerId /\ viewers[s][id[c]] = c
    BY <1>4 DEF Registry, Viewing
  <2>2. Removes(s, id[c], c)
    BY <1>1, <1>2, <1>4, <2>1 DEF Leave, Removes
  <2> QED  BY <2>1, <2>2 DEF Change
<1>5. CASE s # None /\ sharer[s] = c
  <2>1. s \in sessions
    BY <1>5 DEF Registry
  <2>2. Ends(s)
    BY <1>1, <1>2, <1>5 DEF Leave, Ends
  <2> QED  BY <2>1, <2>2 DEF Change
<1> QED  BY <1>3, <1>4, <1>5

LEMMA HandleChanges ==
    ASSUME TypeOK, Registry, NEW c \in Client, Handle(c)
    PROVE  Change
<1>1. Request(c)
  BY DEF Handle, DisconnectPeer, Stop, Join, Start, Relay, Unknown
<1>2. RunningKept /\ Running(c) /\ UNCHANGED clients
  BY <1>1, RequestKeepsRunning
<1>3. clients' = {d \in Client : Running(d)'} /\ Moved(c)
  BY <1>1, <1>2 DEF Registry, RunningKept, Request, Goto, Moved, TypeOK
<1>4. ASSUME Refuse(c) PROVE Change
  BY <1>2, <1>4 DEF Refuse, Change, Same
<1>5. ASSUME Ignore PROVE Change
  BY <1>2, <1>5 DEF Ignore, Change, Same
<1>6. ASSUME NEW p \in PeerId, DisconnectPeer(c, p) PROVE Change
  <2>1. CASE ~Sharing(c)
    BY <1>4, <1>6, <2>1 DEF DisconnectPeer
  <2>2. CASE Sharing(c)
    <3> PICK s \in SessionId : s = session[c]
      BY <2>2 DEF Sharing, TypeOK
    <3> PICK v \in Client \cup {None} : v = viewers[s][p]
      BY DEF TypeOK
    <3>1. CASE v = None
      BY <1>5, <1>6, <2>2, <3>1 DEF DisconnectPeer
    <3>2. CASE v # None
      <4>1. Removes(s, p, v)
        BY <1>2, <1>3, <1>6, <2>2, <3>2 DEF DisconnectPeer, Removes, RunningKept, Sharing
      <4> QED  BY <3>2, <4>1 DEF Change
    <3> QED  BY <3>1, <3>2
  <2> QED  BY <2>1, <2>2
<1>7. ASSUME Stop(c) PROVE Change
  <2>1. CASE ~Sharing(c)
    BY <1>4, <1>7, <2>1 DEF Stop
  <2>2. CASE Sharing(c)
    <3> PICK s \in sessions : s = session[c] /\ sharer[s] = c
      BY <2>2 DEF Sharing, Registry
    <3>1. Ends(s)
      BY <1>2, <1>3, <1>7, <2>2 DEF Stop, Ends, RunningKept
    <3> QED  BY <3>1 DEF Change
  <2> QED  BY <2>1, <2>2
<1>8. ASSUME NEW s \in SessionId, NEW code \in SessionId, Join(c, s, code) PROVE Change
  <2>1. CASE JoinRefused(c, s, code)
    BY <1>4, <1>8, <2>1 DEF Join
  <2>2. CASE ~JoinRefused(c, s, code)
    <3>1. s \in sessions /\ session[c] = None /\ ~(Count(s) >= MaxViewers)
      BY <2>2 DEF JoinRefused
    <3>2. PICK p \in PeerId \ issued :
            /\ issued' = issued \cup {p}
            /\ session' = [session EXCEPT ![c] = s]
            /\ id' = [id EXCEPT ![c] = p]
            /\ viewers' = [viewers EXCEPT ![s][p] = c]
            /\ UNCHANGED <<sessions, sharer>>
      BY <1>8, <2>2 DEF Join
    <3>3. Adds(s, p, c)
      BY <1>2, <3>1, <3>2 DEF Adds
    <3> QED  BY <3>1, <3>3 DEF Change
  <2> QED  BY <2>1, <2>2
<1>9. ASSUME Start(c) PROVE Change
  BY <1>2, <1>4, <1>9 DEF Start, Starts, Change
<1>10. ASSUME NEW t \in RelayType, NEW p \in PeerId, NEW w \in BOOLEAN, Relay(c, t, p, w)
       PROVE  Change
  BY <1>2, <1>10 DEF Relay, Refuse, Ignore, Change, Same
<1>11. ASSUME Unknown(c) PROVE Change
  BY <1>4, <1>11 DEF Unknown
<1> QED  BY <1>6, <1>7, <1>8, <1>9, <1>10, <1>11 DEF Handle

LEMMA NextChanges ==
    ASSUME TypeOK, Registry, [Next]_vars
    PROVE  Change
<1>1. ASSUME NEW c \in Client, Register(c) PROVE Change
  <2>1. CASE closed
    <3>1. Same
      BY <1>1, <2>1 DEF Register, Goto, Same, RunningKept, Running, TypeOK
    <3> QED  BY <3>1 DEF Change
  <2>2. CASE ~closed
    <3>1. Enters(c)
      BY <1>1, <2>2 DEF Register, Goto, Enters, Running, TypeOK
    <3> QED  BY <3>1 DEF Change
  <2> QED  BY <2>1, <2>2
<1>2. ASSUME NEW c \in Client, Read(c) PROVE Change
  BY <1>2, GotoKeepsRunning DEF Read, Running, Change, Same, registry
<1>3. ASSUME UNCHANGED registry, UNCHANGED handler PROVE Change
  BY <1>3 DEF Change, Same, RunningKept, Running
<1>4. ASSUME NEW c \in Client,
             RejectFrame(c) \/ Heartbeat(c) \/ PingFails(c) \/ WriteFails(c)
                \/ Hangup(c) \/ GoSilent(c) \/ Write(c)
      PROVE  Change
  BY <1>3, <1>4
  DEF RejectFrame, Heartbeat, PingFails, WriteFails, Hangup, GoSilent, Write
<1>5. CASE ServerClose
  BY <1>3, <1>5 DEF ServerClose
<1>6. CASE UNCHANGED vars
  BY <1>3, <1>6 DEF vars
<1> QED
  BY <1>1, <1>2, <1>4, <1>5, <1>6, LeaveChanges, HandleChanges DEF Next, ClientStep

LEMMA RegistryNext ==
    ASSUME TypeOK, Registry, [Next]_vars
    PROVE  Registry'
<1>1. CASE Same
  BY <1>1, RegistrySame DEF Same
<1>2. ASSUME NEW c \in Client, Enters(c) \/ Leaves(c) PROVE Registry'
  <2>1. clients' = {d \in Client : Running(d)'}
    BY <1>2 DEF Enters, Leaves, Registry
  <2>2. \A d \in Client : session[d] # None => Running(d)'
    BY <1>2 DEF Enters, Leaves, Registry
  <2>3. UNCHANGED <<sessions, sharer, viewers, issued, session, id>>
    BY <1>2 DEF Enters, Leaves
  <2> QED  BY <2>1, <2>2, <2>3 DEF Registry, Viewing
<1>3. ASSUME NEW s \in sessions, Ends(s) PROVE Registry'
  BY <1>3, RegistryEnd DEF Ends
<1>4. ASSUME NEW s \in SessionId, NEW p \in PeerId, NEW v \in Client, Removes(s, p, v)
      PROVE  Registry'
  BY <1>4, RegistryRemove DEF Removes
<1>5. ASSUME NEW s \in sessions, NEW p \in PeerId \ issued, NEW c \in Client, Adds(s, p, c)
      PROVE  Registry'
  BY <1>5, RegistryAdd DEF Adds
<1>6. ASSUME NEW s \in SessionId, NEW c \in Client, Starts(s, c) PROVE Registry'
  BY <1>6, RegistryStart DEF Starts
<1> QED  BY <1>1, <1>2, <1>3, <1>4, <1>5, <1>6, NextChanges DEF Change

RegInv == Typed /\ Registry

LEMMA RegInvNext == RegInv /\ [Next]_vars => RegInv'
  BY TypedNext, RegistryNext DEF RegInv, Typed

LEMMA RegInvHolds == Spec => []RegInv
<1>1. Init => RegInv
  <2>1. Init => Registry
    BY DEF Init, Registry, Running, Viewing
  <2> QED  BY <2>1, TypedInit DEF RegInv
<1> QED  BY <1>1, RegInvNext, PTL DEF Spec

(* The two directions of the registry agree at every moment: sessions,       *)
(* viewers maps, client.session and client.id can never contradict each      *)
(* other, whatever requests, failures and shutdowns interleave.              *)
THEOREM RegistryHolds == Spec => []Registry
<1>1. RegInv => Registry
  BY DEF RegInv
<1> QED  BY <1>1, RegInvHolds, PTL

(* A handler that has returned leaves nothing of its client in the registry. *)
THEOREM ReapedHolds == Spec => []Reaped
<1>1. RegInv => Reaped
  <2> SUFFICES ASSUME RegInv, NEW c \in Client, handler[c] = "done"
      PROVE  /\ c \notin clients
             /\ session[c] = None
             /\ \A s \in sessions : sharer[s] # c
             /\ \A s \in SessionId : c \notin Members(s)
    BY DEF Reaped
  <2>1. ~Running(c) /\ session[c] = None /\ c \notin clients
    BY DEF RegInv, Registry, Running
  <2>2. \A s \in sessions : sharer[s] # c
    BY <2>1, NoneAssumption DEF RegInv, Typed, TypeOK, Registry
  <2>3. \A s \in SessionId : c \notin Members(s)
    BY <2>1 DEF RegInv, Registry, Members, Taken, Viewing
  <2> QED  BY <2>1, <2>2, <2>3
<1> QED  BY <1>1, RegInvHolds, PTL

-----------------------------------------------------------------------------
(* Who is in a session changes by one client at a time. *)

LEMMA CapacityNext ==
    ASSUME RegInv, Capacity, [Next]_vars
    PROVE  Capacity'
<1> USE DEF RegInv, Typed
<1>1. ASSUME \A s \in SessionId : Taken(s)' \subseteq Taken(s)
      PROVE  Capacity'
  <2> SUFFICES ASSUME NEW s \in SessionId PROVE Cardinality(Taken(s)') <= MaxViewers
    BY DEF Capacity, Count
  <2>1. /\ IsFiniteSet(Taken(s)) /\ Cardinality(Taken(s)) <= MaxViewers
        /\ Taken(s)' \in SUBSET Taken(s)
    BY <1>1 DEF Capacity, Count, FiniteViewers
  <2>2. /\ Cardinality(Taken(s)') <= Cardinality(Taken(s))
        /\ Cardinality(Taken(s)') \in Nat /\ Cardinality(Taken(s)) \in Nat
    BY <2>1, FS_Subset, FS_CardinalityType
  <2> QED  BY <2>1, <2>2, LimitsAssumption
<1>2. CASE Same
  BY <1>1, <1>2, TakenSame DEF Same, registry
<1>3. ASSUME NEW c \in Client, Enters(c) \/ Leaves(c) PROVE Capacity'
  BY <1>1, <1>3, TakenSame DEF Enters, Leaves
<1>4. ASSUME NEW s \in sessions, Ends(s) PROVE Capacity'
  <2>1. s \in SessionId /\ viewers' = [viewers EXCEPT ![s] = [p \in PeerId |-> None]]
    BY <1>4 DEF Ends, EndSession, TypeOK
  <2> QED  BY <1>1, <2>1, TakenClear
<1>5. ASSUME NEW s \in SessionId, NEW p \in PeerId, NEW v \in Client, Removes(s, p, v)
      PROVE  Capacity'
  BY <1>1, <1>5, TakenRemove DEF Removes
<1>6. ASSUME NEW s \in sessions, NEW p \in PeerId \ issued, NEW c \in Client, Adds(s, p, c)
      PROVE  Capacity'
  <2>1. s \in SessionId
    BY DEF TypeOK
  <2>2. /\ Taken(s)' = Taken(s) \cup {p}
        /\ \A t \in SessionId \ {s} : Taken(t)' = Taken(t)
    BY <1>6, <2>1, TakenAdd DEF Adds
  <2>3. /\ Cardinality(Taken(s)') <= Cardinality(Taken(s)) + 1
        /\ Cardinality(Taken(s)') \in Nat /\ Cardinality(Taken(s)) \in Nat
    <3>1. IsFiniteSet(Taken(s)) /\ Cardinality(Taken(s)) \in Nat
      BY <2>1, FS_CardinalityType DEF FiniteViewers
    <3>2. Cardinality(Taken(s) \cup {p}) =
             IF p \in Taken(s) THEN Cardinality(Taken(s)) ELSE Cardinality(Taken(s)) + 1
      BY <3>1, FS_AddElement
    <3>3. /\ Cardinality(Taken(s) \cup {p}) \in Nat
          /\ Cardinality(Taken(s) \cup {p}) <= Cardinality(Taken(s)) + 1
      BY <3>1, <3>2
    <3> QED  BY <2>2, <3>1, <3>3
  <2>4. ~(Cardinality(Taken(s)) >= MaxViewers)
    BY <1>6 DEF Adds, Count
  <2>5. Cardinality(Taken(s)') <= MaxViewers
    BY <2>3, <2>4, LimitsAssumption
  <2> QED  BY <2>2, <2>5 DEF Capacity, Count
<1>7. ASSUME NEW s \in SessionId, NEW c \in Client, Starts(s, c) PROVE Capacity'
  BY <1>1, <1>7, TakenSame DEF Starts
<1> QED  BY <1>2, <1>3, <1>4, <1>5, <1>6, <1>7, NextChanges DEF Change

(* No session ever has more than MaxViewers viewers. *)
THEOREM CapacityHolds == Spec => []Capacity
<1>1. Init => Capacity
  <2>1. Init => \A s \in SessionId : Taken(s) = {}
    BY DEF Init, Taken
  <2> QED  BY <2>1, FS_EmptySet, LimitsAssumption DEF Capacity, Count
<1>2. RegInv /\ Capacity /\ [Next]_vars => Capacity'
  BY CapacityNext
<1> QED  BY <1>1, <1>2, RegInvHolds, PTL DEF Spec

(* No connection can end another's session or take another's place away,     *)
(* unless it is the sharer of that very session.                             *)
THEOREM AuthorityHolds == Spec => MembershipAuthority
<1>1. RegInv /\ [Next]_vars => Authority
  <2> SUFFICES ASSUME RegInv, [Next]_vars PROVE Authority
    OBVIOUS
  <2> USE DEF RegInv, Typed
  <2>1. CASE Same
    BY <2>1 DEF Same, registry, Authority
  <2>2. ASSUME NEW c \in Client, Enters(c) \/ Leaves(c) PROVE Authority
    BY <2>2 DEF Enters, Leaves, Authority
  <2>3. ASSUME NEW s \in sessions, Ends(s) PROVE Authority
    BY <2>3 DEF Ends, EndSession, Authority, TypeOK
  <2>4. ASSUME NEW s \in SessionId, NEW p \in PeerId, NEW v \in Client, Removes(s, p, v)
        PROVE  Authority
    BY <2>4 DEF Removes, Authority, TypeOK
  <2>5. ASSUME NEW s \in sessions, NEW p \in PeerId \ issued, NEW c \in Client,
               Adds(s, p, c)
        PROVE  Authority
    BY <2>5 DEF Adds, Authority, TypeOK, Registry
  <2>6. ASSUME NEW s \in SessionId, NEW c \in Client, Starts(s, c) PROVE Authority
    BY <2>6 DEF Starts, Authority
  <2> QED  BY <2>1, <2>2, <2>3, <2>4, <2>5, <2>6, NextChanges DEF Change
<1> QED  BY <1>1, RegInvHolds, PTL DEF Spec, MembershipAuthority

-----------------------------------------------------------------------------
(* Shutdown. *)

(* No step reopens a connection, and none but Close itself and a handshake   *)
(* that found the server still running touches what Close relies on.         *)
LEMMA ShutdownNext ==
    ASSUME TypeOK, ShutdownClosesAll, [Next]_vars
    PROVE  ShutdownClosesAll'
<1>1. ASSUME UNCHANGED closed, clients' \subseteq clients,
             \A c \in Client : conn[c] = "closed" => conn'[c] = "closed"
      PROVE  ShutdownClosesAll'
  BY <1>1 DEF ShutdownClosesAll, TypeOK
<1>2. ASSUME NEW c \in Client, Register(c) PROVE ShutdownClosesAll'
  <2>1. CASE closed
    BY <1>1, <1>2, <2>1, DropTyped DEF Register, registry
  <2>2. CASE ~closed
    BY <1>2, <2>2 DEF Register, ShutdownClosesAll
  <2> QED  BY <2>1, <2>2
<1>3. ASSUME NEW c \in Client, NEW batch, \A d \in DOMAIN batch : batch[d] \in Message,
             Emit(batch), UNCHANGED <<closed, clients>>
      PROVE  ShutdownClosesAll'
  BY <1>1, <1>3, EmitTyped
<1>4. ASSUME UNCHANGED <<closed, clients, conn>> PROVE ShutdownClosesAll'
  BY <1>1, <1>4
<1>5. ASSUME NEW c \in Client, Leave(c) PROVE ShutdownClosesAll'
  BY <1>1, <1>5 DEF Leave, Emit, EndSession, TypeOK
<1>6. ASSUME NEW c \in Client, Handle(c) PROVE ShutdownClosesAll'
  <2>1. \A d \in Client : conn[d] = "closed" => conn'[d] = "closed"
    BY <1>6 DEF Handle, DisconnectPeer, Stop, EndSession, Join, Start, Relay, Unknown,
                Refuse, Ignore, Emit, TypeOK
  <2>2. UNCHANGED <<closed, clients>>
    BY <1>6 DEF Handle, Request, DisconnectPeer, Stop, Join, Start, Relay, Unknown
  <2> QED  BY <1>1, <2>1, <2>2
<1>7. ASSUME NEW c \in Client, RejectFrame(c) \/ Heartbeat(c) PROVE ShutdownClosesAll'
  <2>1. Rejected \in Message /\ Msg("heartbeat", None, 0) \in Message
    BY MsgTyped
  <2> QED  BY <1>3, <1>7, <2>1 DEF RejectFrame, Heartbeat, To, registry
<1>8. ASSUME NEW c \in Client,
             Read(c) \/ PingFails(c) \/ WriteFails(c) \/ Hangup(c) \/ GoSilent(c)
                \/ Write(c)
      PROVE  ShutdownClosesAll'
  BY <1>1, <1>8
  DEF Read, PingFails, WriteFails, Hangup, GoSilent, Write, Drop, registry, TypeOK
<1>9. CASE ServerClose
  BY <1>9, DropTyped DEF ServerClose, ShutdownClosesAll, registry, TypeOK
<1>10. CASE UNCHANGED vars
  BY <1>4, <1>10 DEF vars, registry
<1> QED  BY <1>2, <1>5, <1>6, <1>7, <1>8, <1>9, <1>10 DEF Next, ClientStep

(* Once Server.Close has run, every registered connection is closed, those   *)
(* that were in their handshake at the time included.                        *)
THEOREM ShutdownHolds == Spec => []ShutdownClosesAll
<1>1. Init => ShutdownClosesAll
  BY DEF Init, ShutdownClosesAll
<1>2. TypeOK /\ ShutdownClosesAll /\ [Next]_vars => ShutdownClosesAll'
  BY ShutdownNext
<1> QED  BY <1>1, <1>2, TypeOKHolds, PTL DEF Spec

-----------------------------------------------------------------------------
(* The server implements ShareAccess. *)

(* A viewers map has as many members as keys: no client holds two keys. *)
LEMMA MembersBound ==
    ASSUME RegInv, NEW s \in SessionId
    PROVE  /\ IsFiniteSet(Members(s))
           /\ Cardinality(Members(s)) <= Count(s)
           /\ Cardinality(Members(s)) \in Nat /\ Count(s) \in Nat
<1> DEFINE f == [p \in Taken(s) |-> viewers[s][p]]
<1>1. f \in Surjection(Taken(s), Members(s))
  BY DEF Members, Surjection
<1>2. IsFiniteSet(Taken(s))
  BY DEF RegInv, Typed, FiniteViewers
<1> HIDE DEF f
<1>3. /\ IsFiniteSet(Members(s))
      /\ Cardinality(Members(s)) <= Cardinality(Taken(s))
  BY <1>1, <1>2, FS_Surjection
<1> QED  BY <1>2, <1>3, FS_CardinalityType DEF Count

(* Membership, said of the registry. *)
LEMMA MemberIff ==
    ASSUME RegInv, NEW s \in SessionId, NEW c
    PROVE  c \in Members(s) <=>
             \E p \in PeerId : viewers[s][p] = c /\ c # None
  BY DEF Members, Taken

(* A client with no session is in no share. *)
LEMMA FreeIff ==
    ASSUME RegInv, NEW c \in Client, session[c] = None
    PROVE  /\ \A s \in sessions : sharer[s] # c
           /\ \A s \in SessionId : c \notin Members(s)
  BY NoneAssumption DEF RegInv, Typed, TypeOK, Registry, Members, Taken, Viewing

Membership == [s \in SessionId |-> Members(s)]

LEMMA RemoveMember ==
    ASSUME RegInv, NEW s \in SessionId, NEW p \in PeerId, NEW v \in Client,
           Removes(s, p, v)
    PROVE  v \in Members(s) /\ Membership' = [Membership EXCEPT ![s] = @ \ {v}]
<1>1. v \in Members(s)
  BY NoneAssumption DEF Removes, Members, Taken
<1>2. \A t \in SessionId, q \in PeerId :
         viewers'[t][q] = IF t = s /\ q = p THEN None ELSE viewers[t][q]
  BY DEF Removes, RegInv, Typed, TypeOK
<1>3. ASSUME NEW t \in SessionId PROVE Members(t)' = IF t = s THEN Members(s) \ {v} ELSE Members(t)
  <2>1. CASE t = s
    <3>1. \A q \in PeerId : viewers[s][q] = v => q = p
      BY NoneAssumption DEF RegInv, Registry, Removes
    <3> QED  BY <1>2, <2>1, <3>1, NoneAssumption DEF Members, Taken, Removes
  <2>2. CASE t # s
    BY <1>2, <2>2 DEF Members, Taken
  <2> QED  BY <2>1, <2>2
<1> QED  BY <1>1, <1>3 DEF Membership

LEMMA AddMember ==
    ASSUME RegInv, NEW s \in sessions, NEW p \in PeerId \ issued, NEW c \in Client,
           Adds(s, p, c)
    PROVE  Membership' = [Membership EXCEPT ![s] = @ \cup {c}]
<1>1. s \in SessionId /\ viewers[s][p] = None /\ c # None
  BY NoneAssumption DEF RegInv, Typed, TypeOK, Registry
<1>2. \A t \in SessionId, q \in PeerId :
         viewers'[t][q] = IF t = s /\ q = p THEN c ELSE viewers[t][q]
  BY <1>1 DEF Adds, RegInv, Typed, TypeOK
<1>3. ASSUME NEW t \in SessionId PROVE Members(t)' = IF t = s THEN Members(s) \cup {c} ELSE Members(t)
  BY <1>1, <1>2 DEF Members, Taken
<1> QED  BY <1>3 DEF Membership

LEMMA EndMembers ==
    ASSUME RegInv, NEW s \in sessions, Ends(s)
    PROVE  Membership' = [Membership EXCEPT ![s] = {}]
<1>1. s \in SessionId
  BY DEF RegInv, Typed, TypeOK
<1>2. \A t \in SessionId : Members(t)' = IF t = s THEN {} ELSE Members(t)
  BY <1>1 DEF Ends, EndSession, Members, Taken, RegInv, Typed, TypeOK
<1> QED  BY <1>2 DEF Membership

LEMMA SameMembers ==
    ASSUME UNCHANGED viewers
    PROVE  Membership' = Membership
  BY DEF Membership, Members, Taken

LEMMA AccessStep ==
    ASSUME RegInv, [Next]_vars
    PROVE  [Access!AccessNext]_(Access!accessVars)
<1> USE DEF Access!AccessNext, Access!accessVars
<1>0. TypeOK /\ Registry
  BY DEF RegInv, Typed
<1>1. CASE Same
  <2>1. Membership' = Membership /\ UNCHANGED <<sessions, sharer>>
    BY <1>1, SameMembers DEF Same, registry
  <2> QED  BY <2>1 DEF Membership
<1>2. ASSUME NEW c \in Client, Enters(c) \/ Leaves(c)
      PROVE  [Access!AccessNext]_(Access!accessVars)
  <2>1. Membership' = Membership /\ UNCHANGED <<sessions, sharer>>
    BY <1>2, SameMembers DEF Enters, Leaves
  <2> QED  BY <2>1 DEF Membership
<1>3. ASSUME NEW s \in sessions, Ends(s)
      PROVE  [Access!AccessNext]_(Access!accessVars)
  <2>1. s \in SessionId /\ sessions' = sessions \ {s} /\ UNCHANGED sharer
    BY <1>0, <1>3 DEF Ends, EndSession, TypeOK
  <2>2. Membership' = [Membership EXCEPT ![s] = {}]
    BY <1>3, EndMembers
  <2>3. Access!End(s)
    BY <2>1, <2>2 DEF Access!End, Membership
  <2> QED  BY <2>1, <2>3
<1>4. ASSUME NEW s \in SessionId, NEW p \in PeerId, NEW v \in Client, Removes(s, p, v)
      PROVE  [Access!AccessNext]_(Access!accessVars)
  <2>1. v \in Members(s) /\ Membership' = [Membership EXCEPT ![s] = @ \ {v}]
    BY <1>4, RemoveMember
  <2>2. Access!Depart(v, s)
    BY <1>4, <2>1 DEF Access!Depart, Membership, Removes
  <2> QED  BY <2>2
<1>5. ASSUME NEW s \in sessions, NEW p \in PeerId \ issued, NEW c \in Client, Adds(s, p, c)
      PROVE  [Access!AccessNext]_(Access!accessVars)
  <2>1. s \in SessionId
    BY <1>0 DEF TypeOK
  <2>2. Membership' = [Membership EXCEPT ![s] = @ \cup {c}]
    BY <1>5, AddMember
  <2>3. /\ \A t \in sessions : sharer[t] # c
        /\ \A t \in SessionId : c \notin Members(t)
    BY <1>5, FreeIff DEF Adds
  <2>4. Cardinality(Members(s)) < MaxViewers
    <3>1. ~(Count(s) >= MaxViewers)
      BY <1>5 DEF Adds
    <3> QED  BY <2>1, <3>1, MembersBound, LimitsAssumption
  <2>5. Access!Admit(c, s)
    <3>1. UNCHANGED <<sessions, sharer>>
      BY <1>5 DEF Adds
    <3>2. Access!Free(c)
      BY <2>3 DEF Access!Free
    <3>3. Membership[s] = Members(s)
      BY <2>1 DEF Membership
    <3>4. Cardinality(Membership[s]) < MaxViewers
      BY <2>4, <3>3
    <3>5. Access!Admit(c, s) <=>
            /\ s \in sessions /\ Access!Free(c) /\ Cardinality(Membership[s]) < MaxViewers
            /\ Membership' = [Membership EXCEPT ![s] = @ \cup {c}]
            /\ UNCHANGED <<sessions, sharer>>
      \* the instance brings a copy of Cardinality
      BY Zenon DEF Access!Admit, Membership, Cardinality, Access!Cardinality
    <3> QED
      BY <2>2, <3>1, <3>2, <3>4, <3>5
  <2> QED  BY <2>1, <2>5
<1>6. ASSUME NEW s \in SessionId, NEW c \in Client, Starts(s, c)
      PROVE  [Access!AccessNext]_(Access!accessVars)
  <2>1. Membership' = Membership
    BY <1>6, SameMembers DEF Starts
  <2>2. /\ \A t \in sessions : sharer[t] # c
        /\ \A t \in SessionId : c \notin Members(t)
    BY <1>6, FreeIff DEF Starts
  <2>3. Access!Begin(c, s)
    BY <1>6, <2>1, <2>2 DEF Access!Begin, Access!Free, Membership, Starts
  <2> QED  BY <2>3
<1> QED  BY <1>0, <1>1, <1>2, <1>3, <1>4, <1>5, <1>6, NextChanges DEF Change

(* Whatever the connections do, who shares and who watches changes only by   *)
(* the four steps of ShareAccess: a free client begins a share or is         *)
(* admitted below the limit, one member departs, or a share ends for all.    *)
THEOREM AccessImplemented == Spec => ImplementsAccess
<1>1. Init => Access!AccessInit
  BY DEF Init, Access!AccessInit, Members, Taken
<1>2. RegInv /\ [Next]_vars => [Access!AccessNext]_(Access!accessVars)
  BY AccessStep
<1> QED  BY <1>1, <1>2, RegInvHolds, PTL DEF Spec, ImplementsAccess, Access!AccessSpec

-----------------------------------------------------------------------------
(* What is told on a connection.  Heard is defined by the equation Unfolds.  *)
(* That it has one solution would need induction on the length of the queue; *)
(* the server provides it: queues grow by one message at a time, so that     *)
(* Determined is an invariant like any other.                                *)
Unfolds(f, v, q) ==
    f = [n \in 0 .. Len(q) |-> IF n = 0 THEN v ELSE Hear(f[n - 1], q[n])]

Determined(v, q) ==
    \E f : Unfolds(f, v, q) /\ \A g : Unfolds(g, v, q) => g = f

LEMMA HeardUnfolds ==
    ASSUME NEW v, NEW q, Determined(v, q)
    PROVE  Unfolds(Heard(v, q), v, q) /\ \A g : Unfolds(g, v, q) => g = Heard(v, q)
<1>1. Heard(v, q) = CHOOSE f : Unfolds(f, v, q)
  BY DEF Heard, Unfolds
<1>2. \E f : Unfolds(f, v, q)
  BY Zenon DEF Determined
<1>3. Unfolds(Heard(v, q), v, q)
  BY <1>1, <1>2, Zenon
<1> QED  BY <1>3, Zenon DEF Determined

LEMMA HeardNothing ==
    ASSUME NEW v
    PROVE  Determined(v, <<>>) /\ Heard(v, <<>>) = [n \in {0} |-> v]
<1> DEFINE f == [n \in {0} |-> v]
<1>1. Len(<<>>) = 0 /\ 0 .. 0 = {0}
  OBVIOUS
<1>2. Unfolds(f, v, <<>>) /\ \A g : Unfolds(g, v, <<>>) => g = f
  BY <1>1 DEF Unfolds
<1>3. Determined(v, <<>>)
  <2> HIDE DEF f
  <2> QED  BY <1>2, Zenon DEF Determined
<1>4. Unfolds(Heard(v, <<>>), v, <<>>)
  BY <1>3, HeardUnfolds, Zenon
<1> QED  BY <1>2, <1>3, <1>4, Zenon

(* One message more at the end: the views until then stay. *)
LEMMA HeardMore ==
    ASSUME NEW v, NEW q \in Seq(Message), NEW m \in Message, Determined(v, q)
    PROVE  /\ Determined(v, Append(q, m))
           /\ \A n \in 0 .. Len(q) : Heard(v, Append(q, m))[n] = Heard(v, q)[n]
           /\ Heard(v, Append(q, m))[Len(q) + 1] = Hear(Heard(v, q)[Len(q)], m)
           /\ DOMAIN Heard(v, Append(q, m)) = 0 .. Len(q) + 1
<1> DEFINE r == Append(q, m)
           k == Len(q)
           old == Heard(v, q)
           f == [n \in 0 .. k + 1 |-> IF n = k + 1 THEN Hear(old[k], m) ELSE old[n]]
<1>1. /\ k \in Nat /\ Len(r) = k + 1
      /\ r[k + 1] = m /\ \A n \in 1 .. k : r[n] = q[n]
  OBVIOUS
<1>2. /\ old = [n \in 0 .. k |-> IF n = 0 THEN v ELSE Hear(old[n - 1], q[n])]
      /\ \A g : Unfolds(g, v, q) => g = old
  BY HeardUnfolds, Zenon DEF Unfolds
<1>3. \A n \in 0 .. k : old[n] = IF n = 0 THEN v ELSE Hear(old[n - 1], q[n])
  BY <1>2, Zenon
<1> HIDE DEF old, k, r
<1>4. f = [n \in 0 .. k + 1 |-> IF n = 0 THEN v ELSE Hear(f[n - 1], r[n])]
  <2> SUFFICES ASSUME NEW n \in 0 .. k + 1
               PROVE  f[n] = IF n = 0 THEN v ELSE Hear(f[n - 1], r[n])
    OBVIOUS
  <2>1. CASE n = 0
    BY <1>1, <1>3, <2>1
  <2>2. CASE n = k + 1
    <3>1. f[n - 1] = old[k] /\ n # 0 /\ r[n] = m
      BY <1>1, <2>2
    <3> QED  BY <1>1, <2>2, <3>1
  <2>3. CASE n \in 1 .. k
    <3>1. f[n - 1] = old[n - 1] /\ f[n] = old[n] /\ n # 0 /\ r[n] = q[n]
      BY <1>1, <2>3
    <3>2. old[n] = Hear(old[n - 1], q[n])
      BY <1>1, <1>3, <2>3
    <3> HIDE DEF f
    <3> QED  BY <3>1, <3>2
  <2> QED  BY <1>1, <2>1, <2>2, <2>3
<1>5. ASSUME NEW g, g = [n \in 0 .. k + 1 |-> IF n = 0 THEN v ELSE Hear(g[n - 1], r[n])]
      PROVE  g = f
  <2> DEFINE h == [n \in 0 .. k |-> g[n]]
  <2>1. \A n \in 0 .. k + 1 : g[n] = IF n = 0 THEN v ELSE Hear(g[n - 1], r[n])
    BY <1>5, Zenon
  <2>2. \A n \in 0 .. k : h[n] = g[n]
    OBVIOUS
  <2>3. h = [n \in 0 .. k |-> IF n = 0 THEN v ELSE Hear(h[n - 1], q[n])]
    <3> SUFFICES ASSUME NEW n \in 0 .. k
                 PROVE  h[n] = IF n = 0 THEN v ELSE Hear(h[n - 1], q[n])
      OBVIOUS
    <3>1. CASE n = 0
      BY <1>1, <2>1, <2>2, <3>1
    <3>2. CASE n # 0
      <4>1. n - 1 \in 0 .. k /\ n \in 0 .. k + 1 /\ r[n] = q[n]
        BY <1>1, <3>2
      <4>2. h[n] = g[n] /\ h[n - 1] = g[n - 1]
        BY <2>2, <4>1
      <4> HIDE DEF h
      <4> QED  BY <2>1, <3>2, <4>1, <4>2
    <3> QED  BY <3>1, <3>2
  <2> HIDE DEF h
  <2>4. h = old
    BY <1>2, <2>3, Zenon DEF Unfolds, k
  <2>5. \A n \in 0 .. k : g[n] = old[n]
    BY <2>2, <2>4
  <2>6. g[k + 1] = Hear(old[k], m)
    BY <1>1, <2>1, <2>5
  <2>7. \A n \in 0 .. k + 1 : g[n] = f[n]
    BY <1>1, <2>5, <2>6
  <2>8. g = [n \in 0 .. k + 1 |-> g[n]]
    BY <1>5
  <2> QED  BY <2>7, <2>8
<1>6. Unfolds(f, v, r) /\ \A g : Unfolds(g, v, r) => g = f
  <2> HIDE DEF f
  <2> QED  BY <1>1, <1>4, <1>5 DEF Unfolds
<1>7. Determined(v, r)
  <2> HIDE DEF f
  <2> QED  BY <1>6, Zenon DEF Determined
<1>8. Heard(v, r) = f
  <2> HIDE DEF f
  <2> QED  BY <1>6, <1>7, HeardUnfolds, Zenon
<1>9. /\ \A n \in 0 .. k : f[n] = old[n]
      /\ f[k + 1] = Hear(old[k], m)
      /\ DOMAIN f = 0 .. k + 1
  BY <1>1
<1> QED  BY <1>7, <1>8, <1>9 DEF r, k, old

(* The first message is received: the same views, without the first. *)
LEMMA HeardFirst ==
    ASSUME NEW v, NEW q \in Seq(Message), q # <<>>, Determined(v, q)
    PROVE  /\ Determined(Hear(v, Head(q)), Tail(q))
           /\ \A n \in 0 .. Len(q) - 1 :
                 Heard(Hear(v, Head(q)), Tail(q))[n] = Heard(v, q)[n + 1]
           /\ DOMAIN Heard(Hear(v, Head(q)), Tail(q)) = 0 .. Len(q) - 1
<1> DEFINE r == Tail(q)
           k == Len(q) - 1
           w == Hear(v, Head(q))
           old == Heard(v, q)
           f == [n \in 0 .. k |-> old[n + 1]]
<1>1. /\ k \in Nat /\ Len(r) = k /\ Len(q) = k + 1
      /\ Head(q) = q[1] /\ \A n \in 1 .. k : r[n] = q[n + 1]
  OBVIOUS
<1>2. /\ old = [n \in 0 .. k + 1 |-> IF n = 0 THEN v ELSE Hear(old[n - 1], q[n])]
      /\ \A g : Unfolds(g, v, q) => g = old
  BY <1>1, HeardUnfolds, Zenon DEF Unfolds
<1>3. \A n \in 0 .. k + 1 : old[n] = IF n = 0 THEN v ELSE Hear(old[n - 1], q[n])
  BY <1>2, Zenon
<1>w. w = Hear(v, q[1])
  BY <1>1
<1> HIDE DEF old, k, r, w
<1>4. f = [n \in 0 .. k |-> IF n = 0 THEN w ELSE Hear(f[n - 1], r[n])]
  <2> SUFFICES ASSUME NEW n \in 0 .. k
               PROVE  f[n] = IF n = 0 THEN w ELSE Hear(f[n - 1], r[n])
    OBVIOUS
  <2>1. n + 1 \in 0 .. k + 1 /\ n + 1 # 0 /\ (n + 1) - 1 = n
    BY <1>1
  <2>2. f[n] = Hear(old[n], q[n + 1])
    BY <1>3, <2>1
  <2>3. CASE n = 0
    <3>1. old[0] = v
      BY <1>1, <1>3
    <3> QED  BY <1>w, <2>2, <2>3, <3>1
  <2>4. CASE n # 0
    <3>1. f[n - 1] = old[n] /\ r[n] = q[n + 1]
      BY <1>1, <2>4
    <3> HIDE DEF f
    <3> QED  BY <2>2, <2>4, <3>1
  <2> QED  BY <2>3, <2>4
<1>5. ASSUME NEW g, g = [n \in 0 .. k |-> IF n = 0 THEN w ELSE Hear(g[n - 1], r[n])]
      PROVE  g = f
  <2> DEFINE h == [n \in 0 .. k + 1 |-> IF n = 0 THEN v ELSE g[n - 1]]
  <2>1. \A n \in 0 .. k : g[n] = IF n = 0 THEN w ELSE Hear(g[n - 1], r[n])
    BY <1>5, Zenon
  <2>2. h[0] = v /\ \A n \in 1 .. k + 1 : h[n] = g[n - 1]
    BY <1>1
  <2>3. h = [n \in 0 .. k + 1 |-> IF n = 0 THEN v ELSE Hear(h[n - 1], q[n])]
    <3> SUFFICES ASSUME NEW n \in 0 .. k + 1
                 PROVE  h[n] = IF n = 0 THEN v ELSE Hear(h[n - 1], q[n])
      OBVIOUS
    <3>1. CASE n = 0
      BY <2>2, <3>1
    <3>2. CASE n = 1
      <4>1. h[1] = g[0] /\ g[0] = w /\ 1 - 1 = 0
        BY <1>1, <2>1, <2>2
      <4> HIDE DEF h
      <4> QED  BY <1>w, <2>2, <3>2, <4>1
    <3>3. CASE n \in 2 .. k + 1
      <4>1. /\ n - 1 \in 0 .. k /\ n - 1 # 0 /\ n # 0 /\ n \in 1 .. k + 1
            /\ r[n - 1] = q[n] /\ n - 1 \in 1 .. k + 1
        BY <1>1, <3>3
      <4>2. h[n] = g[n - 1] /\ h[n - 1] = g[(n - 1) - 1]
        BY <2>2, <4>1
      <4>3. g[n - 1] = Hear(g[(n - 1) - 1], r[n - 1])
        BY <2>1, <4>1
      <4> HIDE DEF h
      <4> QED  BY <4>1, <4>2, <4>3
    <3> QED  BY <1>1, <3>1, <3>2, <3>3
  <2> HIDE DEF h
  <2>4. h = old
    BY <1>1, <1>2, <2>3, Zenon DEF Unfolds
  <2>5. \A n \in 0 .. k : n + 1 \in 1 .. k + 1 /\ (n + 1) - 1 = n
    BY <1>1
  <2>6. \A n \in 0 .. k : g[n] = old[n + 1]
    BY <2>2, <2>4, <2>5
  <2>7. g = [n \in 0 .. k |-> g[n]]
    BY <1>5
  <2> QED  BY <2>6, <2>7
<1>6. Unfolds(f, w, r) /\ \A g : Unfolds(g, w, r) => g = f
  <2> HIDE DEF f
  <2> QED  BY <1>1, <1>4, <1>5 DEF Unfolds
<1>7. Determined(w, r)
  <2> HIDE DEF f
  <2> QED  BY <1>6, Zenon DEF Determined
<1>8. Heard(w, r) = f
  <2> HIDE DEF f
  <2> QED  BY <1>6, <1>7, HeardUnfolds, Zenon
<1>9. /\ \A n \in 0 .. k : f[n] = old[n + 1]
      /\ DOMAIN f = 0 .. k
  BY <1>1
<1> QED  BY <1>7, <1>8, <1>9 DEF r, k, old, w

-----------------------------------------------------------------------------
(* A far end with view v and queue q: the queue brings it to the view a, it  *)
(* counts right all the way, and every relayed message comes when it is due. *)
Sound(v, q, a) ==
    /\ Determined(v, q)
    /\ v \in View
    /\ \A n \in 0 .. Len(q) : Heard(v, q)[n] \in View /\ Counted(Heard(v, q)[n])
    /\ Matches(Heard(v, q)[Len(q)], a)
    /\ \A i \in 1 .. Len(q) : q[i].type \in RelayType => Due(Heard(v, q)[i - 1], q[i])

(* The message m is the one to send when a place changes from a to b. *)
Fits(a, m, b) ==
    \A v \in View : Matches(v, a) /\ Counted(v) =>
        /\ Hear(v, m) \in View /\ Counted(Hear(v, m)) /\ Matches(Hear(v, m), b)
        /\ m.type \in RelayType => Due(v, m)

LEMMA SoundNothing ==
    ASSUME NEW v \in View, Counted(v), NEW a, Matches(v, a)
    PROVE  Sound(v, <<>>, a)
<1>1. Determined(v, <<>>) /\ Heard(v, <<>>) = [n \in {0} |-> v]
  BY HeardNothing
<1>2. Len(<<>>) = 0 /\ 0 .. 0 = {0} /\ 1 .. 0 = {}
  OBVIOUS
<1>3. Heard(v, <<>>)[0] = v
  BY <1>1
<1> QED  BY <1>1, <1>2, <1>3 DEF Sound

LEMMA SoundMore ==
    ASSUME NEW v, NEW q \in Seq(Message), NEW m \in Message, NEW a, NEW b,
           Sound(v, q, a), Fits(a, m, b)
    PROVE  Sound(v, Append(q, m), b)
<1> DEFINE r == Append(q, m)
           k == Len(q)
           old == Heard(v, q)
           new == Heard(v, r)
<1>1. /\ k \in Nat /\ Len(r) = k + 1
      /\ r[k + 1] = m /\ \A n \in 1 .. k : r[n] = q[n]
  OBVIOUS
<1>2. /\ Determined(v, r)
      /\ \A n \in 0 .. k : new[n] = old[n]
      /\ new[k + 1] = Hear(old[k], m)
  BY HeardMore DEF Sound
<1>3. /\ v \in View
      /\ \A n \in 0 .. k : old[n] \in View /\ Counted(old[n])
      /\ Matches(old[k], a)
      /\ \A i \in 1 .. k : q[i].type \in RelayType => Due(old[i - 1], q[i])
  BY DEF Sound
<1> HIDE DEF r, k, old, new
<1>4. /\ new[k + 1] \in View /\ Counted(new[k + 1]) /\ Matches(new[k + 1], b)
      /\ m.type \in RelayType => Due(old[k], m)
  <2>1. old[k] \in View /\ Counted(old[k]) /\ Matches(old[k], a)
    BY <1>1, <1>3
  <2> QED  BY <1>2, <2>1 DEF Fits
<1>5. \A n \in 0 .. k + 1 : new[n] \in View /\ Counted(new[n])
  <2> TAKE n \in 0 .. k + 1
  <2>1. CASE n = k + 1
    BY <1>4, <2>1
  <2>2. CASE n # k + 1
    <3>1. n \in 0 .. k
      BY <1>1, <2>2
    <3> QED  BY <1>2, <1>3, <3>1
  <2> QED  BY <2>1, <2>2
<1>6. \A i \in 1 .. k + 1 : r[i].type \in RelayType => Due(new[i - 1], r[i])
  <2> TAKE i \in 1 .. k + 1
  <2>1. CASE i = k + 1
    <3>1. i - 1 = k /\ new[k] = old[k] /\ r[i] = m
      BY <1>1, <1>2, <2>1
    <3> QED  BY <1>4, <3>1
  <2>2. CASE i # k + 1
    <3>1. i \in 1 .. k /\ i - 1 \in 0 .. k
      BY <1>1, <2>2
    <3> QED  BY <1>1, <1>2, <1>3, <3>1
  <2> QED  BY <2>1, <2>2
<1> QED  BY <1>1, <1>2, <1>3, <1>4, <1>5, <1>6 DEF Sound, r, new

LEMMA SoundFirst ==
    ASSUME NEW v, NEW q \in Seq(Message), q # <<>>, NEW a, Sound(v, q, a)
    PROVE  Sound(Hear(v, Head(q)), Tail(q), a)
<1> DEFINE r == Tail(q)
           k == Len(q) - 1
           w == Hear(v, Head(q))
           old == Heard(v, q)
           new == Heard(w, r)
<1>1. /\ k \in Nat /\ Len(r) = k /\ Len(q) = k + 1
      /\ Head(q) = q[1] /\ \A n \in 1 .. k : r[n] = q[n + 1]
  OBVIOUS
<1>2. Determined(w, r) /\ \A n \in 0 .. k : new[n] = old[n + 1]
  BY HeardFirst DEF Sound
<1>3. /\ v \in View
      /\ \A n \in 0 .. k + 1 : old[n] \in View /\ Counted(old[n])
      /\ Matches(old[k + 1], a)
      /\ \A i \in 1 .. k + 1 : q[i].type \in RelayType => Due(old[i - 1], q[i])
  BY <1>1 DEF Sound
<1>4. w = old[1]
  <2>1. old = [n \in 0 .. Len(q) |-> IF n = 0 THEN v ELSE Hear(old[n - 1], q[n])]
    BY HeardUnfolds, Zenon DEF Sound, Unfolds
  <2>2. \A n \in 0 .. Len(q) : old[n] = IF n = 0 THEN v ELSE Hear(old[n - 1], q[n])
    BY <2>1, Zenon
  <2> HIDE DEF old
  <2>3. old[0] = v /\ old[1] = Hear(old[1 - 1], q[1]) /\ 1 - 1 = 0
    BY <1>1, <2>2
  <2> QED  BY <1>1, <2>3
<1> HIDE DEF r, k, w, old, new
<1>5. \A n \in 0 .. k : n + 1 \in 0 .. k + 1
  BY <1>1
<1>6. w \in View
  <2>1. 1 \in 0 .. k + 1
    BY <1>1
  <2> QED  BY <1>3, <1>4, <2>1
<1>7. \A n \in 0 .. k : new[n] \in View /\ Counted(new[n])
  BY <1>2, <1>3, <1>5
<1>8. Matches(new[k], a)
  BY <1>1, <1>2, <1>3
<1>9. \A i \in 1 .. k : r[i].type \in RelayType => Due(new[i - 1], r[i])
  <2> TAKE i \in 1 .. k
  <2>1. i - 1 \in 0 .. k /\ i + 1 \in 1 .. k + 1 /\ (i - 1) + 1 = i /\ (i + 1) - 1 = i
    BY <1>1
  <2>2. new[i - 1] = old[i] /\ r[i] = q[i + 1]
    BY <1>1, <1>2, <2>1
  <2> QED  BY <1>3, <2>1, <2>2
<1> QED  BY <1>1, <1>2, <1>6, <1>7, <1>8, <1>9 DEF Sound, r, w, new

-----------------------------------------------------------------------------
(* What fits which change of place. *)

Place == [sharing : BOOLEAN, peers : SUBSET PeerId, self : PeerId \cup {None}]
Nowhere == [sharing |-> FALSE, peers |-> {}, self |-> None]
Host(ps) == [sharing |-> TRUE, peers |-> ps, self |-> None]
Guest(p) == [sharing |-> FALSE, peers |-> {}, self |-> p]

LEMMA NoViewCounts == NoView \in View /\ Counted(NoView) /\ Matches(NoView, Nowhere)
  BY FS_EmptySet DEF NoView, View, Counted, Matches, Nowhere

LEMMA MatchesIs ==
    ASSUME NEW v \in View, NEW a \in Place
    PROVE  Matches(v, a) <=>
              v.sharing = a.sharing /\ v.peers = a.peers /\ v.self = a.self
  BY DEF Matches, View, Place

(* Heartbeats and refusals change no view. *)
LEMMA FitsNothing ==
    ASSUME NEW a
    PROVE  /\ Fits(a, Rejected, a)
           /\ Fits(a, Msg("heartbeat", None, 0), a)
           /\ \A p : Fits(a, Error("rejected", p), a)
  BY DEF Fits, Rejected, Error, Msg, Hear, PageHears, RelayType

LEMMA FitsRelay ==
    ASSUME NEW a \in Place, NEW t \in RelayType, NEW p \in PeerId,
           \/ t # "offer" /\ a.sharing /\ p \in a.peers
           \/ t # "answer" /\ a.self = p
    PROVE  Fits(a, Msg(t, p, 0), a)
<1> DEFINE m == Msg(t, p, 0)
<1>1. m.type = t /\ m.peer = p /\ t \in {"offer", "answer", "ice"}
  BY DEF Msg, RelayType
<1> HIDE DEF m
<1>2. ASSUME NEW v \in View, Matches(v, a), Counted(v)
      PROVE  Hear(v, m) = v /\ Due(v, m)
  <2>1. Hear(v, m) = v
    BY <1>1 DEF Hear, PageHears
  <2>2. Due(v, m)
    BY <1>1, <1>2, MatchesIs DEF Due
  <2> QED  BY <2>1, <2>2
<1> QED  BY <1>2 DEF Fits, m

LEMMA FitsStarted ==
    ASSUME NEW a
    PROVE  Fits(a, Msg("started", None, 0), Host({}))
<1> DEFINE w == [NoView EXCEPT !.sharing = TRUE]
<1>1. \A v : Hear(v, Msg("started", None, 0)) = w
  BY DEF Hear, PageHears, Msg
<1>2. w \in View /\ Counted(w) /\ Matches(w, Host({}))
  <2> DEFINE b == Host({})
  <2>1. /\ NoView \in View /\ NoView.sharing = FALSE /\ NoView.peers = {}
        /\ NoView.count = 0 /\ NoView.self = None
    BY DEF NoView, View
  <2>3. w \in View /\ w.sharing = TRUE /\ w.peers = {} /\ w.count = 0 /\ w.self = None
    BY <2>1 DEF View
  <2>4. b \in Place /\ b.sharing = TRUE /\ b.peers = {} /\ b.self = None
    BY DEF Place, Host, Guest
  <2> HIDE DEF w, b
  <2>5. Counted(w)
    BY <2>3, FS_EmptySet DEF Counted
  <2>6. Matches(w, b)
    BY <2>3, <2>4, MatchesIs
  <2> QED  BY <2>3, <2>5, <2>6 DEF b
<1>3. Msg("started", None, 0).type \notin RelayType
  BY DEF Msg, RelayType
<1> QED  BY <1>1, <1>2, <1>3 DEF Fits

LEMMA FitsJoined ==
    ASSUME NEW a, NEW p \in PeerId, NEW n
    PROVE  Fits(a, Msg("joined", p, n), Guest(p))
<1> DEFINE w == [NoView EXCEPT !.self = p]
<1>1. \A v : Hear(v, Msg("joined", p, n)) = w
  BY DEF Hear, PageHears, Msg
<1>2. w \in View /\ Counted(w) /\ Matches(w, Guest(p))
  <2> DEFINE b == Guest(p)
  <2>1. /\ NoView \in View /\ NoView.sharing = FALSE /\ NoView.peers = {}
        /\ NoView.count = 0 /\ NoView.self = None
    BY DEF NoView, View
  <2>3. w \in View /\ w.sharing = FALSE /\ w.peers = {} /\ w.count = 0 /\ w.self = p
    BY <2>1 DEF View
  <2>4. b \in Place /\ b.sharing = FALSE /\ b.peers = {} /\ b.self = p
    BY DEF Place, Host, Guest
  <2> HIDE DEF w, b
  <2>5. Counted(w)
    BY <2>3, FS_EmptySet DEF Counted
  <2>6. Matches(w, b)
    BY <2>3, <2>4, MatchesIs
  <2> QED  BY <2>3, <2>5, <2>6 DEF b
<1>3. Msg("joined", p, n).type \notin RelayType
  BY DEF Msg, RelayType
<1> QED  BY <1>1, <1>2, <1>3 DEF Fits

LEMMA FitsEnd ==
    ASSUME NEW a
    PROVE  Fits(a, Stopped, Nowhere) /\ Fits(a, Error("connection-failed", None), Nowhere)
<1>1. \A v : Hear(v, Stopped) = NoView /\ Hear(v, Error("connection-failed", None)) = NoView
  BY DEF Hear, PageHears, Stopped, Msg, Error
<1>2. Stopped.type \notin RelayType /\ Error("connection-failed", None).type \notin RelayType
  BY DEF Stopped, Msg, Error, RelayType
<1> QED  BY <1>1, <1>2, NoViewCounts DEF Fits

LEMMA FitsViewerJoined ==
    ASSUME NEW ps \in SUBSET PeerId, NEW p \in PeerId,
           Cardinality(ps \cup {p}) \in Nat
    PROVE  Fits(Host(ps), Msg("viewer-joined", p, Cardinality(ps \cup {p})),
                Host(ps \cup {p}))
<1> DEFINE n == Cardinality(ps \cup {p})
           m == Msg("viewer-joined", p, n)
<1>1. m.type = "viewer-joined" /\ m.peer = p /\ m.viewers = n /\ m.type \notin RelayType
  BY DEF Msg, RelayType
<1> HIDE DEF m
<1>2. ASSUME NEW v \in View, Matches(v, Host(ps))
      PROVE  /\ Hear(v, m) \in View /\ Counted(Hear(v, m))
             /\ Matches(Hear(v, m), Host(ps \cup {p}))
  <2>1. Hear(v, m) = [v EXCEPT !.peers = @ \cup {p}, !.count = n]
    BY <1>1 DEF Hear, PageHears
  <2>2. v.sharing = TRUE /\ v.peers = ps /\ v.self = None
    BY <1>2 DEF Matches, Host
  <2> DEFINE w == Hear(v, m)
             b == Host(ps \cup {p})
  <2>3. /\ w.sharing = TRUE /\ w.self = None
        /\ w.peers = ps \cup {p} /\ w.count = n
    BY <2>1, <2>2 DEF View
  <2>4. w \in View
    BY <2>1, <2>2 DEF View
  <2>5. /\ b \in Place /\ b.sharing = TRUE /\ b.self = None
        /\ b.peers = ps \cup {p}
    BY DEF Place, Host
  <2> HIDE DEF w, b
  <2>6. Matches(w, b)
    BY <2>3, <2>4, <2>5, MatchesIs
  <2> QED  BY <2>3, <2>4, <2>6 DEF Counted, w, b
<1> QED  BY <1>1, <1>2 DEF Fits, m

LEMMA FitsViewerLeft ==
    ASSUME NEW ps \in SUBSET PeerId, NEW p \in PeerId,
           Cardinality(ps \ {p}) \in Nat
    PROVE  Fits(Host(ps), Msg("viewer-left", p, Cardinality(ps \ {p})),
                Host(ps \ {p}))
<1> DEFINE n == Cardinality(ps \ {p})
           m == Msg("viewer-left", p, n)
<1>1. m.type = "viewer-left" /\ m.peer = p /\ m.viewers = n /\ m.type \notin RelayType
  BY DEF Msg, RelayType
<1> HIDE DEF m
<1>2. ASSUME NEW v \in View, Matches(v, Host(ps))
      PROVE  /\ Hear(v, m) \in View /\ Counted(Hear(v, m))
             /\ Matches(Hear(v, m), Host(ps \ {p}))
  <2>1. Hear(v, m) = [v EXCEPT !.peers = @ \ {p}, !.count = n]
    BY <1>1 DEF Hear, PageHears
  <2>2. v.sharing = TRUE /\ v.peers = ps /\ v.self = None
    BY <1>2 DEF Matches, Host
  <2> DEFINE w == Hear(v, m)
             b == Host(ps \ {p})
  <2>3. /\ w.sharing = TRUE /\ w.self = None
        /\ w.peers = ps \ {p} /\ w.count = n
    BY <2>1, <2>2 DEF View
  <2>4. w \in View
    BY <2>1, <2>2 DEF View
  <2>5. /\ b \in Place /\ b.sharing = TRUE /\ b.self = None
        /\ b.peers = ps \ {p}
    BY DEF Place, Host
  <2> HIDE DEF w, b
  <2>6. Matches(w, b)
    BY <2>3, <2>4, <2>5, MatchesIs
  <2> QED  BY <2>3, <2>4, <2>6 DEF Counted, w, b
<1> QED  BY <1>1, <1>2 DEF Fits, m

-----------------------------------------------------------------------------
(* How the places of the registry change. *)

LEMMA ActualIs ==
    ASSUME TypeOK, NEW c \in Client
    PROVE  /\ Actual(c) \in Place
           /\ Actual(c).sharing = Sharing(c)
           /\ Actual(c).peers = IF Sharing(c) THEN Taken(session[c]) ELSE {}
           /\ Actual(c).self = IF Viewing(c) THEN id[c] ELSE None
  BY DEF Actual, Place, TypeOK, Sharing, Viewing, Taken

PlacesKept == \A c \in Client : Actual(c)' = Actual(c)

LEMMA PlacesSame ==
    ASSUME UNCHANGED <<sharer, viewers, session, id>>
    PROVE  PlacesKept
  BY DEF PlacesKept, Actual, Sharing, Viewing, Taken

(* Whoever is in no session is nowhere. *)
LEMMA FreeNowhere ==
    ASSUME NEW c, session[c] = None
    PROVE  Actual(c) = Nowhere
  BY DEF Actual, Nowhere, Sharing, Viewing

LEMMA PlacesEnd ==
    ASSUME RegInv, NEW s \in sessions, EndSession(s), UNCHANGED <<sharer, issued, id>>
    PROVE  /\ s \in SessionId /\ sharer[s] \in Client
           /\ Members(s) \subseteq Client
           /\ \A c \in Client : Actual(c)' =
                 IF c \in Members(s) \cup {sharer[s]} THEN Nowhere ELSE Actual(c)
<1>1. s \in SessionId /\ sharer[s] \in Client /\ Members(s) \subseteq Client
  BY NoneAssumption DEF RegInv, Typed, Registry, TypeOK, Members, Taken
<1>2. \A c \in Client : session'[c] =
         IF c \in Members(s) \cup {sharer[s]} THEN None ELSE session[c]
  BY DEF EndSession
<1>3. ASSUME NEW c \in Client, c \in Members(s) \cup {sharer[s]} PROVE Actual(c)' = Nowhere
  <2>1. session'[c] = None
    BY <1>2, <1>3
  <2> QED  BY <2>1 DEF Actual, Nowhere, Sharing, Viewing
<1>4. ASSUME NEW c \in Client, c \notin Members(s) \cup {sharer[s]}
      PROVE  Actual(c)' = Actual(c)
  <2>1. session'[c] = session[c] /\ UNCHANGED <<sharer, id>>
    BY <1>2, <1>4
  <2>2. session[c] # None => session[c] \in SessionId /\ session[c] # s
    BY <1>1, <1>4, NoneAssumption
    DEF RegInv, Typed, Registry, TypeOK, Members, Taken, Viewing
  <2>3. session[c] # None => Taken(session[c])' = Taken(session[c])
    BY <1>1, <2>1, <2>2 DEF EndSession, Taken, RegInv, Typed, TypeOK
  <2> QED  BY <2>1, <2>3 DEF Actual, Sharing, Viewing
<1> QED  BY <1>1, <1>3, <1>4

LEMMA PlacesRemove ==
    ASSUME RegInv, NEW s \in SessionId, NEW p \in PeerId, NEW v \in Client,
           viewers[s][p] = v,
           viewers' = [viewers EXCEPT ![s][p] = None],
           session' = [session EXCEPT ![v] = None],
           UNCHANGED <<sharer, id>>
    PROVE  /\ s \in sessions /\ sharer[s] \in Client /\ sharer[s] # v
           /\ Actual(sharer[s]) = Host(Taken(s))
           /\ Actual(v)' = Nowhere
           /\ Actual(sharer[s])' = Host(Taken(s) \ {p})
           /\ \A c \in Client \ {v, sharer[s]} : Actual(c)' = Actual(c)
<1> USE DEF RegInv, Typed
<1>1. /\ s \in sessions /\ sharer[s] \in Client /\ sharer[s] # v
      /\ session[sharer[s]] = s /\ sharer[s] # None
  BY NoneAssumption DEF Registry, TypeOK, Viewing
<1>2. /\ Taken(s)' = Taken(s) \ {p}
      /\ \A t \in SessionId \ {s} : Taken(t)' = Taken(t)
  BY TakenRemove
<1>3. \A c \in Client : session'[c] = IF c = v THEN None ELSE session[c]
  BY DEF TypeOK
<1>4. Actual(v)' = Nowhere
  BY <1>3 DEF Actual, Nowhere, Sharing, Viewing
<1>5. Sharing(sharer[s]) /\ ~Viewing(sharer[s]) /\ s # None
  BY <1>1, NoneAssumption DEF Sharing, Viewing
<1>6. Sharing(sharer[s])' /\ ~Viewing(sharer[s])'
  BY <1>1, <1>3, <1>5 DEF Sharing, Viewing
<1>7. Actual(sharer[s]) = Host(Taken(s))
  BY <1>1, <1>5 DEF Actual, Host
<1>8. Actual(sharer[s])' = Host(Taken(s) \ {p})
  BY <1>1, <1>2, <1>3, <1>6 DEF Actual, Host
<1>9. ASSUME NEW c \in Client \ {v, sharer[s]} PROVE Actual(c)' = Actual(c)
  <2>1. session'[c] = session[c]
    BY <1>3
  <2>2. Sharing(c) => session[c] \in SessionId \ {s}
    BY NoneAssumption DEF Sharing, TypeOK
  <2>3. Sharing(c) => Taken(session[c])' = Taken(session[c])
    BY <1>2, <2>1, <2>2
  <2>4. Sharing(c)' = Sharing(c) /\ Viewing(c)' = Viewing(c)
    BY <2>1 DEF Sharing, Viewing
  <2> QED  BY <2>1, <2>3, <2>4 DEF Actual
<1> QED  BY <1>1, <1>4, <1>7, <1>8, <1>9

LEMMA PlacesAdd ==
    ASSUME RegInv, NEW s \in sessions, NEW p \in PeerId \ issued, NEW c \in Client,
           session[c] = None,
           viewers' = [viewers EXCEPT ![s][p] = c],
           session' = [session EXCEPT ![c] = s],
           id' = [id EXCEPT ![c] = p],
           UNCHANGED sharer
    PROVE  /\ s \in SessionId /\ sharer[s] \in Client /\ sharer[s] # c
           /\ Actual(sharer[s]) = Host(Taken(s))
           /\ Actual(c)' = Guest(p)
           /\ Actual(sharer[s])' = Host(Taken(s) \cup {p})
           /\ \A d \in Client \ {c, sharer[s]} : Actual(d)' = Actual(d)
<1> USE DEF RegInv, Typed
<1>1. /\ s \in SessionId /\ sharer[s] \in Client /\ sharer[s] # c
      /\ session[sharer[s]] = s /\ sharer[s] # None
  BY NoneAssumption DEF Registry, TypeOK
<1>2. /\ Taken(s)' = Taken(s) \cup {p}
      /\ \A t \in SessionId \ {s} : Taken(t)' = Taken(t)
  BY <1>1, TakenAdd
<1>3. \A d \in Client : /\ session'[d] = IF d = c THEN s ELSE session[d]
                        /\ id'[d] = IF d = c THEN p ELSE id[d]
  BY DEF TypeOK
<1>4. Actual(c)' = Guest(p)
  <2>1. session'[c] = s /\ id'[c] = p /\ s # None
    BY <1>1, <1>3, NoneAssumption
  <2>2. Sharing(c)' = FALSE /\ Viewing(c)'
    BY <1>1, <2>1 DEF Sharing, Viewing
  <2>3. Actual(c)' = [sharing |-> FALSE, peers |-> {}, self |-> id'[c]]
    BY <2>2, Zenon DEF Actual
  <2> QED  BY <2>1, <2>3 DEF Guest
<1>5. Sharing(sharer[s]) /\ ~Viewing(sharer[s]) /\ s # None
  BY <1>1, NoneAssumption DEF Sharing, Viewing
<1>6. Sharing(sharer[s])' /\ ~Viewing(sharer[s])'
  BY <1>1, <1>3, <1>5 DEF Sharing, Viewing
<1>7. Actual(sharer[s]) = Host(Taken(s))
  BY <1>1, <1>5 DEF Actual, Host
<1>8. Actual(sharer[s])' = Host(Taken(s) \cup {p})
  BY <1>1, <1>2, <1>3, <1>6 DEF Actual, Host
<1>9. ASSUME NEW d \in Client \ {c, sharer[s]} PROVE Actual(d)' = Actual(d)
  <2>1. session'[d] = session[d] /\ id'[d] = id[d]
    BY <1>3
  <2>2. Sharing(d) => session[d] \in SessionId \ {s}
    BY NoneAssumption DEF Sharing, TypeOK
  <2>3. Sharing(d) => Taken(session[d])' = Taken(session[d])
    BY <1>2, <2>1, <2>2
  <2>4. Sharing(d)' = Sharing(d) /\ Viewing(d)' = Viewing(d)
    BY <2>1 DEF Sharing, Viewing
  <2> QED  BY <2>1, <2>3, <2>4 DEF Actual
<1> QED  BY <1>1, <1>4, <1>7, <1>8, <1>9

LEMMA PlacesStart ==
    ASSUME RegInv, NEW s \in SessionId, NEW c \in Client,
           session[c] = None, sharer[s] = None,
           sharer' = [sharer EXCEPT ![s] = c],
           session' = [session EXCEPT ![c] = s],
           UNCHANGED <<viewers, id>>
    PROVE  /\ Actual(c)' = Host({})
           /\ \A d \in Client \ {c} : Actual(d)' = Actual(d)
<1> USE DEF RegInv, Typed
<1>1. Taken(s) = {} /\ s # None
  BY NoneAssumption DEF Taken, Registry, Viewing, TypeOK
<1>2. \A d \in Client : session'[d] = IF d = c THEN s ELSE session[d]
  BY DEF TypeOK
<1>3. \A t \in SessionId : sharer'[t] = IF t = s THEN c ELSE sharer[t]
  BY DEF TypeOK
<1>4. Actual(c)' = Host({})
  <2>1. session'[c] = s /\ sharer'[s] = c /\ Taken(s)' = {}
    BY <1>1, <1>2, <1>3 DEF Taken
  <2> QED  BY <1>1, <2>1 DEF Actual, Sharing, Viewing, Host
<1>5. ASSUME NEW d \in Client \ {c} PROVE Actual(d)' = Actual(d)
  <2>1. session'[d] = session[d]
    BY <1>2
  <2>2. session[d] # None => session[d] \in SessionId /\ session[d] # s
    BY NoneAssumption DEF Registry, TypeOK
  <2>3. session[d] # None => sharer'[session[d]] = sharer[session[d]]
    BY <1>3, <2>2
  <2> QED  BY <2>1, <2>3 DEF Actual, Sharing, Viewing, Taken
<1> QED  BY <1>4, <1>5

-----------------------------------------------------------------------------
(* What is queued for an open connection fits what the registry says of it,  *)
(* whoever handles, leaves or breaks down meanwhile.                         *)

Faithful(c) == conn[c] = "open" => Sound(told[c], out[c], Actual(c))

ViewInv == told \in [Client -> View] /\ \A c \in Client : Faithful(c)

(* Nothing is sent and nobody's place changes. *)
LEMMA QuietFaithful ==
    ASSUME ViewInv, PlacesKept, UNCHANGED told,
           \A c \in Client : conn'[c] = "open" => conn[c] = "open" /\ out'[c] = out[c]
    PROVE  ViewInv'
  BY DEF ViewInv, Faithful, PlacesKept

LEMMA EmitSends ==
    ASSUME TypeOK, NEW batch, Emit(batch), NEW c \in Client, conn'[c] = "open"
    PROVE  /\ conn[c] = "open"
           /\ c \in DOMAIN batch => out'[c] = Append(out[c], batch[c])
           /\ c \notin DOMAIN batch => out'[c] = out[c]
  BY DEF Emit

(* emit: everyone whose place changes, and whose connection stays, is sent   *)
(* what fits the change.                                                     *)
LEMMA EmitFaithful ==
    ASSUME TypeOK, ViewInv, UNCHANGED told, NEW batch, Emit(batch),
           \A c \in DOMAIN batch : batch[c] \in Message,
           \A c \in Client : conn'[c] = "open" =>
              IF c \in DOMAIN batch THEN Fits(Actual(c), batch[c], Actual(c)')
              ELSE Actual(c)' = Actual(c)
    PROVE  ViewInv'
<1> SUFFICES ASSUME NEW c \in Client, conn'[c] = "open"
             PROVE  Sound(told[c], out'[c], Actual(c)')
  BY DEF ViewInv, Faithful
<1>1. conn[c] = "open" /\ Sound(told[c], out[c], Actual(c)) /\ out[c] \in Seq(Message)
  BY EmitSends DEF ViewInv, Faithful, TypeOK
<1>2. CASE c \in DOMAIN batch
  <2>1. out'[c] = Append(out[c], batch[c]) /\ batch[c] \in Message
    BY <1>2, EmitSends
  <2>2. Fits(Actual(c), batch[c], Actual(c)')
    BY <1>2
  <2> QED  BY <1>1, <2>1, <2>2, SoundMore
<1>3. CASE c \notin DOMAIN batch
  BY <1>1, <1>3, EmitSends
<1> QED  BY <1>2, <1>3

LEMMA RefuseFaithful ==
    ASSUME TypeOK, ViewInv, UNCHANGED told, NEW c, Refuse(c)
    PROVE  ViewInv'
<1>1. PlacesKept
  BY PlacesSame DEF Refuse, registry
<1>2. Emit(To(c, Rejected)) /\ Rejected \in Message
  BY MsgTyped DEF Refuse
<1>3. /\ \A d \in DOMAIN To(c, Rejected) : To(c, Rejected)[d] = Rejected
      /\ \A a : Fits(a, Rejected, a)
  BY FitsNothing DEF To
<1> QED  BY <1>1, <1>2, <1>3, EmitFaithful DEF PlacesKept

LEMMA EndFaithful ==
    ASSUME RegInv, ViewInv, UNCHANGED told, NEW s \in sessions, EndSession(s),
           UNCHANGED <<sharer, issued, id>>
    PROVE  ViewInv'
<1> DEFINE batch == [d \in Members(s) \cup {sharer[s]} |-> Stopped]
<1>1. \A c \in Client : Actual(c)' =
         IF c \in Members(s) \cup {sharer[s]} THEN Nowhere ELSE Actual(c)
  BY PlacesEnd
<1>2. Emit(batch)
  BY DEF EndSession
<1>3. /\ DOMAIN batch = Members(s) \cup {sharer[s]}
      /\ \A c \in DOMAIN batch : batch[c] = Stopped
  OBVIOUS
<1>4. Stopped \in Message /\ \A a : Fits(a, Stopped, Nowhere)
  BY MsgTyped, FitsEnd
<1> HIDE DEF batch
<1> QED  BY <1>1, <1>2, <1>3, <1>4, EmitFaithful DEF RegInv, Typed

LEMMA LeaveFaithful ==
    ASSUME RegInv, ViewInv, UNCHANGED told, NEW c \in Client, Leave(c)
    PROVE  ViewInv'
<1>0. TypeOK
  BY DEF RegInv, Typed
<1> PICK s \in SessionId \cup {None} : s = session[c]
  BY <1>0 DEF TypeOK
<1>1. CASE s = None
  <2>1. UNCHANGED <<sharer, viewers, session, id, conn, out>>
    BY <1>1 DEF Leave
  <2> QED  BY <2>1, PlacesSame, QuietFaithful
<1>2. CASE s # None /\ sharer[s] # c
  <2>1. s \in SessionId /\ id[c] \in PeerId /\ viewers[s][id[c]] = c
    BY <1>2 DEF RegInv, Registry, Viewing
  <2> DEFINE p == id[c]
             m == Msg("viewer-left", p, Cardinality(Taken(s) \ {p}))
             batch == To(sharer[s], m)
  <2>2. /\ viewers' = [viewers EXCEPT ![s][p] = None]
        /\ session' = [session EXCEPT ![c] = None]
        /\ UNCHANGED <<sharer, id>>
        /\ Emit(batch)
    BY <1>2 DEF Leave, Left
  <2>3. /\ sharer[s] \in Client /\ sharer[s] # c
        /\ Actual(sharer[s]) = Host(Taken(s))
        /\ Actual(sharer[s])' = Host(Taken(s) \ {p})
        /\ \A d \in Client \ {c, sharer[s]} : Actual(d)' = Actual(d)
    BY <2>1, <2>2, PlacesRemove
  <2>4. Cardinality(Taken(s) \ {p}) \in Nat /\ Taken(s) \in SUBSET PeerId
    BY <2>1, FS_RemoveElement, FS_CardinalityType DEF RegInv, Typed, FiniteViewers, Taken
  <2>5. m \in Message /\ Fits(Host(Taken(s)), m, Host(Taken(s) \ {p}))
    BY <2>1, <2>4, MsgTyped, FitsViewerLeft
  <2>6. conn[c] = "closed"
    BY DEF Leave
  <2>7. DOMAIN batch = {sharer[s]} /\ \A d \in DOMAIN batch : batch[d] = m
    BY DEF To
  <2> HIDE DEF m, batch, p
  <2>8. \A d \in Client : conn'[d] = "open" => d # c
    BY <1>0, <2>2, <2>6, EmitSends
  <2> QED  BY <1>0, <2>2, <2>3, <2>5, <2>7, <2>8, EmitFaithful
<1>3. CASE s # None /\ sharer[s] = c
  <2>1. s \in sessions
    BY <1>3 DEF RegInv, Registry
  <2>2. EndSession(s) /\ UNCHANGED <<sharer, issued, id>>
    BY <1>3 DEF Leave
  <2> QED  BY <2>1, <2>2, EndFaithful
<1> QED  BY <1>1, <1>2, <1>3

LEMMA IgnoreFaithful ==
    ASSUME ViewInv, UNCHANGED told, Ignore
    PROVE  ViewInv'
  BY PlacesSame, QuietFaithful DEF Ignore, registry

LEMMA DisconnectPeerFaithful ==
    ASSUME RegInv, ViewInv, UNCHANGED told, NEW c \in Client, NEW p \in PeerId,
           DisconnectPeer(c, p)
    PROVE  ViewInv'
<1>0. TypeOK
  BY DEF RegInv, Typed
<1>1. CASE ~Sharing(c)
  BY <1>0, <1>1, RefuseFaithful DEF DisconnectPeer
<1>2. CASE Sharing(c)
  <2> PICK s \in SessionId : s = session[c] /\ sharer[s] = c
    BY <1>0, <1>2 DEF Sharing, TypeOK
  <2> PICK v \in Client \cup {None} : v = viewers[s][p]
    BY <1>0 DEF TypeOK
  <2>1. CASE v = None
    BY <1>2, <2>1, IgnoreFaithful DEF DisconnectPeer
  <2>2. CASE v # None
    <3> DEFINE e == Error("connection-failed", None)
               m == Msg("viewer-left", p, Cardinality(Taken(s) \ {p}))
               batch == To2(v, e, c, m)
    <3>1. v \in Client
      BY <2>2
    <3>2. /\ viewers' = [viewers EXCEPT ![s][p] = None]
          /\ session' = [session EXCEPT ![v] = None]
          /\ UNCHANGED <<sharer, id>>
          /\ Emit(batch)
      BY <1>2, <2>2 DEF DisconnectPeer, Left
    <3>3. /\ c # v
          /\ Actual(c) = Host(Taken(s))
          /\ Actual(c)' = Host(Taken(s) \ {p})
          /\ Actual(v)' = Nowhere
          /\ \A d \in Client \ {v, c} : Actual(d)' = Actual(d)
      BY <3>1, <3>2, PlacesRemove
    <3>4. Cardinality(Taken(s) \ {p}) \in Nat /\ Taken(s) \in SUBSET PeerId
      BY FS_RemoveElement, FS_CardinalityType DEF RegInv, Typed, FiniteViewers, Taken
    <3>5. m \in Message /\ Fits(Host(Taken(s)), m, Host(Taken(s) \ {p}))
      BY <3>4, MsgTyped, FitsViewerLeft
    <3>6. e \in Message /\ \A a : Fits(a, e, Nowhere)
      BY MsgTyped, FitsEnd
    <3>7. DOMAIN batch = {v, c} /\ batch[v] = e /\ batch[c] = m
      BY <3>3 DEF To2
    <3> HIDE DEF e, m, batch
    <3>8. \A d \in DOMAIN batch : batch[d] \in Message
      BY <3>5, <3>6, <3>7
    <3>9. \A d \in Client :
             IF d \in DOMAIN batch THEN Fits(Actual(d), batch[d], Actual(d)')
             ELSE Actual(d)' = Actual(d)
      BY <3>3, <3>5, <3>6, <3>7
    <3> QED  BY <1>0, <3>2, <3>8, <3>9, EmitFaithful
  <2> QED  BY <2>1, <2>2
<1> QED  BY <1>1, <1>2

LEMMA JoinFaithful ==
    ASSUME RegInv, ViewInv, UNCHANGED told, NEW c \in Client, NEW s \in SessionId,
           NEW code \in SessionId, Join(c, s, code)
    PROVE  ViewInv'
<1>0. TypeOK
  BY DEF RegInv, Typed
<1>1. CASE JoinRefused(c, s, code)
  BY <1>0, <1>1, RefuseFaithful DEF Join
<1>2. CASE ~JoinRefused(c, s, code)
  <2>1. s \in sessions /\ session[c] = None
    BY <1>2 DEF JoinRefused
  <2>2. PICK p \in PeerId \ issued :
          /\ session' = [session EXCEPT ![c] = s]
          /\ id' = [id EXCEPT ![c] = p]
          /\ viewers' = [viewers EXCEPT ![s][p] = c]
          /\ Emit(To2(c, Msg("joined", p, Cardinality(Taken(s) \cup {p})),
                      sharer[s], Msg("viewer-joined", p, Cardinality(Taken(s) \cup {p}))))
          /\ UNCHANGED sharer
    BY <1>2 DEF Join
  <2> DEFINE m == Msg("joined", p, Cardinality(Taken(s) \cup {p}))
             n == Msg("viewer-joined", p, Cardinality(Taken(s) \cup {p}))
             batch == To2(c, m, sharer[s], n)
  <2>3. /\ sharer[s] \in Client /\ sharer[s] # c
        /\ Actual(sharer[s]) = Host(Taken(s))
        /\ Actual(c)' = Guest(p)
        /\ Actual(sharer[s])' = Host(Taken(s) \cup {p})
        /\ \A d \in Client \ {c, sharer[s]} : Actual(d)' = Actual(d)
    BY <2>1, <2>2, PlacesAdd
  <2>4. Cardinality(Taken(s) \cup {p}) \in Nat /\ Taken(s) \in SUBSET PeerId
    BY FS_AddElement, FS_CardinalityType DEF RegInv, Typed, FiniteViewers, Taken
  <2>5. n \in Message /\ Fits(Host(Taken(s)), n, Host(Taken(s) \cup {p}))
    BY <2>4, MsgTyped, FitsViewerJoined
  <2>6. m \in Message /\ \A a : Fits(a, m, Guest(p))
    BY <2>4, MsgTyped, FitsJoined
  <2>7. /\ DOMAIN batch = {c, sharer[s]} /\ batch[c] = m /\ batch[sharer[s]] = n
        /\ Emit(batch)
    BY <2>2, <2>3 DEF To2
  <2> HIDE DEF m, n, batch
  <2>8. \A d \in DOMAIN batch : batch[d] \in Message
    BY <2>5, <2>6, <2>7
  <2>9. \A d \in Client :
           IF d \in DOMAIN batch THEN Fits(Actual(d), batch[d], Actual(d)')
           ELSE Actual(d)' = Actual(d)
    <3> TAKE d \in Client
    <3>1. CASE d = c
      <4>1. Fits(Actual(c), m, Actual(c)')
        BY <2>3, <2>6
      <4> QED  BY <2>7, <3>1, <4>1
    <3>2. CASE d = sharer[s]
      <4>1. Fits(Actual(sharer[s]), n, Actual(sharer[s])')
        BY <2>3, <2>5
      <4> QED  BY <2>2, <2>7, <3>2, <4>1
    <3>3. CASE d \notin {c, sharer[s]}
      BY <2>3, <2>7, <3>3
    <3> QED  BY <3>1, <3>2, <3>3
  <2> QED  BY <1>0, <2>7, <2>8, <2>9, EmitFaithful
<1> QED  BY <1>1, <1>2

LEMMA StartFaithful ==
    ASSUME RegInv, ViewInv, UNCHANGED told, NEW c \in Client, Start(c)
    PROVE  ViewInv'
<1>0. TypeOK
  BY DEF RegInv, Typed
<1>1. CASE session[c] # None
  BY <1>0, <1>1, RefuseFaithful DEF Start
<1>2. CASE session[c] = None
  <2>1. PICK s \in SessionId :
          /\ sharer[s] = None
          /\ sharer' = [sharer EXCEPT ![s] = c]
          /\ session' = [session EXCEPT ![c] = s]
          /\ Emit(To(c, Msg("started", None, 0)))
          /\ UNCHANGED <<viewers, id>>
    BY <1>2 DEF Start
  <2> DEFINE m == Msg("started", None, 0)
             batch == To(c, m)
  <2>2. /\ Actual(c)' = Host({})
        /\ \A d \in Client \ {c} : Actual(d)' = Actual(d)
    BY <1>2, <2>1, PlacesStart
  <2>3. m \in Message /\ \A a : Fits(a, m, Host({}))
    BY MsgTyped, FitsStarted
  <2>4. DOMAIN batch = {c} /\ batch[c] = m /\ Emit(batch)
    BY <2>1 DEF To
  <2> HIDE DEF m, batch
  <2> QED  BY <1>0, <2>2, <2>3, <2>4, EmitFaithful
<1> QED  BY <1>1, <1>2

(* A relayed message reaches a sharer that knows the viewer, or that viewer. *)
LEMMA RelayFaithful ==
    ASSUME RegInv, ViewInv, UNCHANGED told, NEW c \in Client, NEW t \in RelayType,
           NEW p \in PeerId, NEW w \in BOOLEAN, Relay(c, t, p, w)
    PROVE  ViewInv'
<1>0. TypeOK
  BY DEF RegInv, Typed
<1> PICK s \in SessionId \cup {None} : s = session[c]
  BY <1>0 DEF TypeOK
<1>1. CASE s = None
  BY <1>0, <1>1, RefuseFaithful DEF Relay
<1>2. CASE s # None /\ (viewers[s][p] = None \/ c \notin {sharer[s], viewers[s][p]})
  BY <1>2, IgnoreFaithful DEF Relay
<1>3. CASE s # None /\ viewers[s][p] # None /\ c \in {sharer[s], viewers[s][p]}
  <2>1. s \in sessions /\ s \in SessionId
    BY <1>0, <1>3 DEF RegInv, Registry
  <2>2. CASE ~ValidRelay(c, t, w)
    <3> DEFINE m == Error("rejected", p)
               batch == To(c, m)
    <3>1. Emit(batch) /\ UNCHANGED registry
      BY <1>3, <2>2 DEF Relay
    <3>2. PlacesKept
      BY <3>1, PlacesSame DEF registry
    <3>3. m \in Message /\ \A a : Fits(a, m, a)
      BY MsgTyped, FitsNothing
    <3>4. DOMAIN batch = {c} /\ batch[c] = m
      BY DEF To
    <3> HIDE DEF m, batch
    <3> QED  BY <1>0, <3>1, <3>2, <3>3, <3>4, EmitFaithful DEF PlacesKept
  <2>3. CASE ValidRelay(c, t, w)
    <3> DEFINE d == IF Sharing(c) THEN viewers[s][p] ELSE sharer[s]
               m == Msg(t, p, 0)
               batch == To(d, m)
    <3>1. Emit(batch) /\ UNCHANGED registry
      BY <1>3, <2>3 DEF Relay
    <3>2. PlacesKept
      BY <3>1, PlacesSame DEF registry
    <3>3. d \in Client
      BY <1>0, <1>3, <2>1, NoneAssumption DEF RegInv, Registry, TypeOK
    <3>4. \/ t # "offer" /\ Actual(d).sharing /\ p \in Actual(d).peers
          \/ t # "answer" /\ Actual(d).self = p
      <4>1. CASE Sharing(c)
        <5>1. d = viewers[s][p] /\ Viewing(d) /\ id[d] = p
          BY <1>3, <2>1, <4>1 DEF RegInv, Registry
        <5>2. Actual(d).self = p
          BY <1>0, <3>3, <5>1, ActualIs
        <5>3. t # "answer"
          BY <2>3, <4>1 DEF ValidRelay
        <5> QED  BY <5>2, <5>3
      <4>2. CASE ~Sharing(c)
        <5>1. d = sharer[s] /\ session[d] = s /\ Sharing(d)
          BY <1>3, <2>1, <4>2 DEF RegInv, Registry, Sharing
        <5>2. p \in Taken(s)
          BY <1>3 DEF Taken
        <5>3. Actual(d).sharing /\ p \in Actual(d).peers
          BY <1>0, <3>3, <5>1, <5>2, ActualIs
        <5>4. t # "offer"
          BY <2>3, <4>2 DEF ValidRelay
        <5> QED  BY <5>3, <5>4
      <4> QED  BY <4>1, <4>2
    <3> HIDE DEF d
    <3>5. m \in Message /\ Fits(Actual(d), m, Actual(d))
      <4>1. Actual(d) \in Place
        BY <1>0, <3>3, ActualIs
      <4> QED  BY <3>4, <4>1, MsgTyped, FitsRelay
    <3>6. DOMAIN batch = {d} /\ batch[d] = m
      BY DEF To
    <3> HIDE DEF m, batch
    <3> QED  BY <1>0, <3>1, <3>2, <3>3, <3>5, <3>6, EmitFaithful DEF PlacesKept
  <2> QED  BY <2>2, <2>3
<1> QED  BY <1>1, <1>2, <1>3

(* A message arrives at an open connection: its program moves to the view    *)
(* that was foreseen.                                                        *)
LEMMA DeliverFaithful ==
    ASSUME RegInv, ViewInv, NEW c \in Client, Deliver(c)
    PROVE  ViewInv'
<1>0. TypeOK
  BY DEF RegInv, Typed
<1>1. /\ out[c] # <<>> /\ out' = [out EXCEPT ![c] = Tail(@)]
      /\ UNCHANGED registry /\ UNCHANGED conn
  BY DEF Deliver, Write
<1>2. PlacesKept
  BY <1>1, PlacesSame DEF registry
<1>3. \A d \in Client \ {c} : told'[d] = told[d] /\ out'[d] = out[d]
  BY <1>0, <1>1 DEF Deliver, ViewInv, TypeOK
<1>4. CASE conn[c] # "open"
  <2>1. told' = told
    BY <1>4 DEF Deliver
  <2> QED  BY <1>1, <1>2, <1>3, <1>4, <2>1 DEF ViewInv, Faithful, PlacesKept
<1>5. CASE conn[c] = "open"
  <2>1. /\ told' = [told EXCEPT ![c] = Hear(told[c], Head(out[c]))]
        /\ told'[c] = Hear(told[c], Head(out[c])) /\ out'[c] = Tail(out[c])
    BY <1>0, <1>1, <1>5 DEF Deliver, ViewInv, TypeOK
  <2>2. Sound(told[c], out[c], Actual(c)) /\ out[c] \in Seq(Message)
    BY <1>0, <1>5 DEF ViewInv, Faithful, TypeOK
  <2>3. Sound(told'[c], out'[c], Actual(c))
    BY <1>1, <2>1, <2>2, SoundFirst
  <2>4. told' \in [Client -> View]
    BY <2>1, <2>3 DEF Sound, ViewInv
  <2> QED  BY <1>1, <1>2, <1>3, <2>3, <2>4 DEF ViewInv, Faithful, PlacesKept
<1> QED  BY <1>4, <1>5

LEMMA DropQuiet ==
    ASSUME TypeOK, NEW cs, Drop(cs), NEW c \in Client, conn'[c] = "open"
    PROVE  conn[c] = "open" /\ out'[c] = out[c]
  BY DEF Drop

LEMMA ViewInvNext ==
    ASSUME RegInv, ViewInv, [NextViews]_viewVars
    PROVE  ViewInv'
<1>0. TypeOK
  BY DEF RegInv, Typed
<1>1. ASSUME NEW c \in Client, Register(c), UNCHANGED told PROVE ViewInv'
  <2>1. PlacesKept
    BY <1>1, PlacesSame DEF Register, registry
  <2> QED  BY <1>0, <1>1, <2>1, DropQuiet, QuietFaithful DEF Register
<1>2. ASSUME UNCHANGED registry, UNCHANGED told,
             \A c \in Client : conn'[c] = "open" => conn[c] = "open" /\ out'[c] = out[c]
      PROVE  ViewInv'
  BY <1>2, PlacesSame, QuietFaithful DEF registry
<1>3. ASSUME NEW c \in Client, Read(c) \/ GoSilent(c), UNCHANGED told PROVE ViewInv'
  BY <1>0, <1>2, <1>3 DEF Read, GoSilent, TypeOK
<1>4. ASSUME NEW c \in Client, RejectFrame(c), UNCHANGED told PROVE ViewInv'
  BY <1>0, <1>4, RefuseFaithful DEF RejectFrame, Refuse
<1>5. ASSUME NEW c \in Client, Handle(c), UNCHANGED told PROVE ViewInv'
  <2>1. CASE \E p \in PeerId : DisconnectPeer(c, p)
    BY <1>5, <2>1, DisconnectPeerFaithful
  <2>2. CASE Stop(c)
    <3>1. CASE Sharing(c)
      <4>1. session[c] \in sessions /\ EndSession(session[c]) /\ UNCHANGED <<sharer, issued, id>>
        BY <2>2, <3>1 DEF Stop, Sharing, RegInv, Registry
      <4> QED  BY <1>5, <4>1, EndFaithful
    <3>2. CASE ~Sharing(c)
      BY <1>0, <1>5, <2>2, <3>2, RefuseFaithful DEF Stop
    <3> QED  BY <3>1, <3>2
  <2>3. CASE \E s, code \in SessionId : Join(c, s, code)
    BY <1>5, <2>3, JoinFaithful
  <2>4. CASE Start(c)
    BY <1>5, <2>4, StartFaithful
  <2>5. CASE \E t \in RelayType, p \in PeerId, w \in BOOLEAN : Relay(c, t, p, w)
    BY <1>5, <2>5, RelayFaithful
  <2>6. CASE Unknown(c)
    BY <1>0, <1>5, <2>6, RefuseFaithful DEF Unknown
  <2> QED  BY <1>5, <2>1, <2>2, <2>3, <2>4, <2>5, <2>6 DEF Handle
<1>6. ASSUME NEW c \in Client, Leave(c), UNCHANGED told PROVE ViewInv'
  BY <1>6, LeaveFaithful
<1>7. ASSUME NEW c \in Client, Heartbeat(c), UNCHANGED told PROVE ViewInv'
  <2> DEFINE m == Msg("heartbeat", None, 0)
             batch == To(c, m)
  <2>1. Emit(batch) /\ PlacesKept
    BY <1>7, PlacesSame DEF Heartbeat, registry
  <2>2. m \in Message /\ \A a : Fits(a, m, a)
    BY MsgTyped, FitsNothing
  <2>3. DOMAIN batch = {c} /\ batch[c] = m
    BY DEF To
  <2> HIDE DEF m, batch
  <2> QED  BY <1>0, <1>7, <2>1, <2>2, <2>3, EmitFaithful DEF PlacesKept
<1>8. ASSUME NEW c \in Client, PingFails(c) \/ WriteFails(c) \/ Hangup(c), UNCHANGED told
      PROVE  ViewInv'
  BY <1>0, <1>2, <1>8, DropQuiet DEF PingFails, WriteFails, Hangup
<1>9. ASSUME ServerClose, UNCHANGED told PROVE ViewInv'
  BY <1>0, <1>2, <1>9, DropQuiet DEF ServerClose
<1>10. CASE UNCHANGED viewVars
  BY <1>2, <1>10 DEF viewVars, vars
<1> QED
  BY <1>1, <1>3, <1>4, <1>5, <1>6, <1>7, <1>8, <1>9, <1>10, DeliverFaithful
  DEF NextViews, ClientStep

(* Recording what has been delivered restricts nothing. *)
LEMMA RecordingIsHistory == SpecViews => Spec
<1>1. [NextViews]_viewVars => [Next]_vars
  BY DEF NextViews, viewVars, Next, Deliver, vars
<1>2. InitViews => Init
  BY DEF InitViews
<1> QED  BY <1>1, <1>2, PTL DEF SpecViews, Spec

LEMMA ViewInvHolds == SpecViews => []ViewInv
<1>1. InitViews => ViewInv
  <2> SUFFICES ASSUME InitViews PROVE ViewInv
    OBVIOUS
  <2>1. \A c \in Client : told[c] = NoView /\ out[c] = <<>> /\ session[c] = None
    BY DEF InitViews, Init
  <2>2. \A c \in Client : Sound(told[c], out[c], Actual(c))
    BY <2>1, FreeNowhere, NoViewCounts, SoundNothing
  <2>3. told \in [Client -> View]
    BY NoViewCounts DEF InitViews
  <2> QED  BY <2>2, <2>3 DEF ViewInv, Faithful
<1>2. RegInv /\ ViewInv /\ [NextViews]_viewVars => ViewInv'
  BY ViewInvNext
<1>3. SpecViews => []RegInv
  BY RecordingIsHistory, RegInvHolds, PTL
<1> QED  BY <1>1, <1>2, <1>3, PTL DEF SpecViews

(* Whatever interleaves and whatever queue is full, no open connection ever  *)
(* misses an update: what is queued for it brings its program to the view    *)
(* the registry has, and a sharer's count is right at every moment until     *)
(* then.                                                                     *)
THEOREM ViewsDoAgree == SpecViews => []ViewsAgree
<1>1. RegInv /\ ViewInv => ViewsAgree
  BY DEF RegInv, Typed, TypeOK, ViewInv, Faithful, Sound, ViewsAgree, Foreseen
<1>2. SpecViews => []RegInv
  BY RecordingIsHistory, RegInvHolds, PTL
<1> QED  BY <1>1, <1>2, ViewInvHolds, PTL

(* No offer, answer or candidate ever reaches a far end that, by what it was *)
(* told before, does not expect one from that peer.                          *)
THEOREM RelaysComeInOrder == SpecViews => []RelayInOrder
<1>1. RegInv /\ ViewInv => RelayInOrder
  BY DEF RegInv, Typed, TypeOK, ViewInv, Faithful, Sound, RelayInOrder, Foreseen
<1>2. SpecViews => []RegInv
  BY RecordingIsHistory, RegInvHolds, PTL
<1> QED  BY <1>1, <1>2, ViewInvHolds, PTL
=============================================================================
