------------------------------ MODULE Signaling ------------------------------
(***************************************************************************)
(* The signaling server, internal/signaling/session.go: one handler, one   *)
(* writer and one pinger goroutine per WebSocket connection, all sharing   *)
(* the registry of sessions behind Server.mu.                              *)
(*                                                                         *)
(* A Client is one connection (the Go *client); reconnecting is another    *)
(* Client.  A step is one critical section of Server.mu, one emit outside  *)
(* it, or one thing the network does to a connection.                      *)
(***************************************************************************)
EXTENDS Integers, Sequences, FiniteSets

CONSTANTS
    Client,     \* connections, each used once
    SessionId,  \* session tokens; the secret code of a session is named like it
    PeerId,     \* the tokens given to viewers
    MaxViewers, \* len(session.viewers) >= 4
    OutCap,     \* make(chan message, 32)
    None        \* nil, or the empty string

ASSUME LimitsAssumption == MaxViewers \in Nat \ {0} /\ OutCap \in Nat \ {0}
ASSUME NoneAssumption == None \notin Client \cup SessionId \cup PeerId

VARIABLES
    closed,   \* Server.closed
    clients,  \* Server.clients
    sessions, \* the keys of Server.sessions
    sharer,   \* shareSession.sharer; None while the token is unused
    viewers,  \* shareSession.viewers, None where the map has no key
    issued,   \* viewer tokens handed out: token() never repeats one
    session,  \* client.session
    id,       \* client.id
    handler,  \* where ServeHTTP is
    conn,     \* the connection under it
    out       \* client.out

registry == <<clients, sessions, sharer, viewers, issued, session, id>>
vars == <<closed, registry, handler, conn, out>>

-----------------------------------------------------------------------------
(* Messages.  Only the fields that the properties tell apart; the errors of  *)
(* a refused request are one: "rejected".                                    *)

RelayType == {"offer", "answer", "ice"}

Message == [type : {"heartbeat", "started", "joined", "viewer-joined",
                    "viewer-left", "stopped", "error"} \cup RelayType,
            peer : PeerId \cup {None},
            viewers : Nat,
            error : {"", "rejected", "connection-failed"}]

Msg(t, p, n) == [type |-> t, peer |-> p, viewers |-> n, error |-> ""]
Error(e, p) == [type |-> "error", peer |-> p, viewers |-> 0, error |-> e]
Rejected == Error("rejected", None)
Stopped == Msg("stopped", None, 0)

-----------------------------------------------------------------------------
(* Reading the registry. *)

Taken(s) == {p \in PeerId : viewers[s][p] # None}
Members(s) == {viewers[s][p] : p \in Taken(s)}
Count(s) == Cardinality(Taken(s))

(* The count announced when p leaves s. *)
Left(s, p) == Cardinality(Taken(s) \ {p})

Sharing(c) == session[c] # None /\ sharer[session[c]] = c
Viewing(c) == session[c] # None /\ sharer[session[c]] # c
Running(c) == handler[c] \in {"reading", "holding"}

TypeOK ==
    /\ closed \in BOOLEAN
    /\ clients \subseteq Client
    /\ sessions \subseteq SessionId
    /\ sharer \in [SessionId -> Client \cup {None}]
    /\ viewers \in [SessionId -> [PeerId -> Client \cup {None}]]
    /\ issued \subseteq PeerId
    /\ session \in [Client -> SessionId \cup {None}]
    /\ id \in [Client -> PeerId \cup {None}]
    /\ handler \in [Client -> {"accepting", "reading", "holding", "done"}]
    /\ conn \in [Client -> {"open", "silent", "closed"}]
    /\ out \in [Client -> Seq(Message)]

Init ==
    /\ closed = FALSE
    /\ clients = {}
    /\ sessions = {}
    /\ sharer = [s \in SessionId |-> None]
    /\ viewers = [s \in SessionId |-> [p \in PeerId |-> None]]
    /\ issued = {}
    /\ session = [c \in Client |-> None]
    /\ id = [c \in Client |-> None]
    /\ handler = [c \in Client |-> "accepting"]
    /\ conn = [c \in Client |-> "open"]
    /\ out = [c \in Client |-> <<>>]

-----------------------------------------------------------------------------
(* client.emit for every client in the domain of batch, which gives each its *)
(* message.  A full channel closes the connection and loses the message;     *)
(* nothing queued on a closed connection is ever written, so its queue is    *)
(* empty here.                                                               *)
EmitLossy(batch) == \* the bug: a full channel loses the message only
    /\ UNCHANGED conn
    /\ out' = [c \in Client |->
                 IF c \in DOMAIN batch /\ conn[c] # "closed" /\ Len(out[c]) < OutCap
                 THEN Append(out[c], batch[c]) ELSE out[c]]

Emit(batch) ==
    LET overflow == {c \in DOMAIN batch : Len(out[c]) = OutCap} IN
    /\ conn' = [c \in Client |-> IF c \in overflow THEN "closed" ELSE conn[c]]
    /\ out' = [c \in Client |->
                 IF c \in overflow THEN <<>>
                 ELSE IF c \in DOMAIN batch /\ conn[c] # "closed"
                 THEN Append(out[c], batch[c]) ELSE out[c]]

To(c, m) == [d \in {c} |-> m]
To2(c, m, d, n) == [e \in {c, d} |-> IF e = c THEN m ELSE n]

(* Closing connections from this side or the other. *)
Drop(cs) ==
    /\ conn' = [c \in Client |-> IF c \in cs THEN "closed" ELSE conn[c]]
    /\ out' = [c \in Client |-> IF c \in cs THEN <<>> ELSE out[c]]

Goto(c, where) == handler' = [handler EXCEPT ![c] = where]

-----------------------------------------------------------------------------
(* ServeHTTP: registration and the read loop. *)

RegisterAfterClose(c) == \* the bug: closed is not checked under the lock
    /\ handler[c] = "accepting"
    /\ Goto(c, "reading")
    /\ clients' = clients \cup {c}
    /\ UNCHANGED <<closed, sessions, sharer, viewers, issued, session, id, conn, out>>

Register(c) ==
    /\ handler[c] = "accepting"
    /\ IF closed
       THEN Goto(c, "done") /\ Drop({c}) /\ UNCHANGED registry
       ELSE /\ Goto(c, "reading")
            /\ clients' = clients \cup {c}
            /\ UNCHANGED <<sessions, sharer, viewers, issued, session, id, conn, out>>
    /\ UNCHANGED closed

(* A text frame that parses: the handler now waits for Server.mu.  What the  *)
(* frame asks is chosen when the lock is taken.                              *)
Read(c) ==
    /\ handler[c] = "reading" /\ conn[c] = "open"
    /\ Goto(c, "holding")
    /\ UNCHANGED <<closed, registry, conn, out>>

(* A binary frame, or text that is not JSON: answered without the lock. *)
RejectFrame(c) ==
    /\ handler[c] = "reading" /\ conn[c] = "open"
    /\ Emit(To(c, Rejected))
    /\ UNCHANGED <<closed, registry, handler>>

EndSessionForgets(s) == \* the bug: the viewers' client.session is not reset
    /\ sessions' = sessions \ {s}
    /\ session' = [c \in Client |-> IF c = sharer[s] THEN None ELSE session[c]]
    /\ viewers' = [viewers EXCEPT ![s] = [p \in PeerId |-> None]]
    /\ Emit([c \in Members(s) \cup {sharer[s]} |-> Stopped])
EndSessionQuietly(s) == \* the bug: the viewers are not told
    /\ sessions' = sessions \ {s}
    /\ session' = [c \in Client |->
                     IF c = sharer[s] \/ c \in Members(s) THEN None ELSE session[c]]
    /\ viewers' = [viewers EXCEPT ![s] = [p \in PeerId |-> None]]
    /\ Emit(To(sharer[s], Stopped))

(* Server.stop *)
EndSession(s) ==
    /\ sessions' = sessions \ {s}
    /\ session' = [c \in Client |->
                     IF c = sharer[s] \/ c \in Members(s) THEN None ELSE session[c]]
    /\ viewers' = [viewers EXCEPT ![s] = [p \in PeerId |-> None]]
    /\ Emit([c \in Members(s) \cup {sharer[s]} |-> Stopped])

(* conn.Read fails: the deferred cleanup, under the lock. *)
Leave(c) ==
    /\ handler[c] = "reading" /\ conn[c] = "closed"
    /\ Goto(c, "done")
    /\ clients' = clients \ {c}
    /\ LET s == session[c] IN
       IF s = None THEN UNCHANGED <<sessions, viewers, session, conn, out>>
       ELSE IF sharer[s] # c
       THEN /\ viewers' = [viewers EXCEPT ![s][id[c]] = None]
            /\ session' = [session EXCEPT ![c] = None]
            /\ Emit(To(sharer[s],
                       Msg("viewer-left", id[c], Left(s, id[c]))))
            /\ UNCHANGED sessions
       ELSE EndSession(s)
    /\ UNCHANGED <<closed, sharer, issued, id>>

-----------------------------------------------------------------------------
(* Server.handle, one action per request. *)

Request(c) ==
    /\ handler[c] = "holding"
    /\ Goto(c, "reading")
    /\ UNCHANGED <<closed, clients>>

Refuse(c) == Emit(To(c, Rejected)) /\ UNCHANGED registry
Ignore == UNCHANGED <<registry, conn, out>>

DisconnectPeer(c, p) ==
    LET s == session[c]
        v == viewers[s][p] IN
    /\ Request(c)
    /\ IF ~Sharing(c) THEN Refuse(c)
       ELSE IF v = None THEN Ignore
       ELSE /\ session' = [session EXCEPT ![v] = None]
            /\ viewers' = [viewers EXCEPT ![s][p] = None]
            /\ Emit(To2(v, Error("connection-failed", None),
                        c, Msg("viewer-left", p, Left(s, p))))
            /\ UNCHANGED <<sessions, sharer, issued, id>>

StopByAnyone(c) == \* the bug: a viewer's "stop" counts
    /\ Request(c)
    /\ IF session[c] # None
       THEN EndSession(session[c]) /\ UNCHANGED <<sharer, issued, id>>
       ELSE Refuse(c)

Stop(c) ==
    /\ Request(c)
    /\ IF Sharing(c)
       THEN EndSession(session[c]) /\ UNCHANGED <<sharer, issued, id>>
       ELSE Refuse(c)

JoinRefusedAfresh(c, s, code) == \* the bug: a member may join again
    s \notin sessions \/ code # s \/ Count(s) >= MaxViewers

JoinRefused(c, s, code) ==
    session[c] # None \/ s \notin sessions \/ code # s \/ Count(s) >= MaxViewers

Join(c, s, code) ==
    /\ Request(c)
    /\ IF JoinRefused(c, s, code) THEN Refuse(c)
       ELSE \E p \in PeerId \ issued :
            /\ issued' = issued \cup {p}
            /\ session' = [session EXCEPT ![c] = s]
            /\ id' = [id EXCEPT ![c] = p]
            /\ viewers' = [viewers EXCEPT ![s][p] = c]
            /\ LET n == Cardinality(Taken(s) \cup {p}) IN
               Emit(To2(c, Msg("joined", p, n), sharer[s], Msg("viewer-joined", p, n)))
            /\ UNCHANGED <<sessions, sharer>>

Start(c) ==
    /\ Request(c)
    /\ IF session[c] # None THEN Refuse(c)
       ELSE \E s \in {t \in SessionId : sharer[t] = None} :
            /\ sessions' = sessions \cup {s}
            /\ sharer' = [sharer EXCEPT ![s] = c]
            /\ session' = [session EXCEPT ![c] = s]
            /\ Emit(To(c, Msg("started", None, 0)))
            /\ UNCHANGED <<viewers, issued, id>>

ValidRelayAnyRole(c, type, wellFormed) == wellFormed \* the bug: roles ignored

(* Whether the frame's SDP or candidate decodes is the input wellFormed; who *)
(* may send what is the code's.                                              *)
ValidRelay(c, type, wellFormed) ==
    /\ wellFormed
    /\ type = "offer" => Sharing(c)
    /\ type = "answer" => ~Sharing(c)

Relay(c, type, p, wellFormed) ==
    LET s == session[c] IN
    /\ Request(c)
    /\ IF s = None THEN Refuse(c)
       ELSE IF viewers[s][p] = None \/ c \notin {sharer[s], viewers[s][p]}
       THEN Ignore
       ELSE IF ~ValidRelay(c, type, wellFormed)
       THEN Emit(To(c, Error("rejected", p))) /\ UNCHANGED registry
       ELSE /\ Emit(To(IF Sharing(c) THEN viewers[s][p] ELSE sharer[s],
                       Msg(type, p, 0)))
            /\ UNCHANGED registry

Unknown(c) == Request(c) /\ Refuse(c)

Handle(c) ==
    \/ \E p \in PeerId : DisconnectPeer(c, p)
    \/ Stop(c)
    \/ \E s, code \in SessionId : Join(c, s, code)
    \/ Start(c)
    \/ \E t \in RelayType, p \in PeerId, w \in BOOLEAN : Relay(c, t, p, w)
    \/ Unknown(c)

-----------------------------------------------------------------------------
(* The pinger and the writer goroutine, the network, and Server.Close. *)

Heartbeat(c) ==
    /\ Running(c) /\ conn[c] # "closed"
    /\ Emit(To(c, Msg("heartbeat", None, 0)))
    /\ UNCHANGED <<closed, registry, handler>>

PingFailsQuietly(c) == \* the bug: the pinger gives up, the connection stays
    /\ Running(c) /\ conn[c] = "silent"
    /\ UNCHANGED vars

PingFails(c) ==
    /\ Running(c) /\ conn[c] = "silent"
    /\ Drop({c})
    /\ UNCHANGED <<closed, registry, handler>>

(* The writer takes a message and writes it; a silent peer's kernel may      *)
(* accept bytes that nobody will read.                                       *)
Write(c) ==
    /\ Running(c) /\ out[c] # <<>>
    /\ out' = [out EXCEPT ![c] = Tail(@)]
    /\ UNCHANGED <<closed, registry, handler, conn>>

WriteFails(c) ==
    /\ Running(c) /\ out[c] # <<>>
    /\ Drop({c})
    /\ UNCHANGED <<closed, registry, handler>>

(* The peer closes its end or the network resets the connection. *)
Hangup(c) ==
    /\ handler[c] # "done" /\ conn[c] # "closed"
    /\ Drop({c})
    /\ UNCHANGED <<closed, registry, handler>>

(* The peer's machine or network dies without a trace. *)
GoSilent(c) ==
    /\ handler[c] # "done" /\ conn[c] = "open"
    /\ conn' = [conn EXCEPT ![c] = "silent"]
    /\ UNCHANGED <<closed, registry, handler, out>>

ServerCloseForgets == \* the bug: the connections are left open
    /\ closed' = TRUE
    /\ UNCHANGED <<registry, handler, conn, out>>

(* Close, called from main on a signal and again by its defer. *)
ServerClose ==
    /\ closed' = TRUE
    /\ Drop(clients)
    /\ UNCHANGED <<registry, handler>>

ClientStep(c) ==
    \/ Register(c) \/ Read(c) \/ RejectFrame(c) \/ Handle(c) \/ Leave(c)
    \/ Heartbeat(c) \/ PingFails(c) \/ WriteFails(c)
    \/ Hangup(c) \/ GoSilent(c)

Next == ServerClose \/ \E c \in Client : ClientStep(c) \/ Write(c)

(* A goroutine that can run eventually does: a held frame gets the lock      *)
(* (Go's mutex does not starve a waiter), a failed read runs the cleanup, a  *)
(* queued message is written or its write times out, and a ping to a dead    *)
(* peer times out.  Nothing makes a client connect, send or hang up.         *)
Fairness ==
    \A c \in Client :
        /\ WF_vars(Handle(c))
        /\ WF_vars(Leave(c))
        /\ WF_vars(Write(c) \/ WriteFails(c))
        /\ WF_vars(PingFails(c))

Spec == Init /\ [][Next]_vars
FairSpec == Spec /\ Fairness

-----------------------------------------------------------------------------
(* Properties. *)

(* The registry's two directions agree: a session is in the map exactly      *)
(* while its sharer's client.session points at it; a viewer is in the map of *)
(* exactly the session its client.session and client.id name; a session that *)
(* is not in the map has no viewers; and whoever is in a session still has a *)
(* handler that will clean up after it.                                      *)
Registry ==
    /\ clients = {c \in Client : Running(c)}
    /\ \A c \in Client : session[c] # None => Running(c) /\ session[c] \in sessions
    /\ \A s \in sessions : sharer[s] # None /\ session[sharer[s]] = s
    /\ \A s \in SessionId, p \in PeerId : viewers[s][p] # None =>
          /\ Viewing(viewers[s][p])
          /\ session[viewers[s][p]] = s
          /\ id[viewers[s][p]] = p
          /\ p \in issued
    /\ \A c \in Client : Viewing(c) =>
          id[c] \in PeerId /\ viewers[session[c]][id[c]] = c

(* A session never has more viewers than its limit, also when joins, leaves  *)
(* and disconnect-peer requests of several connections interleave.           *)
Capacity == \A s \in SessionId : Count(s) <= MaxViewers

(* A finished handler leaves nothing behind: its client is not registered,   *)
(* shares no live session and holds no viewer slot of any session.           *)
Reaped ==
    \A c \in Client : handler[c] = "done" =>
        /\ c \notin clients
        /\ session[c] = None
        /\ \A s \in sessions : sharer[s] # c
        /\ \A s \in SessionId : c \notin Members(s)

(* After Close no registered connection is left open, not even one whose     *)
(* handshake raced it.                                                       *)
ShutdownClosesAll == closed => \A c \in clients : conn[c] = "closed"

Moved(c) == handler'[c] # handler[c]

(* Only the sharer's own handler ends a session, and a viewer loses its      *)
(* place only through its own handler or its sharer's: no other connection   *)
(* can put anyone out.                                                       *)
Authority ==
    /\ \A s \in sessions : s \notin sessions' => Moved(sharer[s])
    /\ \A s \in SessionId, p \in PeerId :
          viewers[s][p] # None /\ viewers'[s][p] # viewers[s][p] =>
             Moved(viewers[s][p]) \/ Moved(sharer[s])
MembershipAuthority == [][Authority]_vars

=============================================================================
