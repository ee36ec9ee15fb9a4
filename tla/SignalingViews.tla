--------------------------- MODULE SignalingViews ---------------------------
(***************************************************************************)
(* What the far ends of the signaling connections can rely on: properties  *)
(* of the message streams, with what each far end has been told, and the   *)
(* liveness of the server.                                                 *)
(***************************************************************************)
EXTENDS Signaling

VARIABLE told \* history: what the delivered messages have told each far end

(* The view a peer program builds from the messages it receives: the native  *)
(* sharer keeps peers and a viewer count, the viewer page its own peer id.   *)
View == [sharing : BOOLEAN, peers : SUBSET PeerId, count : Nat,
         self : PeerId \cup {None}]
NoView == [sharing |-> FALSE, peers |-> {}, count |-> 0, self |-> None]

(* The page leaves its place at any error; only this one ends the membership *)
(* first, after the others it hangs up.                                      *)
PageHears(v, m) ==
    CASE m.type = "joined" -> [NoView EXCEPT !.self = m.peer]
      [] m.type = "error" /\ m.error = "connection-failed" -> NoView
      [] OTHER -> v

Hear(v, m) ==
    CASE m.type = "started" -> [NoView EXCEPT !.sharing = TRUE]
      [] m.type = "viewer-joined" ->
            [v EXCEPT !.peers = @ \cup {m.peer}, !.count = m.viewers]
      [] m.type = "viewer-left" ->
            [v EXCEPT !.peers = @ \ {m.peer}, !.count = m.viewers]
      [] m.type = "stopped" -> NoView
      [] OTHER -> PageHears(v, m)

InitViews == Init /\ told = [c \in Client |-> NoView]

(* A write to an open connection arrives; one to a silent peer is lost. *)
Deliver(c) ==
    /\ Write(c)
    /\ told' = IF conn[c] = "open"
               THEN [told EXCEPT ![c] = Hear(@, Head(out[c]))] ELSE told

NextViews ==
    \/ \E c \in Client : Deliver(c)
    \/ (ServerClose \/ \E c \in Client : ClientStep(c)) /\ UNCHANGED told

viewVars == <<vars, told>>
SpecViews == InitViews /\ [][NextViews]_viewVars
FairViews == SpecViews /\ Fairness

-----------------------------------------------------------------------------

(* The views that a far end with view v passes through as it receives q: the *)
(* n-th is the one after n messages.                                         *)
Heard(v, q) ==
    LET view[n \in 0 .. Len(q)] ==
            IF n = 0 THEN v ELSE Hear(view[n - 1], q[n])
    IN  view

(* What c will believe, message by message, of what is queued for it. *)
Foreseen(c) == Heard(told[c], out[c])

(* The view the server's registry gives of c. *)
Actual(c) ==
    [sharing |-> Sharing(c),
     peers |-> IF Sharing(c) THEN Taken(session[c]) ELSE {},
     self |-> IF Viewing(c) THEN id[c] ELSE None]

Matches(v, a) ==
    [sharing |-> v.sharing, peers |-> v.peers, self |-> v.self] = a

Counted(v) == v.count = Cardinality(v.peers)

(* The relayed message m is one that a far end with view v can expect. *)
Due(v, m) ==
    \/ m.type # "offer" /\ v.sharing /\ m.peer \in v.peers
    \/ m.type # "answer" /\ v.self = m.peer

(* No update is lost, reordered or duplicated: when everything queued for an *)
(* open connection is delivered, its program knows exactly the viewers (or   *)
(* its own place) that the registry holds; and at every moment until then    *)
(* the viewer count that a sharer shows is the number of viewers it knows by *)
(* name (session_linux.go shows Viewers and keeps peers).                    *)
ViewsAgree ==
    \A c \in clients : conn[c] = "open" =>
        /\ Matches(Foreseen(c)[Len(out[c])], Actual(c))
        /\ \A n \in 0 .. Len(out[c]) : Counted(Foreseen(c)[n])

(* Relayed signaling reaches a sharer only between viewer-joined and         *)
(* viewer-left of that viewer, a viewer only between its joined and the end  *)
(* of its membership, and no sharer gets an offer, no viewer an answer.      *)
RelayInOrder ==
    \A c \in clients : conn[c] = "open" =>
        \A i \in 1 .. Len(out[c]) : out[c][i].type \in RelayType =>
            Due(Foreseen(c)[i - 1], out[c][i])

-----------------------------------------------------------------------------
(* Nobody whose connection is dead keeps its place: a session whose sharer   *)
(* is gone or unresponsive ends, a viewer's slot becomes free again.  The    *)
(* ping (20 s and 10 s) finds the silent ones, the failed read cleans up.    *)
DeadMembersLeave ==
    \A c \in Client : (session[c] # None /\ conn[c] # "open") ~> (session[c] = None)

(* A viewer that believes in a membership the server has ended learns of it, *)
(* or its connection is closed.                                              *)
EndIsTold ==
    \A p \in PeerId, c \in Client :
        (told[c].self = p /\ \A s \in SessionId : viewers[s][p] # c)
            ~> (told[c].self # p \/ conn[c] = "closed")

(* Close empties the registry. *)
ShutdownCompletes == closed ~> (clients = {} /\ sessions = {})
=============================================================================
