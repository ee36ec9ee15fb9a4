--------------------------- MODULE SignalingAccess ---------------------------
(* The signaling server implements ShareAccess: the sessions of the registry *)
(* are the shares in progress, the clients in a session's viewers map its    *)
(* members.                                                                  *)
EXTENDS Signaling

Access == INSTANCE ShareAccess WITH
    active <- sessions,
    owner <- sharer,
    members <- [s \in SessionId |-> Members(s)]

(* Every step of the server, whatever connection takes it, is one change of  *)
(* access or none.                                                           *)
ImplementsAccess == Access!AccessSpec
=============================================================================
