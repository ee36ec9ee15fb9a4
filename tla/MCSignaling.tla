----------------------------- MODULE MCSignaling -----------------------------
(* Instances of Signaling for TLC. *)
EXTENDS SignalingAccess, TLC

(* Connections and tokens are interchangeable: no definition names one. *)
Symmetry == Permutations(Client) \cup Permutations(PeerId) \cup Permutations(SessionId)

(* One frame at a time waits for the lock: what it asks is chosen when it is *)
(* handled, so a second waiting frame only delays its own connection.        *)
OneRequest == Cardinality({c \in Client : handler[c] = "holding"}) <= 1
=============================================================================
