------------------------------- MODULE MCViews -------------------------------
(* Instances of SignalingViews for TLC. *)
EXTENDS SignalingViews, FiniteSetsExt, TLC

CONSTANT TrafficBound \* messages in all queues together

Symmetry == Permutations(Client) \cup Permutations(PeerId) \cup Permutations(SessionId)

(* Few messages queued, one frame waiting for the lock (what a frame asks is *)
(* chosen when it is handled), no silent peer, no shutdown: these properties  *)
(* are about open connections, and the registry run covers the rest.          *)
Bounds ==
    /\ MapThenSumSet(LAMBDA c : Len(out[c]), Client) <= TrafficBound
    /\ Cardinality({c \in Client : handler[c] = "holding"}) <= 1
    /\ \A c \in Client : conn[c] # "silent"
    /\ ~closed
=============================================================================
