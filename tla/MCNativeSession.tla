--------------------------- MODULE MCNativeSession ---------------------------
(* Instances of NativeSession for TLC. *)
EXTENDS NativeSession, TLC

Symmetry == Permutations(PeerId)

(* For the run about viewers: the share is not being ended, and local        *)
(* candidates, which nothing in these properties tells apart, are not sent;  *)
(* one request is on its way at a time.                                      *)
Sharing ==
    /\ run = "reading" /\ stop = "none" /\ pump = "running" /\ linkUp /\ ~cancelled
    /\ \A p \in PeerId : iced[p] = "no"
    /\ Len(toServer) <= 1
=============================================================================
