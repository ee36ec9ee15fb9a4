---------------------------- MODULE MCBrowserSharer ----------------------------
(* The capturing sharer page on small instances. *)
EXTENDS BrowserSharer, TLC

PeerSymmetry == Permutations(PeerId)
=============================================================================
