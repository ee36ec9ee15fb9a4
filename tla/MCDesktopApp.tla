----------------------------- MODULE MCDesktopApp -----------------------------
(* DesktopApp on a small instance: two shares, one after the other. *)
EXTENDS DesktopApp
=============================================================================
