------------------------------ MODULE MCAppAudio ------------------------------
(* AppAudio on a small instance. *)
EXTENDS AppAudio
=============================================================================
