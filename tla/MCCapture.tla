------------------------------- MODULE MCCapture -------------------------------
(* Capture on a small instance: words of 4 and 8 bits, seconds of 12 ticks. *)
EXTENDS Capture

Rates == [s \in Sink |-> IF s = "video" THEN 9 ELSE 5]
Offsets == [s \in Sink |-> IF s = "video" THEN 13 ELSE 2]
=============================================================================
