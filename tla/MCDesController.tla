--------------------------- MODULE MCDesController ---------------------------
(* The controller alone, under any sequence of messages: two nonzero numbers *)
(* so that one crossing's id and weight differ from the next one's.          *)
EXTENDS DesController

MCExtras == 0..2
=============================================================================
