------------------------------ MODULE MCSender ------------------------------
(* Sender for TLC: the numbers of the pins are the board's; the counters   *)
(* wrap early, so that they wrap within a few boots.                       *)
EXTENDS Sender

MCOtherPins == {27, 36}
=============================================================================
