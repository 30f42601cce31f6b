------------------------------ MODULE MCDongle ------------------------------
(* Dongle for TLC: thresholds in steps of one, times in units of about the *)
(* wait for the button; the orders of the constants are those of the code. *)
EXTENDS Dongle

MCNoTemp   == -3
MCTemps    == {-1, 0, 1}
MCTwoTemps == {-1, 1}
MCRed      == [s \in Sites |-> 0]
MCYellow   == [s \in Sites |-> -1]
=============================================================================
