----------------------------- MODULE MCNetwork ------------------------------
(* Network for TLC: one temperature, times in units of the longest step.   *)
EXTENDS Network

MCNoTemp  == -3
MCOneTemp == {0}
MCRed     == [s \in Sites |-> 0]
MCYellow  == [s \in Sites |-> -1]
=============================================================================
