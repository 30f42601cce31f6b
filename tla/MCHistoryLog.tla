---------------------------- MODULE MCHistoryLog ----------------------------
(* HistoryLog for TLC: readings below, at and above zero.                  *)
EXTENDS HistoryLog

MCNoTemp == -400
MCTemps  == {-12, 0, 7}
=============================================================================
