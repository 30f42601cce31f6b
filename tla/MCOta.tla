-------------------------------- MODULE MCOta --------------------------------
(* Ota for TLC.  A firmware of 3 bytes in chunks of 2 has a short last      *)
(* chunk, one of 4 bytes an empty one.                                      *)
EXTENDS Ota, TLC

CONSTANTS v0, v1, v2

MCVersions   == {v0, v1, v2}
MCNew        == {v1, v2}
MCOneNew     == {v1}
MCNone       == {}
\* For safety only: the firmwares that can be assigned are alike.
MCSymmetry == Permutations({v1, v2})
==============================================================================
