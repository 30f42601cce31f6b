----------------------------- MODULE MCEspRadio -----------------------------
(* Instances of EspRadio for TLC: frames of our protocol and of one other. *)
EXTENDS EspRadio

CONSTANTS espThb, otherEsp   \* model values: the two protocol ids

MCProtocols == {espThb, otherEsp}
=============================================================================
