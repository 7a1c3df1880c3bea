---------------------------- MODULE MCPs2Keyboard ----------------------------
(* Two codes whose frames differ in data and parity.                          *)
EXTENDS Ps2Keyboard

\* A make code with odd and the break prefix with even parity.
MCCodes == {28, 240}
=============================================================================
