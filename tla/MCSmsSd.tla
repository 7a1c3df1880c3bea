------------------------------ MODULE MCSmsSd ------------------------------
(* Small cards for SmsSd.                                                   *)
EXTENDS SmsSd

\* Blocks whose bytes can be mistaken for a response or for a token, and which
\* are longer than a command.  Sector 8 is where the byte address of sector 1
\* leads on a card that counts blocks.
Blocks == [s \in {0, 1, 8} |-> CASE s = 0 -> <<254, 0, 9, 9, 254, 0, 9, 9>>
                                [] s = 1 -> <<1, 254, 0, 1, 254, 1, 254, 1>>
                                [] s = 8 -> <<0, 5, 0, 0, 1, 9, 254, 0>>]

\* The card may be pulled out at any time but while a block is stored, and while
\* the rest of a response that has been judged already is read away.
Unattended == States \ {"data", "skip"}
=============================================================================
