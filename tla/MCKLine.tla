------------------------------- MODULE MCKLine -------------------------------
(***************************************************************************)
(* Two reads of one service with different identifiers, and the inits.     *)
(***************************************************************************)
EXTENDS KLine

MCSid == [read09 |-> "21", read0D |-> "21"]
MCMaxWire == [serial |-> 3, bridge |-> 2]

=============================================================================
