----------------------------- MODULE MCBusTools -----------------------------
(***************************************************************************)
(* A key in one identifier and a bit of noise in another, either of which  *)
(* may fail; modules with and without a signature.                         *)
(***************************************************************************)
EXTENDS BusTools

MCLids == <<"1e", "36">>
MCCarStates == {"off", "on", "noise"}

MCBlockOf == [c \in MCCarStates |->
  [lid \in {"1e", "36"} |->
     IF lid = "1e" THEN <<IF c = "on" THEN {0} ELSE {}>> ELSE <<IF c = "noise" THEN {1} ELSE {}>>]]
MCShown == [c \in MCCarStates |-> IF c = "noise" THEN "off" ELSE c]

MCPosted == {Field("key", "1e", 1, {0}, <<>>), Field("door", "1e", 1, {1}, <<>>)}

=============================================================================
