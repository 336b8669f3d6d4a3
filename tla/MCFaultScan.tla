----------------------------- MODULE MCFaultScan -----------------------------
(***************************************************************************)
(* The scan of the dashboard: TD5, SLABS, Airbag.  Td5 gets three attempts *)
(* (6 in the code) and the others two (3 in the code): first, middle and   *)
(* last attempt all occur.                                                 *)
(***************************************************************************)
EXTENDS FaultScan

CONSTANTS Td5, Slabs, Airbag

MCScanOrder == <<Td5, Slabs, Airbag>>
MCAttempts == [m \in {Td5, Slabs, Airbag} |-> IF m = Td5 THEN 3 ELSE 2]

=============================================================================
