---------------------------- MODULE MCDiagServer ----------------------------
(***************************************************************************)
(* Two tabs, a scan of two modules, two commands of any kind.          *)
(***************************************************************************)
EXTENDS DiagServer

CONSTANTS Td5, Slabs, Airbag

MCScanOrder == <<Td5, Airbag>>
MCAttempts == [m \in {Td5, Slabs, Airbag} |-> 2]

=============================================================================
