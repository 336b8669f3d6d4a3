------------------------------ MODULE BusTools ------------------------------
(***************************************************************************)
(* The mapping tools on the one adapter and the one signal store.  The     *)
(* adapter is with a mapper that reads or with the sniffer that listens to *)
(* another tester, never with both.  What is saved depends on what was     *)
(* read through the labels alone, which the user chooses: so the saving of *)
(* fields is followed with the adapter at rest.                            *)
(***************************************************************************)
EXTENDS InputMapper, Sniffer, Mapping

vars == <<mapperVars, snifferVars, mappingVars>>

Init ==
  /\ tool \in Mappers \union {"sniffer", "none"}
  /\ MapperInit /\ SnifferInit /\ MappingInit

Next ==
  \/ MapperStep /\ UNCHANGED <<snifferVars, mappingVars>>
  \/ tool = "sniffer" /\ SnifferStep /\ UNCHANGED <<mapperVars, mappingVars>>
  \/ tool = "none" /\ MappingStep /\ UNCHANGED <<mapperVars, snifferVars>>

Spec == Init /\ [][Next]_vars

TypeOK == MapperTypeOK /\ SnifferTypeOK /\ MappingTypeOK

=============================================================================
