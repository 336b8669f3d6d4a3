--------------------------- MODULE CommandService ---------------------------
(***************************************************************************)
(* What the dashboard promises the browsers that send it commands: the     *)
(* commands run one at a time, each once, in the order they were accepted; *)
(* a browser is told the result of its own command once that has run, or   *)
(* is told that it took too long.  Nothing is promised about a command     *)
(* whose browser gave up: it still runs in its turn.                       *)
(***************************************************************************)
EXTENDS Integers

CONSTANT MaxCmds  \* commands of one history

VARIABLES
  stage,  \* how far each command has come
  told    \* what its browser has been told

Ids == 1 .. MaxCmds

serviceVars == <<stage, told>>

ServiceInit ==
  /\ stage = [i \in Ids |-> "new"]
  /\ told = [i \in Ids |-> "nothing"]

Before(i) == {j \in Ids : j < i}

(***************************************************************************)
(* The next command is accepted.                                           *)
(***************************************************************************)
Accept(i) ==
  /\ stage[i] = "new"
  /\ \A j \in Before(i) : stage[j] # "new"
  /\ stage' = [stage EXCEPT ![i] = "queued"]
  /\ told' = [told EXCEPT ![i] = "waiting"]

(***************************************************************************)
(* A command starts when all the earlier ones have run.                    *)
(***************************************************************************)
Start(i) ==
  /\ stage[i] = "queued"
  /\ \A j \in Before(i) : stage[j] = "done"
  /\ stage' = [stage EXCEPT ![i] = "running"]
  /\ UNCHANGED told

Complete(i) ==
  /\ stage[i] = "running"
  /\ stage' = [stage EXCEPT ![i] = "done"]
  /\ UNCHANGED told

Reply(i) ==
  /\ told[i] = "waiting"
  /\ \/ /\ stage[i] = "done"
        /\ told' = [told EXCEPT ![i] = "result"]
     \/ /\ stage[i] # "done"
        /\ told' = [told EXCEPT ![i] = "timeout"]
  /\ UNCHANGED stage

ServiceNext == \E i \in Ids : Accept(i) \/ Start(i) \/ Complete(i) \/ Reply(i)

ServiceSpec == ServiceInit /\ [][ServiceNext]_serviceVars

=============================================================================
