------------------------------- MODULE Sniffer -------------------------------
(***************************************************************************)
(* The passive sniff feed of the Map tab: a thread that reads lines of bus *)
(* traffic between another tester and the modules of the car, opens the    *)
(* port again when it is lost, and keeps the latest answer of each module. *)
(* The lines say which module is spoken to only at its fast init.          *)
(***************************************************************************)
EXTENDS Naturals

CONSTANTS
  BusModules,  \* the modules another tester speaks to
  Signed       \* those with a known fast-init signature

ASSUME SnifferAssumption == Signed \subseteq BusModules

VARIABLES
  bus,        \* external: the module in session
  noticed,    \* history: its init was on a line the feed read, and has a signature
  feed,       \* status of the feed: starting, live, error, empty
  current,    \* LidStore.module
  slots       \* LidStore._data: per module, who sent the latest answer, and if noticed

snifferVars == <<bus, noticed, feed, current, slots>>

Empty == [by |-> "none", noticed |-> FALSE]

SnifferInit ==
  /\ bus = "none" /\ noticed = FALSE
  /\ feed = "starting"
  /\ current = "?"
  /\ slots = [m \in Signed \union {"?"} |-> Empty]

FirstModuleOnly(m) ==  \* mutant: the module, once known, stays
  IF current = "?" THEN m ELSE current

ModuleAfter(m) == m

(***************************************************************************)
(* Another tester starts a session; the line reaches the feed whole or not *)
(* at all.  The modules without a signature are not recognised.            *)
(***************************************************************************)
LineOfInit(m) ==
  /\ bus' = m
  /\ \/ /\ feed # "empty"
        /\ feed' = "live"
        /\ noticed' = (m \in Signed)
        /\ current' = IF m \in Signed THEN ModuleAfter(m) ELSE current
     \/ noticed' = FALSE /\ UNCHANGED <<feed, current>>
  /\ UNCHANGED slots

(* An answer to a read, stored unchecked under the module last recognised. *)
LineOfAnswer ==
  /\ bus # "none"
  /\ feed # "empty"
  /\ feed' = "live"
  /\ slots' = [slots EXCEPT ![current] = [by |-> bus, noticed |-> noticed]]
  /\ UNCHANGED <<bus, noticed, current>>

(***************************************************************************)
(* The port is lost, and opened again until a line comes; or a replay ends *)
(* before its first line, and with it the thread.                          *)
(***************************************************************************)
PortLost ==
  /\ feed \in {"starting", "live"}
  /\ feed' = "error"
  /\ UNCHANGED <<bus, noticed, current, slots>>

ReplayEnds ==
  /\ feed = "starting"
  /\ feed' = "empty"
  /\ UNCHANGED <<bus, noticed, current, slots>>

SnifferStep ==
  \/ \E m \in BusModules : LineOfInit(m)
  \/ LineOfAnswer \/ PortLost \/ ReplayEnds

(***************************************************************************)
(* What the page is told: the answers of the module it asks for, or of the *)
(* current one.  What was heard before any init is kept under "?" and      *)
(* shown only when asked for by that name.                                 *)
(***************************************************************************)
Heard == {m \in DOMAIN slots : slots[m] # Empty}

Snapshot(asked) ==
  LET m == IF asked = "none" THEN current ELSE asked
  IN [module |-> m, modules |-> Heard,
      answers |-> IF asked = "none" /\ m = "?" THEN {}
                  ELSE {slots[x] : x \in Heard \cap {m}}]

(* Of whatever age: the status tells a feed that is away from a quiet bus. *)
FeedSnapshot(asked) == [page |-> Snapshot(asked), status |-> feed]

-----------------------------------------------------------------------------
SnifferTypeOK ==
  /\ bus \in BusModules \union {"none"}
  /\ noticed \in BOOLEAN
  /\ feed \in {"starting", "live", "error", "empty"}
  /\ current \in Signed \union {"?"}
  /\ slots \in [Signed \union {"?"} ->
                [by : BusModules \union {"none"}, noticed : BOOLEAN]]

(***************************************************************************)
(* What the Map tab shows under a module came from that module, unless the *)
(* init of the session it came from was not noticed: the feed was away, or *)
(* the module (BCU, airbag) has no signature.                              *)
(***************************************************************************)
SniffedIsAttributed ==
  \A asked \in Signed \union {"none"} :
    LET page == FeedSnapshot(asked).page
    IN \A answer \in page.answers : answer.noticed => answer.by = page.module

=============================================================================
