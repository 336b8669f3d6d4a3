---------------------------- MODULE BoundedOutbox ----------------------------
(***************************************************************************)
(* What the contribution client promises about a reading it has accepted:  *)
(* readings that could not be sent wait in order, the oldest is sent       *)
(* first, a full outbox gives up its oldest reading and no other, and only *)
(* the loss of the whole configuration file loses more.  The order of the  *)
(* waiting readings is a relation.                                         *)
(***************************************************************************)
EXTENDS Naturals, FiniteSets

CONSTANTS
  Readings,   \* what the user may contribute
  MaxOutbox   \* _MAX_OUTBOX

VARIABLES
  waiting,    \* accepted, not yet at the endpoint
  before,     \* pairs of waiting readings, the older one first
  received,   \* at the endpoint, once or several times
  lost        \* given up

outboxVars == <<waiting, before, received, lost>>

Init ==
  /\ waiting = {}
  /\ before = {}
  /\ received = {}
  /\ lost = {}

Oldest(r) == r \in waiting /\ \A x \in waiting : <<x, r>> \notin before
Unheard == Readings \ (waiting \union received \union lost)

Leave(r) ==
  /\ waiting' = waiting \ {r}
  /\ before' = before \cap (waiting' \X waiting')

SendDirectly(r) ==
  /\ r \notin waiting
  /\ received' = received \union {r}
  /\ UNCHANGED <<waiting, before, lost>>

SendOldest(r) ==
  /\ Oldest(r)
  /\ received' = received \union {r}
  /\ Leave(r)
  /\ UNCHANGED lost

Keep(r) ==
  /\ r \in Unheard
  /\ Cardinality(waiting) < MaxOutbox
  /\ waiting' = waiting \union {r}
  /\ before' = before \union (waiting \X {r})
  /\ UNCHANGED <<received, lost>>

GiveUpOldest(r) ==
  /\ Oldest(r)
  /\ lost' = lost \union {r}
  /\ Leave(r)
  /\ UNCHANGED received

GiveUpFor(r, new) ==
  /\ Oldest(r)
  /\ new \in Unheard
  /\ LET rest == waiting \ {r}
     IN /\ waiting' = rest \union {new}
        /\ before' = (before \cap (rest \X rest)) \union (rest \X {new})
  /\ lost' = lost \union {r}
  /\ UNCHANGED received

LoseFile ==
  /\ lost' = lost \union waiting
  /\ waiting' = {}
  /\ before' = {}
  /\ UNCHANGED received

Next ==
  \/ \E r \in Readings :
       SendDirectly(r) \/ SendOldest(r) \/ Keep(r) \/ GiveUpOldest(r)
  \/ \E r, new \in Readings : GiveUpFor(r, new)
  \/ LoseFile

Spec == Init /\ [][Next]_outboxVars

=============================================================================
