----------------------------- MODULE InputMapper -----------------------------
(***************************************************************************)
(* The differential mappers that look for the bit behind an input of the   *)
(* car: map_inputs (a console that watches for moving bits), map_gui (the  *)
(* same as a web page: a polling loop and HTTP handlers that share a lock) *)
(* and the baseline of diffmap.  Each first samples the bus while nothing  *)
(* is touched, to tell noise from the input.                               *)
(***************************************************************************)
EXTENDS FieldSearch

CONSTANTS
  MaxBaseline,  \* bound: blocks of one baseline
  MaxFails      \* empty reads of map_gui before it connects again: 5 in the program

Mappers == {"diffmap", "map_inputs", "map_gui"}

ASSUME InputMapperAssumption == MaxBaseline \in Nat \ {0} /\ MaxFails \in Nat \ {0}

VARIABLES
  tool,        \* the tool on the bus
  car,         \* state of the inputs
  phase,       \* "baseline", "watch"; map_inputs also "label", "crashed"
  inflight,    \* map_gui: the block its loop has read and not yet taken in
  blocks,      \* the blocks of the baseline
  window,      \* map_inputs: the last three blocks
  mask,        \* noisy bits
  ref,         \* resting levels
  touched,     \* bits that have moved
  fails        \* map_gui: empty reads in a row

mapperVars == <<tool, car, phase, inflight, blocks, window, mask, ref, touched, fails>>

NoBlock == [none |-> <<>>]
Keys == UNION {BitsOf(BlockOf[c]) : c \in CarStates}

MapperInit ==
  /\ car \in CarStates
  /\ phase = "baseline"
  /\ inflight = NoBlock
  /\ blocks = <<>> /\ window = <<>>
  /\ mask = {} /\ ref = <<>> /\ touched = {}
  /\ fails = 0

CarMoves ==
  /\ tool \in Mappers
  /\ car' \in CarStates \ {car}
  /\ UNCHANGED <<tool, phase, inflight, blocks, window, mask, ref, touched, fails>>

(***************************************************************************)
(* read_block: an identifier that fails is left out.                       *)
(***************************************************************************)
ReadBlock ==
  {[lid \in answered |-> BlockOf[car][lid]] : answered \in SUBSET DOMAIN BlockOf[car]}

-----------------------------------------------------------------------------
(***************************************************************************)
(* diffmap: whole bytes that were equal in every baseline block and differ *)
(* now (stable_diff); shown, and not used by the search.                   *)
(***************************************************************************)
StableDiff(bases, after) ==
  LET lasting(lid, off) ==
        \A k \in DOMAIN bases :
          /\ lid \in DOMAIN bases[k] /\ off \in DOMAIN bases[k][lid]
          /\ bases[k][lid][off] = bases[1][lid][off]
      moved(lid) == {off \in DOMAIN after[lid] :
                       lasting(lid, off) /\ after[lid][off] # bases[1][lid][off]}
  IN UNION {{lid} \X moved(lid) : lid \in DOMAIN after}

ReadBaselines ==
  /\ tool = "diffmap" /\ phase = "baseline"
  /\ \E block \in ReadBlock : blocks' = Append(blocks, block)
  /\ phase' = IF Len(blocks') = MaxBaseline THEN "watch" ELSE phase
  /\ UNCHANGED <<tool, car, inflight, window, mask, ref, touched, fails>>

ReadMoved ==
  /\ tool = "diffmap" /\ phase = "watch"
  /\ \E after \in ReadBlock :
       LET moved == StableDiff(blocks, after)
       IN touched' = {key \in BitsOf(after) : \E m \in moved : key[1] = m[1] /\ key[2] = m[2]}
  /\ UNCHANGED <<tool, car, phase, inflight, blocks, window, mask, ref, fails>>

NextField ==
  /\ tool = "diffmap" /\ phase = "watch"
  /\ phase' = "baseline" /\ blocks' = <<>> /\ touched' = {}
  /\ UNCHANGED <<tool, car, inflight, window, mask, ref, fails>>

(***************************************************************************)
(* The end of a baseline: what moved is masked, the rest has a level.      *)
(***************************************************************************)
EndBaseline(series) ==
  LET noisy == VolatileBits(series)
  IN /\ mask' = noisy
     /\ ref' = StableBits(series, noisy)
     /\ phase' = "watch"

(***************************************************************************)
(* map_inputs takes empty blocks in as well; it watches the mode of the    *)
(* last three blocks and follows every change.                             *)
(***************************************************************************)
TakeBaseline ==
  /\ tool = "map_inputs" /\ phase = "baseline"
  /\ Len(blocks) < MaxBaseline
  /\ \E block \in ReadBlock : blocks' = Append(blocks, block)
  /\ EndBaseline(blocks') \/ UNCHANGED <<mask, ref, phase>>
  /\ UNCHANGED <<tool, car, inflight, window, touched, fails>>

Watch ==
  /\ tool = "map_inputs" /\ phase = "watch"
  /\ \E block \in ReadBlock :
       LET series == Append(window, block)
           last == SubSeq(series, Max({1, Len(series) - 2}), Len(series))
           levels == StableBits(last, mask)
           moved == ChangedBits(ref, levels)
       IN /\ window' = last
          /\ touched' = touched \union moved
          /\ ref' = [key \in DOMAIN ref |-> IF key \in moved THEN levels[key] ELSE ref[key]]
  /\ UNCHANGED <<tool, car, phase, inflight, blocks, mask, fails>>

StopWatching ==
  /\ tool = "map_inputs" /\ phase = "watch"
  /\ touched # {}
  /\ phase' = "label"
  /\ UNCHANGED <<tool, car, inflight, blocks, window, mask, ref, touched, fails>>

(* any() is given a Boolean: the first prompt raises, before any save. *)
LabelMoved ==
  /\ tool = "map_inputs" /\ phase = "label"
  /\ phase' = "crashed"
  /\ UNCHANGED <<tool, car, inflight, blocks, window, mask, ref, touched, fails>>

-----------------------------------------------------------------------------
(***************************************************************************)
(* map_gui: the loop reads without the lock and takes the block in under   *)
(* it; the handlers of the page run between the two.  After MaxFails empty *)
(* reads it connects again, and goes on trying when that fails.            *)
(***************************************************************************)
GuiRead ==
  /\ tool = "map_gui"
  /\ inflight = NoBlock
  /\ inflight' \in ReadBlock
  /\ UNCHANGED <<tool, car, phase, blocks, window, mask, ref, touched, fails>>

GuiReadFailed ==
  /\ tool = "map_gui"
  /\ inflight # NoBlock /\ DOMAIN inflight = {}
  /\ inflight' = NoBlock
  /\ fails' \in IF fails + 1 < MaxFails THEN {fails + 1} ELSE {0, MaxFails}
  /\ UNCHANGED <<tool, car, phase, blocks, window, mask, ref, touched>>

GuiBaseline ==
  /\ tool = "map_gui" /\ phase = "baseline"
  /\ inflight # NoBlock /\ DOMAIN inflight # {}
  /\ Len(blocks) < MaxBaseline
  /\ blocks' = Append(blocks, inflight)
  /\ \/ Len(blocks') > 1 /\ EndBaseline(blocks')
     \/ UNCHANGED <<mask, ref, phase>>
  /\ inflight' = NoBlock
  /\ fails' = 0
  /\ UNCHANGED <<tool, car, window, touched>>

GuiWatch ==
  /\ tool = "map_gui" /\ phase = "watch"
  /\ inflight # NoBlock /\ DOMAIN inflight # {}
  /\ touched' = touched \union
       {key \in BitsOf(inflight) :
          key \notin mask /\ key \in DOMAIN ref /\ ref[key] # Level(inflight, key)}
  /\ inflight' = NoBlock
  /\ fails' = 0
  /\ UNCHANGED <<tool, car, phase, blocks, window, mask, ref>>

RebaselineKeepsMarks ==  \* mutant: bits that moved before stay marked
  /\ tool = "map_gui"
  /\ phase' = "baseline"
  /\ blocks' = <<>>
  /\ UNCHANGED <<tool, car, inflight, window, mask, ref, touched, fails>>

Rebaseline ==
  /\ tool = "map_gui"
  /\ phase' = "baseline"
  /\ blocks' = <<>>
  /\ touched' = {}
  /\ UNCHANGED <<tool, car, inflight, window, mask, ref, fails>>

ClearChanges ==
  /\ tool = "map_gui"
  /\ touched' = {}
  /\ UNCHANGED <<tool, car, phase, inflight, blocks, window, mask, ref, fails>>

MapperStep ==
  \/ CarMoves
  \/ ReadBaselines \/ ReadMoved \/ NextField
  \/ TakeBaseline \/ Watch \/ StopWatching \/ LabelMoved
  \/ GuiRead \/ GuiReadFailed \/ GuiBaseline \/ GuiWatch
  \/ Rebaseline \/ ClearChanges

-----------------------------------------------------------------------------
MapperTypeOK ==
  /\ car \in CarStates
  /\ phase \in {"baseline", "watch", "label", "crashed"}
  /\ Len(blocks) <= MaxBaseline /\ Len(window) <= 3
  /\ mask \subseteq Keys /\ DOMAIN ref \subseteq Keys /\ touched \subseteq Keys
  /\ \A key \in DOMAIN ref : ref[key] \in {0, 1}
  /\ fails \in 0 .. MaxFails

(***************************************************************************)
(* A bit offered for labelling because it moved was read in every block of *)
(* the baseline in force; it rested there, or (diffmap) its byte did:      *)
(* noise and the moves of an earlier baseline are not offered.             *)
(***************************************************************************)
ChangedBitsRested ==
  touched # {} =>
    /\ phase # "baseline"
    /\ touched \subseteq CommonBits(blocks) \ VolatileBits(blocks)

=============================================================================
