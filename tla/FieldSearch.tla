----------------------------- MODULE FieldSearch -----------------------------
(***************************************************************************)
(* Finding the field behind an input in raw blocks: the bit arithmetic of  *)
(* the input mappers (noise mask, resting levels), the search for the bit  *)
(* or byte that tells labelled readings apart, and the stored field that   *)
(* comes of it.  A byte is the set of its bits that are one; a block maps  *)
(* the identifiers that answered to their bytes.  Numeric fields (a linear *)
(* fit over floats) are left out.                                          *)
(***************************************************************************)
EXTENDS Naturals, FiniteSetsExt, SequencesExt

CONSTANTS
  Lids,       \* the candidate identifiers, in the order they are searched
  Bits,       \* the bits of a byte that the instance has: 0 .. 7 in the program
  CarStates,  \* positions of the inputs, with the noise
  BlockOf     \* CarStates -> the block read in that state

ASSUME FieldSearchAssumption ==
  /\ Lids \in Seq(Range(Lids))
  /\ Bits \subseteq Nat /\ Cardinality(Bits) > 1
  /\ CarStates = DOMAIN BlockOf
  /\ \A car \in CarStates : \A lid \in DOMAIN BlockOf[car] :
       BlockOf[car][lid] \in Seq(SUBSET Bits)

BitsOf(block) ==
  UNION {{<<lid, off, bit>> : off \in DOMAIN block[lid], bit \in Bits} : lid \in DOMAIN block}
Level(block, key) == IF key[3] \in block[key[1]][key[2]] THEN 1 ELSE 0

(***************************************************************************)
(* A bit counts only when every block of the series has it.                *)
(***************************************************************************)
CommonBits(blocks) ==
  {key \in BitsOf(Head(blocks)) : \A k \in DOMAIN blocks : key \in BitsOf(blocks[k])}

VolatileBits(blocks) ==
  {key \in CommonBits(blocks) : \E k \in DOMAIN blocks :
     Level(blocks[k], key) # Level(Head(blocks), key)}

(* The mode of the series; a tie counts as zero. *)
StableBits(blocks, mask) ==
  LET ones(key) == Cardinality({k \in DOMAIN blocks : Level(blocks[k], key) = 1})
  IN [key \in CommonBits(blocks) \ mask |->
        IF ones(key) * 2 > Len(blocks) THEN 1 ELSE 0]

ChangedBits(ref, levels) ==
  {key \in DOMAIN ref \intersect DOMAIN levels : ref[key] # levels[key]}

-----------------------------------------------------------------------------
(***************************************************************************)
(* A stored field.  The mask selects one bit, or the whole byte; states    *)
(* gives the label of each raw value that has one.                         *)
(***************************************************************************)
Field(name, lid, off, mask, states) ==
  [name |-> name, lid |-> lid, off |-> off, mask |-> mask, states |-> states]
NoField == Field("none", "none", 0, {}, <<>>)

Fits(field, bytes) == Len(bytes) >= field.off
Raw(bytes, off, mask) == bytes[off] \intersect mask

DecodeNamed(field, bytes) ==
  LET raw == Raw(bytes, field.off, field.mask)
  IN IF raw \in DOMAIN field.states THEN field.states[raw] ELSE "none"

(***************************************************************************)
(* search_state: a place fits when equal labels have equal raw values and  *)
(* different labels different ones, in every reading.                      *)
(***************************************************************************)
Undistinguished(samples, lid, off, mask) ==  \* mutant: different labels may look the same
  \A s, t \in samples :
     s.label = t.label => Raw(s.block[lid], off, mask) = Raw(t.block[lid], off, mask)

Consistent(samples, lid, off, mask) ==
  \A s, t \in samples :
     s.label = t.label <=> Raw(s.block[lid], off, mask) = Raw(t.block[lid], off, mask)

Places(samples) ==
  LET answered(i) == \A s \in samples : Lids[i] \in DOMAIN s.block
      shared(i) == {off \in 1 .. Max({Len(s.block[Lids[i]]) : s \in samples}) :
                      \A s \in samples : off <= Len(s.block[Lids[i]])}
      found(i) == {[at |-> i, off |-> off, mask |-> mask] :
                      off \in shared(i), mask \in {{b} : b \in Bits} \union {Bits}}
  IN {p \in UNION {found(i) : i \in {j \in DOMAIN Lids : answered(j)}} :
        Consistent(samples, Lids[p.at], p.off, p.mask)}

(* Bits before bytes, then low offsets, low bits, early identifiers. *)
Earlier(p, q) ==
  LET rank(x) == <<IF x.mask = Bits THEN 1 ELSE 0, x.off, Min(x.mask), x.at>>
      d == {k \in 1 .. 4 : rank(p)[k] # rank(q)[k]}
  IN d = {} \/ rank(p)[Min(d)] < rank(q)[Min(d)]

(***************************************************************************)
(* solve and build_record: the first place that fits becomes a field with  *)
(* the raw value of each label.                                            *)
(***************************************************************************)
Solve(samples, name) ==
  LET places == Places(samples)
      best == CHOOSE p \in places : \A q \in places : Earlier(p, q)
      lid == Lids[best.at]
      values == {Raw(s.block[lid], best.off, best.mask) : s \in samples}
      label(raw) == (CHOOSE s \in samples : Raw(s.block[lid], best.off, best.mask) = raw).label
  IN IF Cardinality({s.label : s \in samples}) < 2 \/ places = {} THEN NoField
     ELSE Field(name, lid, best.off, best.mask, [raw \in values |-> label(raw)])

=============================================================================
