---------------------------- MODULE BusTools_proofs ----------------------------
(***************************************************************************)
(* The sniff feed beside the mapping tools: what it shows under a module   *)
(* came from that module, for any set of modules and signatures; the one   *)
(* signal store the tools write keeps what they saved; and what the tools  *)
(* offer, bits that moved and fields that fit, is what it is said to be,   *)
(* for every layout of the blocks.                                         *)
(***************************************************************************)
EXTENDS BusTools, FiniteSetTheorems, SequenceTheorems, WellFoundedInduction, TLAPS

(***************************************************************************)
(* While a noticed session lasts, the module the feed takes it for is the  *)
(* module on the bus; and so it was for every answer kept as noticed.      *)
(***************************************************************************)
RightModule == noticed => current = bus

RightSlots == \A m \in Signed \cup {"?"} : slots[m].noticed => slots[m].by = m

SniffInv == SnifferTypeOK /\ RightModule /\ RightSlots

LEMMA SniffStart == Init => SniffInv
<1> SUFFICES ASSUME SnifferInit PROVE SniffInv
  BY DEF Init
<1> USE DEF SnifferInit
<1>1. Empty \in [by : BusModules \cup {"none"}, noticed : BOOLEAN] /\ ~Empty.noticed
  BY DEF Empty
<1>2. slots \in [Signed \cup {"?"} ->
                  [by : BusModules \cup {"none"}, noticed : BOOLEAN]]
  BY <1>1
<1>3. RightModule
  BY DEF RightModule
<1>4. RightSlots
  BY <1>1 DEF RightSlots
<1>5. bus \in BusModules \cup {"none"} /\ noticed \in BOOLEAN
  OBVIOUS
<1>6. feed \in {"starting", "live", "error", "empty"} /\ current \in Signed \cup {"?"}
  OBVIOUS
<1> QED BY <1>2, <1>3, <1>4, <1>5, <1>6 DEF SniffInv, SnifferTypeOK

LEMMA InitLineKeeps ==
  ASSUME SniffInv, NEW m \in BusModules, LineOfInit(m)
  PROVE  SniffInv'
<1>1. SnifferTypeOK'
  <2>1. noticed' \in BOOLEAN
    <3>1. CASE noticed' = FALSE
      BY <3>1
    <3>2. CASE noticed' = (m \in Signed)
      BY <3>2
    <3> QED BY <3>1, <3>2, Zenon DEF LineOfInit
  <2>2. bus' \in BusModules \cup {"none"} /\ slots' = slots
    BY DEF LineOfInit
  <2>3. feed' \in {"starting", "live", "error", "empty"}
    BY DEF LineOfInit, SniffInv, SnifferTypeOK
  <2>4. current' \in Signed \cup {"?"}
    BY DEF LineOfInit, ModuleAfter, SniffInv, SnifferTypeOK
  <2> QED BY <2>1, <2>2, <2>3, <2>4 DEF SniffInv, SnifferTypeOK
<1>2. RightModule'
  <2>1. bus' = m
    BY DEF LineOfInit
  <2>2. CASE noticed' = FALSE
    BY <2>2 DEF RightModule
  <2>3. CASE noticed' = (m \in Signed) /\ current' = IF m \in Signed THEN m ELSE current
    BY <2>1, <2>3 DEF RightModule
  <2> QED BY <2>2, <2>3 DEF LineOfInit, ModuleAfter
<1>3. RightSlots'
  BY DEF LineOfInit, SniffInv, RightSlots
<1> QED BY <1>1, <1>2, <1>3 DEF SniffInv

LEMMA AnswerKeeps ==
  ASSUME SniffInv, LineOfAnswer
  PROVE  SniffInv'
<1> DEFINE answer == [by |-> bus, noticed |-> noticed]
<1>1. /\ slots' = [slots EXCEPT ![current] = answer] /\ feed' = "live"
      /\ UNCHANGED <<bus, noticed, current>>
  BY DEF LineOfAnswer
<1>2. answer \in [by : BusModules \cup {"none"}, noticed : BOOLEAN]
  BY DEF SniffInv, SnifferTypeOK
<1>3. answer.noticed => answer.by = current
  BY DEF SniffInv, RightModule
<1> HIDE DEF answer
<1>4. SnifferTypeOK' /\ RightModule'
  BY <1>1, <1>2 DEF SniffInv, SnifferTypeOK, RightModule
<1>5. ASSUME NEW m \in Signed \cup {"?"} PROVE slots'[m].noticed => slots'[m].by = m
  <2>1. CASE m = current
    BY <1>1, <1>3, <2>1 DEF SniffInv, SnifferTypeOK
  <2>2. CASE m # current
    BY <1>1, <2>2 DEF SniffInv, SnifferTypeOK, RightSlots
  <2> QED BY <2>1, <2>2
<1> QED BY <1>4, <1>5 DEF SniffInv, RightSlots

LEMMA SniffStep ==
  ASSUME SniffInv, [Next]_vars
  PROVE  SniffInv'
<1>1. CASE \E m \in BusModules : LineOfInit(m)
  BY <1>1, InitLineKeeps
<1>2. CASE LineOfAnswer
  BY <1>2, AnswerKeeps
<1>3. CASE PortLost \/ ReplayEnds
  BY <1>3 DEF PortLost, ReplayEnds, SniffInv, SnifferTypeOK, RightModule, RightSlots
<1>4. CASE UNCHANGED snifferVars
  BY <1>4 DEF snifferVars, SniffInv, SnifferTypeOK, RightModule, RightSlots
<1> QED BY <1>1, <1>2, <1>3, <1>4 DEF Next, SnifferStep, vars

(***************************************************************************)
(* What the Map tab shows under a module came from that module, unless the *)
(* init of its session was not noticed, whatever the other tools do.       *)
(***************************************************************************)
THEOREM SniffedAnswersAreAttributed == Spec => []SniffedIsAttributed
<1>1. SniffInv => SniffedIsAttributed
  <2>1. SUFFICES ASSUME SniffInv, NEW asked \in Signed \cup {"none"},
                        NEW answer \in Snapshot(asked).answers, answer.noticed
                 PROVE  answer.by = Snapshot(asked).module
    BY DEF SniffedIsAttributed, FeedSnapshot
  <2> DEFINE m == IF asked = "none" THEN current ELSE asked
  <2>2. PICK x \in Heard \cap {m} : answer = slots[x]
    BY DEF Snapshot
  <2>3. x = m /\ x \in Signed \cup {"?"}
    BY <2>1, <2>2 DEF Heard, SniffInv, SnifferTypeOK
  <2> QED BY <2>1, <2>2, <2>3 DEF SniffInv, RightSlots, Snapshot
<1> QED BY SniffStart, SniffStep, <1>1, PTL DEF Spec

-----------------------------------------------------------------------------
(***************************************************************************)
(* A rewrite of the file that nothing overlapped drops the rows its edit   *)
(* concerns and no other.                                                  *)
(***************************************************************************)
LEMMA ReplaceKeeps ==
  ASSUME AcceptedFieldIsKept, NEW w \in Writers, Replace(w)
  PROVE  AcceptedFieldIsKept'
<1> DEFINE edit == Head(jobs[w].edits)
<1>1. /\ file' = Applied(jobs[w].rows, edit)
      /\ lapped' = (lapped \/ file # jobs[w].rows)
      /\ saved' = (saved \ Concerned(edit))
                   \cup (IF edit.do = "upsert" THEN {edit.field} ELSE {})
  BY DEF Replace
<1> HIDE DEF edit
<1>2. SUFFICES ASSUME ~lapped' PROVE saved' \subseteq file'
  BY DEF AcceptedFieldIsKept
<1>3. saved \subseteq file /\ file = jobs[w].rows
  BY <1>1, <1>2 DEF AcceptedFieldIsKept
<1>4. ASSUME NEW f \in saved, f \notin Concerned(edit) PROVE ~Drops(edit, f)
  BY <1>4 DEF Concerned, Drops, SameKey, SameBit
<1>5. saved \ Concerned(edit) \subseteq {row \in jobs[w].rows : ~Drops(edit, row)}
  BY <1>3, <1>4
<1> QED BY <1>1, <1>5 DEF Applied

LEMMA StoreKeeps ==
  ASSUME AcceptedFieldIsKept, [Next]_vars
  PROVE  AcceptedFieldIsKept'
<1>1. CASE \E w \in Writers : Replace(w)
  BY <1>1, ReplaceKeeps
<1>2. CASE UNCHANGED <<file, saved, lapped>>
  BY <1>2 DEF AcceptedFieldIsKept
<1>3. MappingStep => (\E w \in Writers : Replace(w)) \/ UNCHANGED <<file, saved, lapped>>
  BY DEF MappingStep, Reading, SolveLabel, SaveCandidate, Decline, Label, PostSignal,
         StoreStep, ReadRows, Abandon, Save, storeVars
<1>4. UNCHANGED mappingVars => UNCHANGED <<file, saved, lapped>>
  BY DEF mappingVars, storeVars
<1> QED BY <1>1, <1>2, <1>3, <1>4 DEF Next, vars

(***************************************************************************)
(* With any number of writers, a saved field stays until a later save      *)
(* concerns it, unless two rewrites of the file overlapped.                *)
(***************************************************************************)
THEOREM SavedFieldsAreKept == Spec => []AcceptedFieldIsKept
<1>1. Init => AcceptedFieldIsKept
  BY DEF Init, MappingInit, StoreInit, AcceptedFieldIsKept
<1> QED BY <1>1, StoreKeeps, PTL DEF Spec

-----------------------------------------------------------------------------
(***************************************************************************)
(* The mappers.  A block that is read has some identifiers of one state of *)
(* the car, so the bits in it are bits the instance has.                   *)
(***************************************************************************)
Blocks ==
  UNION {{[lid \in answered |-> BlockOf[c][lid]] : answered \in SUBSET DOMAIN BlockOf[c]} :
           c \in CarStates}

LEMMA BlockIsRead == car \in CarStates => ReadBlock \subseteq Blocks
BY DEF ReadBlock, Blocks

LEMMA BlockBits ==
  ASSUME NEW b \in Blocks
  PROVE  BitsOf(b) \subseteq Keys
<1>1. PICK c \in CarStates :
             \E answered \in SUBSET DOMAIN BlockOf[c] : b = [lid \in answered |-> BlockOf[c][lid]]
  BY DEF Blocks
<1>2. ASSUME NEW key \in BitsOf(b) PROVE key \in BitsOf(BlockOf[c])
  <2>1. PICK lid \in DOMAIN b : key \in {<<lid, off, bit>> : off \in DOMAIN b[lid], bit \in Bits}
    BY <1>2 DEF BitsOf
  <2>2. lid \in DOMAIN BlockOf[c] /\ b[lid] = BlockOf[c][lid]
    BY <1>1, <2>1
  <2> QED BY <2>1, <2>2 DEF BitsOf
<1> QED BY <1>2 DEF Keys

LEMMA CommonBitsAreKeys ==
  ASSUME NEW series \in Seq(Blocks), series # <<>>
  PROVE  CommonBits(series) \subseteq Keys
<1>1. Head(series) \in Blocks
  BY HeadTailProperties
<1> QED BY <1>1, BlockBits DEF CommonBits

(***************************************************************************)
(* The levels of a series: a number 0 or 1 for each bit they all have, and *)
(* that is not masked.                                                     *)
(***************************************************************************)
LEMMA StableBitsTyped ==
  ASSUME NEW series, NEW noisy
  PROVE  /\ DOMAIN StableBits(series, noisy) = CommonBits(series) \ noisy
         /\ \A key \in CommonBits(series) \ noisy : StableBits(series, noisy)[key] \in {0, 1}
BY DEF StableBits

(***************************************************************************)
(* Bits whose byte was the same in every block of the baseline rested.     *)
(***************************************************************************)
LEMMA StableDiffRested ==
  ASSUME NEW series \in Seq(Blocks), series # <<>>, NEW after,
         NEW key \in BitsOf(after), NEW m \in StableDiff(series, after),
         key[1] = m[1], key[2] = m[2]
  PROVE  key \in CommonBits(series) \ VolatileBits(series)
<1> DEFINE lid == key[1]  off == key[2]  bit == key[3]
<1>1. bit \in Bits /\ key = <<lid, off, bit>>
  BY DEF BitsOf
<1>2. \A k \in DOMAIN series :
         /\ lid \in DOMAIN series[k] /\ off \in DOMAIN series[k][lid]
         /\ series[k][lid][off] = series[1][lid][off]
  BY DEF StableDiff
<1>3. 1 \in DOMAIN series /\ Head(series) = series[1]
  BY HeadTailProperties, EmptySeq, LenProperties
<1> HIDE DEF lid, off, bit
<1>4. ASSUME NEW k \in DOMAIN series
      PROVE  key \in BitsOf(series[k]) /\ Level(series[k], key) = Level(series[1], key)
  <2>1. key \in BitsOf(series[k])
    BY <1>1, <1>2 DEF BitsOf
  <2>2. series[k][key[1]][key[2]] = series[1][key[1]][key[2]]
    BY <1>2 DEF lid, off
  <2> QED BY <2>1, <2>2 DEF Level
<1> QED BY <1>3, <1>4 DEF CommonBits, VolatileBits

(***************************************************************************)
(* Once the baseline is over, the mask and the levels are those of its     *)
(* blocks, whatever the page asks for meanwhile, and what has moved is     *)
(* among the levels.                                                       *)
(***************************************************************************)
Resting == CommonBits(blocks) \ VolatileBits(blocks)

Measured ==
  tool # "diffmap" /\ phase # "baseline" =>
    mask = VolatileBits(blocks) /\ DOMAIN ref = Resting

Counted ==
  /\ blocks \in Seq(Blocks) /\ window \in Seq(Blocks)
  /\ inflight \in Blocks \cup {NoBlock}
  /\ phase # "baseline" => blocks # <<>>
  /\ tool = "diffmap" => phase \in {"baseline", "watch"}
  /\ tool = "diffmap" /\ phase = "baseline" => Len(blocks) < MaxBaseline

MapperInv == MapperTypeOK /\ Counted /\ Measured /\ ChangedBitsRested

LEMMA MapperStart == Init => MapperInv
<1> SUFFICES ASSUME MapperInit PROVE MapperInv
  BY DEF Init
<1> USE DEF MapperInit
<1>1. MapperTypeOK
  BY InputMapperAssumption DEF MapperTypeOK
<1>2. Counted
  BY InputMapperAssumption DEF Counted
<1>3. Measured /\ ChangedBitsRested
  BY DEF Measured, ChangedBitsRested
<1> QED BY <1>1, <1>2, <1>3 DEF MapperInv

(***************************************************************************)
(* Blocks taken in: the baseline grows, and goes on or ends.               *)
(***************************************************************************)
LEMMA OneMore ==
  ASSUME NEW series \in Seq(Blocks), NEW block \in Blocks
  PROVE  /\ Append(series, block) \in Seq(Blocks)
         /\ Append(series, block) # <<>>
         /\ Len(Append(series, block)) = Len(series) + 1
<1>1. Append(series, block) \in Seq(Blocks) /\ Len(Append(series, block)) = Len(series) + 1
  BY AppendProperties
<1>2. Len(series) \in Nat /\ Len(<<>>) = 0
  BY LenProperties
<1> QED BY <1>1, <1>2

LEMMA BaselineEnds ==
  ASSUME blocks' \in Seq(Blocks), blocks' # <<>>, EndBaseline(blocks')
  PROVE  /\ phase' = "watch"
         /\ mask' = VolatileBits(blocks') /\ mask' \subseteq Keys
         /\ DOMAIN ref' = Resting' /\ DOMAIN ref' \subseteq Keys
         /\ \A key \in DOMAIN ref' : ref'[key] \in {0, 1}
<1> DEFINE series == blocks'
<1>1. series \in Seq(Blocks) /\ series # <<>>
  OBVIOUS
<1>2. /\ phase' = "watch" /\ mask' = VolatileBits(series)
      /\ ref' = StableBits(series, VolatileBits(series))
  BY DEF EndBaseline
<1>3. Resting' = CommonBits(series) \ VolatileBits(series)
  BY DEF Resting
<1> HIDE DEF series
<1>4. CommonBits(series) \subseteq Keys
  BY <1>1, CommonBitsAreKeys
<1>5. VolatileBits(series) \subseteq CommonBits(series)
  BY DEF VolatileBits
<1>6. /\ DOMAIN ref' = CommonBits(series) \ VolatileBits(series)
      /\ \A key \in DOMAIN ref' : ref'[key] \in {0, 1}
  BY <1>2, StableBitsTyped
<1>7. mask' = VolatileBits(blocks')
  BY <1>2 DEF series
<1> QED BY <1>2, <1>3, <1>4, <1>5, <1>6, <1>7

LEMMA MapperActionSettles ==
  ASSUME MapperInv,
         CarMoves \/ NextField \/ StopWatching \/ LabelMoved
           \/ Rebaseline \/ ClearChanges \/ UNCHANGED mapperVars
  PROVE  MapperInv'
<1>1. CASE CarMoves
  BY <1>1 DEF CarMoves, MapperInv, MapperTypeOK, Counted, Measured, ChangedBitsRested, Resting
<1>2. CASE NextField
  BY <1>2, InputMapperAssumption
     DEF NextField, MapperInv, MapperTypeOK, Counted, Measured, ChangedBitsRested, Resting
<1>3. CASE StopWatching
  BY <1>3 DEF StopWatching, MapperInv, MapperTypeOK, Counted, Measured, ChangedBitsRested, Resting
<1>4. CASE LabelMoved
  BY <1>4 DEF LabelMoved, MapperInv, MapperTypeOK, Counted, Measured, ChangedBitsRested, Resting
<1>5. CASE Rebaseline
  BY <1>5, InputMapperAssumption
     DEF Rebaseline, MapperInv, MapperTypeOK, Counted, Measured, ChangedBitsRested, Resting
<1>6. CASE ClearChanges
  BY <1>6 DEF ClearChanges, MapperInv, MapperTypeOK, Counted, Measured, ChangedBitsRested, Resting
<1>7. CASE UNCHANGED mapperVars
  BY <1>7 DEF mapperVars, MapperInv, MapperTypeOK, Counted, Measured, ChangedBitsRested, Resting
<1> QED BY <1>1, <1>2, <1>3, <1>4, <1>5, <1>6, <1>7

LEMMA ReadBaselinesKeeps ==
  ASSUME MapperInv, ReadBaselines
  PROVE  MapperInv'
<1>1. PICK block \in ReadBlock : blocks' = Append(blocks, block)
  BY DEF ReadBaselines
<1>2. block \in Blocks /\ blocks \in Seq(Blocks)
  BY BlockIsRead DEF MapperInv, MapperTypeOK, Counted
<1>3. blocks' \in Seq(Blocks) /\ blocks' # <<>> /\ Len(blocks') = Len(blocks) + 1
  BY <1>1, <1>2, OneMore
<1>4. Len(blocks) < MaxBaseline /\ Len(blocks) \in Nat
  BY <1>2, LenProperties DEF ReadBaselines, MapperInv, Counted
<1>5. /\ tool = "diffmap" /\ touched = {}
      /\ phase' = IF Len(blocks') = MaxBaseline THEN "watch" ELSE "baseline"
      /\ UNCHANGED <<tool, car, inflight, window, mask, ref, touched, fails>>
  BY DEF ReadBaselines, MapperInv, ChangedBitsRested
<1>6. Counted'
  BY <1>3, <1>4, <1>5, InputMapperAssumption DEF MapperInv, Counted
<1>7. MapperTypeOK'
  BY <1>3, <1>4, <1>5, InputMapperAssumption DEF MapperInv, MapperTypeOK
<1>8. Measured' /\ ChangedBitsRested'
  BY <1>5 DEF Measured, ChangedBitsRested
<1> QED BY <1>6, <1>7, <1>8 DEF MapperInv

LEMMA ReadMovedKeeps ==
  ASSUME MapperInv, ReadMoved
  PROVE  MapperInv'
<1>1. PICK after \in ReadBlock :
        touched' = {key \in BitsOf(after) :
                      \E m \in StableDiff(blocks, after) : key[1] = m[1] /\ key[2] = m[2]}
  BY DEF ReadMoved
<1>2. /\ tool = "diffmap" /\ phase = "watch"
      /\ UNCHANGED <<tool, car, phase, inflight, blocks, window, mask, ref, fails>>
  BY DEF ReadMoved
<1>3. blocks \in Seq(Blocks) /\ blocks # <<>>
  BY <1>2 DEF MapperInv, Counted
<1>4. touched' \subseteq CommonBits(blocks) \ VolatileBits(blocks)
  BY <1>1, <1>3, StableDiffRested
<1>5. touched' \subseteq Keys
  BY <1>3, <1>4, CommonBitsAreKeys
<1>6. Counted' /\ Measured'
  BY <1>2 DEF MapperInv, Counted, Measured
<1>7. MapperTypeOK'
  BY <1>2, <1>5 DEF MapperInv, MapperTypeOK
<1>8. ChangedBitsRested'
  BY <1>2, <1>4 DEF ChangedBitsRested
<1> QED BY <1>6, <1>7, <1>8 DEF MapperInv

LEMMA TakeBaselineKeeps ==
  ASSUME MapperInv, TakeBaseline
  PROVE  MapperInv'
<1>1. PICK block \in ReadBlock : blocks' = Append(blocks, block)
  BY DEF TakeBaseline
<1>2. block \in Blocks /\ blocks \in Seq(Blocks)
  BY BlockIsRead DEF MapperInv, MapperTypeOK, Counted
<1>3. blocks' \in Seq(Blocks) /\ blocks' # <<>> /\ Len(blocks') = Len(blocks) + 1
  BY <1>1, <1>2, OneMore
<1>4. Len(blocks') <= MaxBaseline
  BY <1>2, <1>3, LenProperties, InputMapperAssumption DEF TakeBaseline
<1>5. /\ tool = "map_inputs" /\ phase = "baseline" /\ touched = {}
      /\ UNCHANGED <<tool, car, inflight, window, touched, fails>>
  BY DEF TakeBaseline, MapperInv, ChangedBitsRested
<1>6. CASE EndBaseline(blocks')
  <2>1. /\ phase' = "watch"
        /\ mask' = VolatileBits(blocks') /\ mask' \subseteq Keys
        /\ DOMAIN ref' = Resting' /\ DOMAIN ref' \subseteq Keys
        /\ \A key \in DOMAIN ref' : ref'[key] \in {0, 1}
    BY <1>3, <1>6, BaselineEnds
  <2> QED BY <1>3, <1>4, <1>5, <2>1
          DEF MapperInv, MapperTypeOK, Counted, Measured, ChangedBitsRested
<1>7. CASE UNCHANGED <<mask, ref, phase>>
  BY <1>3, <1>4, <1>5, <1>7 DEF MapperInv, MapperTypeOK, Counted, Measured, ChangedBitsRested
<1> QED BY <1>6, <1>7 DEF TakeBaseline

LEMMA GuiBaselineKeeps ==
  ASSUME MapperInv, GuiBaseline
  PROVE  MapperInv'
<1>1. blocks' = Append(blocks, inflight) /\ inflight # NoBlock /\ Len(blocks) < MaxBaseline
  BY DEF GuiBaseline
<1>2. inflight \in Blocks /\ blocks \in Seq(Blocks)
  BY <1>1 DEF MapperInv, Counted
<1>3. blocks' \in Seq(Blocks) /\ blocks' # <<>> /\ Len(blocks') = Len(blocks) + 1
  BY <1>1, <1>2, OneMore
<1>4. Len(blocks') <= MaxBaseline
  BY <1>1, <1>2, <1>3, LenProperties, InputMapperAssumption
<1>5. /\ tool = "map_gui" /\ phase = "baseline" /\ touched = {}
      /\ inflight' = NoBlock /\ fails' = 0
      /\ UNCHANGED <<tool, car, window, touched>>
  BY DEF GuiBaseline, MapperInv, ChangedBitsRested
<1>6. CASE EndBaseline(blocks')
  <2>1. /\ phase' = "watch"
        /\ mask' = VolatileBits(blocks') /\ mask' \subseteq Keys
        /\ DOMAIN ref' = Resting' /\ DOMAIN ref' \subseteq Keys
        /\ \A key \in DOMAIN ref' : ref'[key] \in {0, 1}
    BY <1>3, <1>6, BaselineEnds
  <2> QED BY <1>3, <1>4, <1>5, <2>1, InputMapperAssumption
          DEF MapperInv, MapperTypeOK, Counted, Measured, ChangedBitsRested
<1>7. CASE UNCHANGED <<mask, ref, phase>>
  BY <1>3, <1>4, <1>5, <1>7, InputMapperAssumption
     DEF MapperInv, MapperTypeOK, Counted, Measured, ChangedBitsRested
<1> QED BY <1>6, <1>7 DEF GuiBaseline

(***************************************************************************)
(* The last three of a series that grows by one.                           *)
(***************************************************************************)
LEMMA LaterOfTwo ==
  ASSUME NEW i \in Int
  PROVE  Max({1, i}) \in {1, i} /\ Max({1, i}) >= 1 /\ Max({1, i}) >= i
<1> DEFINE P(x) == x \in {1, i} /\ \A y \in {1, i} : x >= y
<1>1. \E x : P(x)
  <2>1. CASE i >= 1
    BY <2>1, P(i)
  <2>2. CASE i < 1
    BY <2>2, P(1)
  <2> QED BY <2>1, <2>2
<1>2. P(CHOOSE x : P(x))
  BY <1>1, Zenon
<1>3. Max({1, i}) = CHOOSE x : P(x)
  BY DEF Max
<1> QED BY <1>2, <1>3

LEMMA LastThree ==
  ASSUME NEW series \in Seq(Blocks), series # <<>>,
         NEW last, last = SubSeq(series, Max({1, Len(series) - 2}), Len(series))
  PROVE  last \in Seq(Blocks) /\ Len(last) <= 3
<1> DEFINE m == Max({1, Len(series) - 2})  n == Len(series)
<1>1. n \in Nat \ {0}
  BY EmptySeq, LenProperties
<1>2. n - 2 \in Int
  BY <1>1
<1>3. m \in {1, n - 2} /\ m >= 1 /\ m >= n - 2
  BY <1>2, LaterOfTwo
<1>4. last = SubSeq(series, m, n) /\ \A i \in 1 .. n : series[i] \in Blocks
  BY ElementOfSeq
<1> HIDE DEF m, n
<1>5. m \in Int /\ n \in Int /\ \A i \in m .. n : series[i] \in Blocks
  BY <1>1, <1>3, <1>4
<1>6. /\ SubSeq(series, m, n) \in Seq(Blocks)
      /\ Len(SubSeq(series, m, n)) = IF m <= n THEN n - m + 1 ELSE 0
  BY <1>5, SubSeqProperties
<1>7. n - m + 1 <= 3
  BY <1>1, <1>3
<1>8. (IF m <= n THEN n - m + 1 ELSE 0) <= 3
  BY <1>5, <1>7
<1> QED BY <1>4, <1>6, <1>8

LEMMA WatchKeeps ==
  ASSUME MapperInv, Watch
  PROVE  MapperInv'
<1>1. PICK block \in ReadBlock :
        LET series == Append(window, block)
            last == SubSeq(series, Max({1, Len(series) - 2}), Len(series))
            levels == StableBits(last, mask)
            moved == ChangedBits(ref, levels)
        IN /\ window' = last
           /\ touched' = touched \cup moved
           /\ ref' = [key \in DOMAIN ref |-> IF key \in moved THEN levels[key] ELSE ref[key]]
  BY DEF Watch
<1> DEFINE series == Append(window, block)
           levels == StableBits(window', mask)
           moved == ChangedBits(ref, levels)
<1>2. /\ window' = SubSeq(series, Max({1, Len(series) - 2}), Len(series))
      /\ touched' = touched \cup moved
      /\ ref' = [key \in DOMAIN ref |-> IF key \in moved THEN levels[key] ELSE ref[key]]
  BY <1>1
<1>3. block \in Blocks /\ window \in Seq(Blocks)
  BY BlockIsRead DEF MapperInv, MapperTypeOK, Counted
<1>4. window' \in Seq(Blocks) /\ Len(window') <= 3
  BY <1>2, <1>3, OneMore, LastThree
<1>5. /\ tool = "map_inputs" /\ phase = "watch"
      /\ UNCHANGED <<tool, car, phase, inflight, blocks, mask, fails>>
  BY DEF Watch
<1>6. moved \subseteq DOMAIN ref /\ moved \subseteq DOMAIN levels
  BY DEF ChangedBits
<1>7. \A key \in DOMAIN levels : levels[key] \in {0, 1}
  BY StableBitsTyped
<1> HIDE DEF levels, moved
<1>8. DOMAIN ref = Resting /\ Resting' = Resting
  BY <1>5 DEF MapperInv, Measured, Resting
<1>9. DOMAIN ref' = DOMAIN ref /\ \A key \in DOMAIN ref' : ref'[key] \in {0, 1}
  BY <1>2, <1>6, <1>7 DEF MapperInv, MapperTypeOK
<1>10. touched' \subseteq Keys /\ touched' \subseteq Resting
  BY <1>2, <1>5, <1>6, <1>8 DEF MapperInv, MapperTypeOK, ChangedBitsRested, Resting
<1>11. MapperTypeOK' /\ Counted'
  BY <1>4, <1>5, <1>9, <1>10 DEF MapperInv, MapperTypeOK, Counted
<1>12. Measured' /\ ChangedBitsRested'
  BY <1>5, <1>8, <1>9, <1>10 DEF MapperInv, Measured, ChangedBitsRested, Resting
<1> QED BY <1>11, <1>12 DEF MapperInv

LEMMA GuiActionKeeps ==
  ASSUME MapperInv, GuiRead \/ GuiReadFailed \/ GuiWatch
  PROVE  MapperInv'
<1>1. CASE GuiRead
  BY <1>1, BlockIsRead
     DEF GuiRead, MapperInv, MapperTypeOK, Counted, Measured, ChangedBitsRested, Resting
<1>2. CASE GuiReadFailed
  <2>1. fails' \in 0 .. MaxFails
    BY <1>2, InputMapperAssumption DEF GuiReadFailed, MapperInv, MapperTypeOK
  <2> QED BY <1>2, <2>1
          DEF GuiReadFailed, MapperInv, MapperTypeOK, Counted, Measured, ChangedBitsRested, Resting
<1>3. CASE GuiWatch
  <2>1. DOMAIN ref = Resting /\ DOMAIN ref \subseteq Keys
    BY <1>3 DEF GuiWatch, MapperInv, MapperTypeOK, Measured
  <2>2. touched' \subseteq touched \cup Resting /\ touched' \subseteq touched \cup Keys
    BY <1>3, <2>1 DEF GuiWatch
  <2>3. 0 \in 0 .. MaxFails
    BY InputMapperAssumption
  <2> QED BY <1>3, <2>2, <2>3
          DEF GuiWatch, MapperInv, MapperTypeOK, Counted, Measured, ChangedBitsRested, Resting
<1> QED BY <1>1, <1>2, <1>3

LEMMA MapperKeeps ==
  ASSUME MapperInv, [Next]_vars
  PROVE  MapperInv'
<1>1. CASE MapperStep
  BY <1>1, MapperActionSettles, ReadBaselinesKeeps, ReadMovedKeeps, TakeBaselineKeeps,
     WatchKeeps, GuiBaselineKeeps, GuiActionKeeps DEF MapperStep
<1>2. CASE UNCHANGED mapperVars
  BY <1>2, MapperActionSettles
<1> QED BY <1>1, <1>2 DEF Next, vars

(***************************************************************************)
(* A bit offered for labelling because it moved was at rest in every block *)
(* of the baseline in force, for every layout of the blocks, every length  *)
(* of a baseline and every order of the page's requests and its loop.      *)
(***************************************************************************)
THEOREM OfferedBitsRested == Spec => []ChangedBitsRested
<1>1. MapperInv => ChangedBitsRested
  BY DEF MapperInv
<1> QED BY MapperStart, MapperKeeps, <1>1, PTL DEF Spec

-----------------------------------------------------------------------------
(***************************************************************************)
(* The search for a field.  Numbers have a least one, and so have places,  *)
(* which are compared by four numbers in turn: the search always has a     *)
(* first place to take when any fits.                                      *)
(***************************************************************************)
LEMMA LeastOf ==
  ASSUME NEW S \in SUBSET Nat, S # {}
  PROVE  \E n \in S : \A m \in S : n <= m
<1> DEFINE Less == {pair \in Nat \X Nat : pair[1] < pair[2]}
<1>1. IsWellFoundedOn(Less, Nat)
  BY NatLessThanWellFounded DEF OpToRel
<1>2. PICK n \in S : \A m \in S : ~ (<<m, n>> \in Less)
  BY <1>1, WFMin
<1>3. \A m \in S : ~ (m < n)
  BY <1>2
<1> QED BY <1>3

LEMMA LowestOf ==
  ASSUME NEW S \in SUBSET Nat, S # {}
  PROVE  Min(S) \in S /\ \A n \in S : Min(S) <= n
<1> DEFINE P(x) == x \in S /\ \A y \in S : x <= y
<1>1. \E x : P(x)
  BY LeastOf
<1>2. P(CHOOSE x : P(x))
  BY <1>1, Zenon
<1>3. Min(S) = CHOOSE x : P(x)
  BY DEF Min
<1> QED BY <1>2, <1>3

LEMMA LeastBy ==
  ASSUME NEW P, P # {}, NEW f, \A p \in P : f[p] \in Nat
  PROVE  \E p \in P : \A q \in P : f[p] <= f[q]
<1> DEFINE S == {f[p] : p \in P}
<1>1. S \in SUBSET Nat /\ S # {}
  OBVIOUS
<1>2. PICK n \in S : \A m \in S : n <= m
  BY <1>1, LeastOf
<1> QED BY <1>2

Place(p) == p.at \in Nat /\ p.off \in Nat /\ p.mask \subseteq Nat /\ p.mask # {}

LEMMA EarliestPlace ==
  ASSUME NEW P, P # {}, \A p \in P : Place(p)
  PROVE  \E p \in P : \A q \in P : Earlier(p, q)
<1> DEFINE r1 == [p \in P |-> IF p.mask = Bits THEN 1 ELSE 0]
           r2 == [p \in P |-> p.off]
           r3 == [p \in P |-> Min(p.mask)]
           r4 == [p \in P |-> p.at]
           P1 == {p \in P : \A q \in P : r1[p] <= r1[q]}
           P2 == {p \in P1 : \A q \in P1 : r2[p] <= r2[q]}
           P3 == {p \in P2 : \A q \in P2 : r3[p] <= r3[q]}
<1>1. \A p \in P : r1[p] \in Nat /\ r2[p] \in Nat /\ r4[p] \in Nat
  BY DEF Place
<1>2. \A p \in P : r3[p] \in Nat
  BY LowestOf DEF Place
<1>3. \A p, q \in P : Earlier(p, q) <=>
        LET d == {k \in 1 .. 4 : <<r1[p], r2[p], r3[p], r4[p]>>[k] # <<r1[q], r2[q], r3[q], r4[q]>>[k]}
        IN d = {} \/ <<r1[p], r2[p], r3[p], r4[p]>>[Min(d)] < <<r1[q], r2[q], r3[q], r4[q]>>[Min(d)]
  BY DEF Earlier
<1> HIDE DEF r1, r2, r3, r4
<1>4. P1 # {}
  BY <1>1, LeastBy
<1>5. P2 # {}
  <2>1. \A p \in P1 : r2[p] \in Nat
    BY <1>1
  <2> HIDE DEF P1
  <2> QED BY <2>1, <1>4, LeastBy
<1>6. P3 # {}
  <2>1. \A p \in P2 : r3[p] \in Nat
    BY <1>2
  <2> HIDE DEF P2
  <2> QED BY <2>1, <1>5, LeastBy
<1>7. PICK p \in P3 : \A q \in P3 : r4[p] <= r4[q]
  <2>1. \A p \in P3 : r4[p] \in Nat
    BY <1>1
  <2> HIDE DEF P3
  <2> QED BY <2>1, <1>6, LeastBy
<1>8. ASSUME NEW q \in P PROVE Earlier(p, q)
  <2> DEFINE a == <<r1[p], r2[p], r3[p], r4[p]>>
             b == <<r1[q], r2[q], r3[q], r4[q]>>
             d == {k \in 1 .. 4 : a[k] # b[k]}
  <2>1. p \in P
    OBVIOUS
  <2>2. SUFFICES ASSUME d # {} PROVE a[Min(d)] < b[Min(d)]
    BY <1>3, <2>1
  <2>3. d \in SUBSET Nat
    OBVIOUS
  <2> DEFINE k == Min(d)
  <2>4. k \in d /\ \A j \in d : k <= j
    <3> HIDE DEF d
    <3> QED BY <2>2, <2>3, LowestOf
  <2> HIDE DEF k
  <2>5. k \in 1 .. 4 /\ a[k] # b[k] /\ \A j \in 1 .. 4 : j < k => a[j] = b[j]
    <3>1. ASSUME NEW j \in 1 .. 4, j < k PROVE j \notin d
      <4>1. k \in 1 .. 4
        BY <2>4
      <4>2. ~ (k <= j)
        BY <3>1, <4>1
      <4> HIDE DEF d
      <4> QED BY <2>4, <4>2
    <3> QED BY <2>4, <3>1
  <2>6. k = 1 \/ k = 2 \/ k = 3 \/ k = 4
    BY <2>5
  <2>7. /\ a[1] = r1[p] /\ a[2] = r2[p] /\ a[3] = r3[p] /\ a[4] = r4[p]
        /\ b[1] = r1[q] /\ b[2] = r2[q] /\ b[3] = r3[q] /\ b[4] = r4[q]
    OBVIOUS
  <2> HIDE DEF a, b, d
  <2>8. /\ k > 1 => r1[p] = r1[q]
        /\ k > 2 => r2[p] = r2[q]
        /\ k > 3 => r3[p] = r3[q]
    BY <2>5, <2>6, <2>7
  <2>9. k = 1 => r1[p] <= r1[q] /\ r1[p] # r1[q]
    BY <2>1, <2>5, <2>7
  <2>10. k > 1 => q \in P1
    BY <2>1, <2>8
  <2>11. k = 2 => r2[p] <= r2[q] /\ r2[p] # r2[q]
    BY <2>5, <2>7, <2>10
  <2>12. k > 2 => q \in P2
    BY <2>1, <2>6, <2>8, <2>10
  <2>13. k = 3 => r3[p] <= r3[q] /\ r3[p] # r3[q]
    BY <2>5, <2>7, <2>12
  <2>14. k > 3 => q \in P3
    BY <2>1, <2>6, <2>8, <2>12
  <2>15. k = 4 => r4[p] <= r4[q] /\ r4[p] # r4[q]
    BY <1>7, <2>5, <2>7, <2>14
  <2>16. /\ r1[p] \in Nat /\ r2[p] \in Nat /\ r3[p] \in Nat /\ r4[p] \in Nat
         /\ r1[q] \in Nat /\ r2[q] \in Nat /\ r3[q] \in Nat /\ r4[q] \in Nat
    BY <1>1, <1>2, <2>1
  <2> HIDE DEF P1, P2, P3
  <2>17. a[k] < b[k]
    BY <2>6, <2>7, <2>9, <2>11, <2>13, <2>15, <2>16
  <2> QED BY <2>17 DEF k
<1> QED BY <1>8

LEMMA SomeBits == Bits # {}
<1>1. Cardinality(Bits) > 1
  BY FieldSearchAssumption
<1>2. Cardinality({}) = 0
  BY FS_EmptySet
<1> QED BY <1>1, <1>2

LEMMA PlaceFound ==
  ASSUME NEW readings, NEW p \in Places(readings)
  PROVE  /\ Place(p)
         /\ p.mask \subseteq Bits
         /\ \A s \in readings : /\ Lids[p.at] \in DOMAIN s.block
                                /\ p.off <= Len(s.block[Lids[p.at]])
         /\ Consistent(readings, Lids[p.at], p.off, p.mask)
<1> DEFINE shared(i) == {off \in 1 .. Max({Len(s.block[Lids[i]]) : s \in readings}) :
                           \A s \in readings : off <= Len(s.block[Lids[i]])}
<1>1. PICK i \in DOMAIN Lids :
        /\ \A s \in readings : Lids[i] \in DOMAIN s.block
        /\ p \in {[at |-> i, off |-> off, mask |-> bits] :
                    off \in shared(i), bits \in {{b} : b \in Bits} \cup {Bits}}
  BY DEF Places
<1> HIDE DEF shared
<1>2. PICK off \in shared(i), bits \in {{b} : b \in Bits} \cup {Bits} :
        p = [at |-> i, off |-> off, mask |-> bits]
  BY <1>1, SMT
<1>3. off \in Nat /\ \A s \in readings : off <= Len(s.block[Lids[i]])
  BY DEF shared
<1>4. bits \subseteq Bits /\ bits # {}
  BY SomeBits
<1>5. i \in Nat
  BY FieldSearchAssumption, LenProperties
<1>6. Consistent(readings, Lids[p.at], p.off, p.mask)
  BY DEF Places
<1>7. p.at = i /\ p.off = off /\ p.mask = bits
  BY <1>2
<1>8. Bits \subseteq Nat
  BY FieldSearchAssumption
<1>9. Place(p)
  BY <1>3, <1>4, <1>5, <1>7, <1>8 DEF Place
<1>10. \A s \in readings : /\ Lids[p.at] \in DOMAIN s.block
                           /\ p.off <= Len(s.block[Lids[p.at]])
  BY <1>1, <1>3, <1>7
<1> QED BY <1>4, <1>6, <1>7, <1>9, <1>10

(***************************************************************************)
(* What Solve offers is at a place that fits every reading, and gives each *)
(* raw value there the label of a reading that has it.                     *)
(***************************************************************************)
LabelOf(readings, p, raw) ==
  (CHOOSE s \in readings : Raw(s.block[Lids[p.at]], p.off, p.mask) = raw).label

LEMMA SolvedAtPlace ==
  ASSUME NEW readings, NEW name, Solve(readings, name) # NoField
  PROVE  \E p \in Places(readings) :
           Solve(readings, name) =
             Field(name, Lids[p.at], p.off, p.mask,
                   [raw \in {Raw(s.block[Lids[p.at]], p.off, p.mask) : s \in readings} |->
                      LabelOf(readings, p, raw)])
<1> DEFINE places == Places(readings)
           best == CHOOSE p \in places : \A q \in places : Earlier(p, q)
<1>1. places # {}
  BY DEF Solve
<1>2. \E p \in places : \A q \in places : Earlier(p, q)
  <2>1. \A p \in places : Place(p)
    BY PlaceFound
  <2> HIDE DEF places
  <2> QED BY <1>1, <2>1, EarliestPlace
<1>3. best \in places
  BY <1>2
<1>4. Solve(readings, name) =
        Field(name, Lids[best.at], best.off, best.mask,
              [raw \in {Raw(s.block[Lids[best.at]], best.off, best.mask) : s \in readings} |->
                 LabelOf(readings, best, raw)])
  BY DEF Solve, LabelOf
<1> QED BY <1>3, <1>4

LEMMA SolvedFits ==
  ASSUME NEW readings, NEW name, NEW field, field = Solve(readings, name), field # NoField,
         NEW s \in readings
  PROVE  /\ field.lid \in DOMAIN s.block
         /\ Fits(field, s.block[field.lid])
         /\ DecodeNamed(field, s.block[field.lid]) = s.label
<1>1. PICK p \in Places(readings) :
        field = Field(name, Lids[p.at], p.off, p.mask,
                      [raw \in {Raw(t.block[Lids[p.at]], p.off, p.mask) : t \in readings} |->
                         LabelOf(readings, p, raw)])
  BY SolvedAtPlace
<1> DEFINE lid == Lids[p.at]
           raw(t) == Raw(t.block[lid], p.off, p.mask)
           values == {raw(t) : t \in readings}
<1>2. field.lid = lid /\ field.off = p.off /\ field.mask = p.mask
  BY <1>1 DEF Field
<1>3. field.states = [x \in values |-> LabelOf(readings, p, x)]
  BY <1>1 DEF Field
<1>4. lid \in DOMAIN s.block /\ p.off <= Len(s.block[lid])
  BY PlaceFound
<1>5. LabelOf(readings, p, raw(s)) = s.label
  <2>1. PICK t \in readings : raw(t) = raw(s) /\ LabelOf(readings, p, raw(s)) = t.label
    BY DEF LabelOf
  <2> QED BY <2>1, PlaceFound DEF Consistent
<1>6. p.off \in Nat
  BY PlaceFound DEF Place
<1>7. raw(s) \in values /\ field.states[raw(s)] = s.label /\ DOMAIN field.states = values
  BY <1>3, <1>5
<1>8. Raw(s.block[field.lid], field.off, field.mask) = raw(s)
  BY <1>2
<1> HIDE DEF values, raw
<1> QED BY <1>2, <1>4, <1>7, <1>8 DEF Fits, DecodeNamed

-----------------------------------------------------------------------------
(***************************************************************************)
(* The store.  The rows a writer has read, and the edits it has left, are  *)
(* such that the file it puts in place has one field at each key.          *)
(***************************************************************************)
OneEach(rows) ==
  \A f, g \in rows : f # g => <<f.lid, f.off, f.name>> # <<g.lid, g.off, g.name>>

Rows(rows) == (\A f \in rows : Stored(f)) /\ OneEach(rows)

EditTyped(edit) == edit.do = "upsert" => Stored(edit.field)

Pending(edits) ==
  \/ \E e : edits = <<e>> /\ EditTyped(e)
  \/ \E d, e : edits = <<d, e>> /\ EditTyped(d) /\ EditTyped(e)

JobTyped(job) ==
  /\ DOMAIN job = {"at", "edits", "rows"}
  /\ job.at \in {"idle", "read", "replace"}
  /\ job.at # "idle" => Pending(job.edits)
  /\ Rows(job.rows)

JobsTyped == DOMAIN jobs = Writers /\ \A w \in Writers : JobTyped(jobs[w])

LEMMA RowsApplied ==
  ASSUME NEW rows, NEW edit, Rows(rows), EditTyped(edit)
  PROVE  Rows(Applied(rows, edit))
<1>1. ASSUME NEW f \in Applied(rows, edit) PROVE Stored(f)
  BY <1>1 DEF Applied, Rows, EditTyped
<1>2. ASSUME NEW f \in Applied(rows, edit), NEW g \in Applied(rows, edit), f # g
      PROVE  <<f.lid, f.off, f.name>> # <<g.lid, g.off, g.name>>
  <2>1. CASE f \in rows /\ g \in rows
    BY <1>2, <2>1 DEF Rows, OneEach
  <2>2. CASE edit.do = "upsert" /\ f = edit.field
    BY <1>2, <2>2 DEF Applied, Drops, SameKey
  <2>3. CASE edit.do = "upsert" /\ g = edit.field
    BY <1>2, <2>3 DEF Applied, Drops, SameKey
  <2> QED BY <2>1, <2>2, <2>3 DEF Applied
<1> QED BY <1>1, <1>2 DEF Rows, OneEach

LEMMA NoJobTyped == JobTyped(NoJob)
BY DEF JobTyped, NoJob, Rows, OneEach

LEMMA FirstEdit ==
  ASSUME NEW job, JobTyped(job), job.at # "idle"
  PROVE  EditTyped(Head(job.edits)) /\ JobTyped(NextEdit(job))
<1>1. CASE \E e : job.edits = <<e>> /\ EditTyped(e)
  <2>1. PICK e : job.edits = <<e>> /\ EditTyped(e)
    BY <1>1
  <2>2. Head(job.edits) = e /\ Len(job.edits) = 1
    BY <2>1
  <2> QED BY <2>1, <2>2, NoJobTyped DEF NextEdit
<1>2. CASE \E d, e : job.edits = <<d, e>> /\ EditTyped(d) /\ EditTyped(e)
  <2>1. PICK d, e : job.edits = <<d, e>> /\ EditTyped(d) /\ EditTyped(e)
    BY <1>2
  <2>2. Head(job.edits) = d /\ Len(job.edits) = 2 /\ Tail(job.edits) = <<e>>
    BY <2>1
  <2>3. NextEdit(job) = [at |-> "read", edits |-> <<e>>, rows |-> {}]
    <3>1. Len(job.edits) # 1
      BY <2>2
    <3>2. NextEdit(job) = [at |-> "read", edits |-> Tail(job.edits), rows |-> {}]
      BY <3>1, Zenon DEF NextEdit
    <3> QED BY <2>2, <3>2
  <2>4. Pending(<<e>>)
    BY <2>1 DEF Pending
  <2>5. JobTyped([at |-> "read", edits |-> <<e>>, rows |-> {}])
    BY <2>4 DEF JobTyped, Rows, OneEach
  <2> QED BY <2>1, <2>2, <2>3, <2>5
<1> QED BY <1>1, <1>2 DEF JobTyped, Pending

LEMMA SaveTyped ==
  ASSUME JobsTyped, NEW w \in Writers, NEW edits, Pending(edits), Save(w, edits)
  PROVE  JobsTyped'
<1> DEFINE job == [at |-> "read", edits |-> edits, rows |-> {}]
<1>1. JobTyped(job)
  BY DEF JobTyped, Rows, OneEach
<1>2. jobs' = [jobs EXCEPT ![w] = job]
  BY DEF Save
<1> HIDE DEF job
<1> QED BY <1>1, <1>2 DEF JobsTyped

(***************************************************************************)
(* The steps of a writer that has a request.                               *)
(***************************************************************************)
LEMMA WriterTyped ==
  ASSUME JobsTyped, Rows(file), NEW w \in Writers,
         ReadRows(w) \/ Replace(w) \/ Abandon(w)
  PROVE  JobsTyped' /\ Rows(file')
<1> DEFINE edit == Head(jobs[w].edits)
<1>1. JobTyped(jobs[w]) /\ DOMAIN jobs = Writers
  BY DEF JobsTyped
<1>2. CASE ReadRows(w)
  <2> DEFINE held == [jobs[w] EXCEPT !.at = "replace", !.rows = file]
  <2>1. jobs' \in {[jobs EXCEPT ![w] = NextEdit(jobs[w])], [jobs EXCEPT ![w] = held]}
    BY <1>1, <1>2 DEF ReadRows
  <2>2. jobs[w].at = "read" /\ file' = file
    BY <1>2 DEF ReadRows
  <2>3. JobTyped(NextEdit(jobs[w]))
    BY <1>1, <2>2, FirstEdit
  <2>4. /\ DOMAIN held = {"at", "edits", "rows"}
        /\ held.at = "replace" /\ held.edits = jobs[w].edits /\ held.rows = file
    BY <1>1 DEF JobTyped
  <2> HIDE DEF held
  <2>5. JobTyped(held)
    BY <1>1, <2>2, <2>4 DEF JobTyped
  <2> QED BY <2>1, <2>2, <2>3, <2>5 DEF JobsTyped
<1>3. CASE Replace(w)
  <2>1. /\ jobs[w].at = "replace" /\ file' = Applied(jobs[w].rows, edit)
        /\ jobs' = [jobs EXCEPT ![w] = NextEdit(jobs[w])]
    BY <1>1, <1>3 DEF Replace
  <2>2. EditTyped(edit) /\ JobTyped(NextEdit(jobs[w]))
    BY <1>1, <2>1, FirstEdit
  <2>3. Rows(file')
    BY <1>1, <2>1, <2>2, RowsApplied DEF JobTyped
  <2> QED BY <2>1, <2>2, <2>3 DEF JobsTyped
<1>4. CASE Abandon(w)
  BY <1>4, NoJobTyped DEF Abandon, JobsTyped
<1> QED BY <1>2, <1>3, <1>4

MappingInv ==
  /\ IsFiniteSet(samples) /\ Cardinality(samples) <= MaxSamples
  /\ proposal = NoField \/ Stored(proposal)
  /\ Rows(file) /\ JobsTyped
  /\ MappedFieldFitsSamples

LEMMA MappingStart == Init => MappingInv
<1> SUFFICES ASSUME MappingInit PROVE MappingInv
  BY DEF Init
<1> USE DEF MappingInit, StoreInit
<1>1. IsFiniteSet(samples) /\ Cardinality(samples) <= MaxSamples
  BY FS_EmptySet, MappingAssumption
<1>2. Rows(file) /\ JobsTyped
  BY NoJobTyped DEF Rows, OneEach, JobsTyped
<1> QED BY <1>1, <1>2 DEF MappingInv, MappedFieldFitsSamples

LEMMA OneUpsert ==
  ASSUME NEW field, Stored(field)
  PROVE  Pending(<<Upsert(field)>>)
<1>1. EditTyped(Upsert(field))
  BY DEF EditTyped, Upsert
<1> QED BY <1>1 DEF Pending

(***************************************************************************)
(* diffmap: the readings, the field they give, and the end of a field.     *)
(***************************************************************************)
LEMMA ReadingKeeps ==
  ASSUME MappingInv, Reading
  PROVE  MappingInv'
<1>1. PICK s : samples' = samples \cup {s}
  BY DEF Reading
<1>2. /\ proposal = NoField /\ Cardinality(samples) < MaxSamples
      /\ UNCHANGED <<proposal, file, jobs>>
  BY DEF Reading, storeVars
<1>3. IsFiniteSet(samples') /\ Cardinality(samples') <= MaxSamples
  <2>1. IsFiniteSet(samples) /\ Cardinality(samples) \in Nat
    BY FS_CardinalityType DEF MappingInv
  <2>2. /\ IsFiniteSet(samples \cup {s})
        /\ Cardinality(samples \cup {s}) \in {Cardinality(samples), Cardinality(samples) + 1}
    BY <2>1, FS_AddElement
  <2> QED BY <1>1, <1>2, <2>1, <2>2, MappingAssumption
<1> QED BY <1>2, <1>3 DEF MappingInv, MappedFieldFitsSamples, JobsTyped

LEMMA SolveLabelKeeps ==
  ASSUME MappingInv, SolveLabel
  PROVE  MappingInv'
<1>1. PICK name \in Names : proposal' = Solve(samples, name)
  BY DEF SolveLabel
<1>2. /\ samples' = IF proposal' = NoField THEN {} ELSE samples
      /\ UNCHANGED <<file, jobs>>
  BY DEF SolveLabel, storeVars
<1>3. IsFiniteSet(samples') /\ Cardinality(samples') <= MaxSamples
  BY <1>2, FS_EmptySet, MappingAssumption DEF MappingInv
<1>4. CASE proposal' = NoField
  BY <1>2, <1>3, <1>4 DEF MappingInv, MappedFieldFitsSamples, JobsTyped
<1>5. CASE proposal' # NoField
  <2>1. PICK p \in Places(samples) :
          proposal' = Field(name, Lids[p.at], p.off, p.mask,
                        [raw \in {Raw(s.block[Lids[p.at]], p.off, p.mask) : s \in samples} |->
                           LabelOf(samples, p, raw)])
    BY <1>1, <1>5, SolvedAtPlace
  <2>2. p.mask \subseteq Bits /\ p.mask # {}
    BY PlaceFound DEF Place
  <2>3. Stored(proposal')
    BY <2>1, <2>2 DEF Field, Stored
  <2>4. ASSUME NEW s \in samples
        PROVE  /\ proposal'.lid \in DOMAIN s.block
               /\ Fits(proposal', s.block[proposal'.lid])
               /\ DecodeNamed(proposal', s.block[proposal'.lid]) = s.label
    BY <1>1, <1>5, SolvedFits
  <2>5. MappedFieldFitsSamples'
    BY <1>2, <1>5, <2>4 DEF MappedFieldFitsSamples
  <2> QED BY <1>2, <1>3, <2>3, <2>5 DEF MappingInv, JobsTyped
<1> QED BY <1>4, <1>5

LEMMA FieldEndKeeps ==
  ASSUME MappingInv, SaveCandidate \/ Decline
  PROVE  MappingInv'
<1>1. IsFiniteSet({}) /\ Cardinality({}) <= MaxSamples
  BY FS_EmptySet, MappingAssumption
<1>2. CASE SaveCandidate
  <2>1. Save("diffmap", <<Upsert(proposal)>>) /\ "diffmap" \in Writers
    BY <1>2, MappingAssumption DEF SaveCandidate
  <2>2. JobsTyped'
    BY <1>2, <2>1, OneUpsert, SaveTyped DEF SaveCandidate, MappingInv
  <2> QED BY <1>1, <1>2, <2>1, <2>2 DEF SaveCandidate, Save, MappingInv, MappedFieldFitsSamples
<1>3. CASE Decline
  BY <1>1, <1>3 DEF Decline, storeVars, MappingInv, MappedFieldFitsSamples, JobsTyped
<1> QED BY <1>2, <1>3

(***************************************************************************)
(* Requests of the two web pages.                                          *)
(***************************************************************************)
LEMMA RequestKeeps ==
  ASSUME MappingInv, NEW w \in Writers, NEW edits, Pending(edits), Save(w, edits),
         UNCHANGED diffVars
  PROVE  MappingInv'
<1>1. JobsTyped'
  BY SaveTyped DEF MappingInv
<1> QED BY <1>1 DEF Save, diffVars, MappingInv, MappedFieldFitsSamples

LEMMA LabelKeeps ==
  ASSUME MappingInv, Label
  PROVE  MappingInv'
<1>1. PICK position \in CarStates : \E key \in BitsOf(BlockOf[position]) :
        \/ Save("map_gui", <<Removal(BitField(key, "none"))>>)
        \/ \E name \in Names :
             Save("map_gui", <<Removal(BitField(key, "none")), Upsert(BitField(key, name))>>)
  BY DEF Label
<1>2. PICK key \in BitsOf(BlockOf[position]) :
        \/ Save("map_gui", <<Removal(BitField(key, "none"))>>)
        \/ \E name \in Names :
             Save("map_gui", <<Removal(BitField(key, "none")), Upsert(BitField(key, name))>>)
  BY <1>1
<1>3. "map_gui" \in Writers /\ UNCHANGED diffVars
  BY MappingAssumption DEF Label
<1>4. EditTyped(Removal(BitField(key, "none")))
  BY DEF EditTyped, Removal
<1>5. key[3] \in Bits
  BY DEF BitsOf
<1>6. CASE Save("map_gui", <<Removal(BitField(key, "none"))>>)
  <2>1. Pending(<<Removal(BitField(key, "none"))>>)
    BY <1>4 DEF Pending
  <2> QED BY <1>3, <1>6, <2>1, RequestKeeps
<1>7. ASSUME NEW name \in Names,
             Save("map_gui", <<Removal(BitField(key, "none")), Upsert(BitField(key, name))>>)
      PROVE  MappingInv'
  <2>1. Stored(BitField(key, name))
    BY <1>5 DEF Stored, BitField, Field
  <2>2. EditTyped(Upsert(BitField(key, name)))
    BY <2>1 DEF EditTyped, Upsert
  <2>3. Pending(<<Removal(BitField(key, "none")), Upsert(BitField(key, name))>>)
    BY <1>4, <2>2 DEF Pending
  <2> QED BY <1>3, <1>7, <2>3, RequestKeeps
<1> QED BY <1>2, <1>6, <1>7

LEMMA PostSignalKeeps ==
  ASSUME MappingInv, PostSignal
  PROVE  MappingInv'
<1>1. PICK w \in Writers, field \in Posted : Save(w, <<Upsert(field)>>)
  BY DEF PostSignal
<1>2. Pending(<<Upsert(field)>>)
  BY OneUpsert DEF Stored
<1> QED BY <1>1, <1>2, RequestKeeps DEF PostSignal

LEMMA MappingKeeps ==
  ASSUME MappingInv, [Next]_vars
  PROVE  MappingInv'
<1>1. CASE StoreStep /\ UNCHANGED diffVars
  <2>1. PICK w \in Writers : ReadRows(w) \/ Replace(w) \/ Abandon(w)
    BY <1>1 DEF StoreStep
  <2>2. JobsTyped' /\ Rows(file')
    BY <2>1, WriterTyped DEF MappingInv
  <2> QED BY <1>1, <2>2 DEF diffVars, MappingInv, MappedFieldFitsSamples
<1>2. CASE MappingStep
  BY <1>1, <1>2, ReadingKeeps, SolveLabelKeeps, FieldEndKeeps, LabelKeeps, PostSignalKeeps
     DEF MappingStep
<1>3. CASE UNCHANGED mappingVars
  BY <1>3 DEF mappingVars, diffVars, storeVars, MappingInv, MappedFieldFitsSamples, JobsTyped
<1> QED BY <1>2, <1>3 DEF Next, vars

(***************************************************************************)
(* The field diffmap offers decodes every reading it was made from to the  *)
(* label given to it, for every layout of the blocks, every order of the   *)
(* identifiers and any number of readings with identifiers left out.       *)
(***************************************************************************)
THEOREM OfferedFieldFits == Spec => []MappedFieldFitsSamples
<1>1. MappingInv => MappedFieldFitsSamples
  BY DEF MappingInv
<1> QED BY MappingStart, MappingKeeps, <1>1, PTL DEF Spec

(***************************************************************************)
(* The types of all the tools; and the file never has two fields with one  *)
(* identifier, offset and name, though no writer takes a lock.             *)
(***************************************************************************)
THEOREM ToolsTyped == Spec => []TypeOK
<1>1. MappingInv => MappingTypeOK
  BY DEF MappingInv, MappingTypeOK, Rows, OneEach, JobsTyped, JobTyped
<1>2. SniffInv /\ MapperInv /\ MappingInv => TypeOK
  BY <1>1 DEF TypeOK, SniffInv, MapperInv
<1>3. Init => SniffInv /\ MapperInv /\ MappingInv
  BY SniffStart, MapperStart, MappingStart
<1>4. SniffInv /\ MapperInv /\ MappingInv /\ [Next]_vars => (SniffInv /\ MapperInv /\ MappingInv)'
  BY SniffStep, MapperKeeps, MappingKeeps
<1> QED BY <1>2, <1>3, <1>4, PTL DEF Spec

=============================================================================
