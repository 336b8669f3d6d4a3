---------------------------- MODULE KlineNode_proofs ----------------------------
(***************************************************************************)
(* Theorems of KlineNode, for every size of the spill file and its chunks, *)
(* every grace and number of attempts, seconds, pages and reboots.         *)
(***************************************************************************)
EXTENDS KlineNode, SequenceTheorems, TLAPS

(***************************************************************************)
(* The init follows a silence.  A cleared recovery that the loop may act   *)
(* on has no cycle or excursion under way and no session, and the silence  *)
(* after its teardown lasts or is over.                                    *)
(***************************************************************************)
Cleared == recoveryCleared /\ logEnabled /\ ~bridgeMode

Settling ==
  Cleared => /\ pc = "serve" /\ ~sessionUp
             /\ \/ quiet = "none" /\ bus \in {"quiet", "tried"}
                \/ quiet = "window" /\ bus \in {"torn", "tried"}

LEMMA SettlingStart == Init => Settling
BY DEF Init, Settling, Cleared

LEMMA LoopSettles ==
  ASSUME Settling, NodeStep
  PROVE  Settling'
<1> USE DEF Settling, Cleared
<1>1. CASE LoopInBridge
  BY <1>1 DEF LoopInBridge, BridgeExit, Resume
<1>2. CASE FlushSpill
  BY <1>2 DEF FlushSpill, sessionVars, bridgeVars, busVars
<1>3. CASE Recover
  BY <1>3 DEF Recover, TearDown, bridgeVars
<1>4. CASE Establish
  BY <1>4 DEF Establish, Ticks, bridgeVars
<1>5. CASE BeginCycle
  BY <1>5 DEF BeginCycle, Ticks, sessionVars, bridgeVars
<1>6. CASE CycleRead
  BY <1>6 DEF CycleRead, bridgeVars
<1>7. CASE CycleMissed
  BY <1>7 DEF CycleMissed, bridgeVars
<1>8. CASE CyclePost
  BY <1>8 DEF CyclePost, bridgeVars, busVars
<1>9. CASE BeginExcursion
  BY <1>9 DEF BeginExcursion, Ticks, TearDown, sessionVars, bridgeVars
<1>10. CASE Excursion
  BY <1>10 DEF Excursion, TearDown, bridgeVars
<1> QED BY <1>1, <1>2, <1>3, <1>4, <1>5, <1>6, <1>7, <1>8, <1>9, <1>10 DEF NodeStep

(***************************************************************************)
(* A page or a host's line, wherever it is served.                         *)
(***************************************************************************)
LEMMA PagesSettle ==
  ASSUME Settling,
         \/ HandleScan \/ HandleLogOff \/ HandleLogOn
         \/ HandleBridgeOn \/ HandleBridgeOff \/ HandleSlabsPoll
         \/ BridgeHandle \/ OtaStarts
  PROVE  Settling'
<1> USE DEF Settling, Cleared, Page
<1>1. CASE HandleScan
  BY <1>1 DEF HandleScan
<1>2. CASE HandleLogOff
  BY <1>2 DEF HandleLogOff
<1>3. CASE HandleLogOn
  BY <1>3 DEF HandleLogOn, Resume
<1>4. CASE HandleBridgeOn \/ BridgeHandle
  BY <1>4 DEF HandleBridgeOn, BridgeHandle, BridgeEnter
<1>5. CASE HandleBridgeOff
  BY <1>5 DEF HandleBridgeOff, BridgeExit, Resume
<1>6. CASE HandleSlabsPoll
  BY <1>6 DEF HandleSlabsPoll, sessionVars, bridgeVars, busVars
<1>7. CASE OtaStarts
  BY <1>7 DEF OtaStarts
<1> QED BY <1>1, <1>2, <1>3, <1>4, <1>5, <1>6, <1>7

LEMMA SettlingStep ==
  ASSUME Settling, [Next]_vars
  PROVE  Settling'
<1> USE DEF Settling, Cleared
<1>1. CASE WgStart
  BY <1>1 DEF WgStart, sessionVars, bridgeVars, busVars
<1>2. CASE QuietEnds
  BY <1>2 DEF QuietEnds, bridgeVars
<1>3. CASE HostGoesQuiet
  BY <1>3 DEF HostGoesQuiet, sessionVars, busVars
<1>4. CASE Reboot
  BY <1>4 DEF Reboot
<1>5. CASE UNCHANGED vars
  BY <1>5 DEF vars, sessionVars, bridgeVars, busVars
<1> QED BY <1>1, <1>2, <1>3, <1>4, <1>5, LoopSettles, PagesSettle DEF Next, Time

(***************************************************************************)
(* A TD5 init of the recovery follows a teardown and a silence, whatever   *)
(* page was served in the middle of what, for any number of pages, retries *)
(* and reboots.  An excursion's SLABS inits are not among them.            *)
(***************************************************************************)
THEOREM RecoveryInitsFollowSilence == Spec => []RecoveryInitAfterSilence
<1>1. Settling => RecoveryInitAfterSilence
  BY DEF Settling, Cleared, Ticks, RecoveryInitAfterSilence
<1> QED BY SettlingStart, SettlingStep, <1>1, PTL DEF Spec

-----------------------------------------------------------------------------
(***************************************************************************)
(* The types, in parts: flags, counters of the session, and the points.    *)
(***************************************************************************)
FlagsTyped ==
  /\ logEnabled \in BOOLEAN /\ sessionUp \in BOOLEAN
  /\ recoveryCleared \in BOOLEAN /\ needIgnCycle \in BOOLEAN
  /\ slabsPoll \in BOOLEAN
  /\ bridgeMode \in BOOLEAN /\ bridgeSticky \in BOOLEAN /\ hostIdle \in BOOLEAN
  /\ clock \in BOOLEAN /\ wgUp \in BOOLEAN

StateTyped ==
  /\ pc \in {"serve", "read", "post", "settle"}
  /\ sessionMiss \in 0 .. MissGrace - 1
  /\ estabTries \in 0 .. IgnHintAfter
  /\ quiet \in {"none", "window", "boot"}
  /\ tries \in 0 .. SlabsTries
  /\ open \subseteq Modules
  /\ bus \in {"torn", "quiet", "tried", "used"}
  /\ calls \in 0 .. MaxCalls /\ boots \in 0 .. MaxBoots

PointsTyped ==
  /\ spill \in Seq(1 .. MaxSeconds) /\ Len(spill) <= SpillMax
  /\ spillOffset \in 0 .. Len(spill)
  /\ made \in 0 .. MaxSeconds
  /\ wgUp => clock
  /\ pc = "post" /\ clock => made \in 1 .. MaxSeconds
  /\ influx \subseteq 1 .. MaxSeconds
  /\ owed \subseteq 1 .. MaxSeconds

LEMMA FlagsStep ==
  ASSUME FlagsTyped, [Next]_vars
  PROVE  FlagsTyped'
<1> USE DEF FlagsTyped
<1>1. CASE LoopInBridge
  BY <1>1 DEF LoopInBridge, BridgeExit, Resume, linkVars
<1>2. CASE FlushSpill \/ BeginCycle \/ BeginExcursion
  BY <1>2 DEF FlushSpill, BeginCycle, BeginExcursion, sessionVars, bridgeVars, linkVars
<1>3. CASE Recover
  BY <1>3 DEF Recover, bridgeVars, linkVars
<1>4. CASE Establish
  <2>1. needIgnCycle' \in BOOLEAN
    BY <1>4 DEF Establish, CountFailure
  <2>2. sessionUp' \in BOOLEAN /\ recoveryCleared' \in BOOLEAN
    BY <1>4 DEF Establish
  <2> QED BY <1>4, <2>1, <2>2 DEF Establish, bridgeVars, linkVars
<1>5. CASE CycleRead \/ CyclePost
  BY <1>5 DEF CycleRead, CyclePost, bridgeVars, linkVars
<1>6. CASE CycleMissed
  BY <1>6 DEF CycleMissed, bridgeVars, linkVars
<1>7. CASE Excursion
  BY <1>7 DEF Excursion, bridgeVars, linkVars
<1>8. CASE HandleScan \/ HandleLogOff \/ OtaStarts
  BY <1>8 DEF HandleScan, HandleLogOff, OtaStarts, Page, bridgeVars, linkVars
<1>9. CASE HandleLogOn \/ HandleBridgeOff
  BY <1>9 DEF HandleLogOn, HandleBridgeOff, Page, Resume, BridgeExit, bridgeVars, linkVars
<1>10. CASE HandleBridgeOn \/ BridgeHandle
  BY <1>10 DEF HandleBridgeOn, BridgeHandle, Page, BridgeEnter, linkVars
<1>11. CASE HandleSlabsPoll
  BY <1>11 DEF HandleSlabsPoll, Page, sessionVars, bridgeVars, linkVars
<1>12. CASE WgStart
  <2>1. clock' \in BOOLEAN /\ wgUp' \in BOOLEAN
    BY <1>12 DEF WgStart
  <2> QED BY <1>12, <2>1 DEF WgStart, sessionVars, bridgeVars
<1>13. CASE QuietEnds
  BY <1>13 DEF QuietEnds, bridgeVars, linkVars
<1>14. CASE HostGoesQuiet
  BY <1>14 DEF HostGoesQuiet, sessionVars, linkVars
<1>15. CASE Reboot
  BY <1>15 DEF Reboot
<1>16. CASE UNCHANGED vars
  BY <1>16 DEF vars, sessionVars, bridgeVars, linkVars
<1> QED BY <1>1, <1>2, <1>3, <1>4, <1>5, <1>6, <1>7, <1>8, <1>9, <1>10, <1>11, <1>12,
           <1>13, <1>14, <1>15, <1>16 DEF Next, NodeStep, Time

LEMMA AnswerTyped ==
  ASSUME open \subseteq Modules, NEW module \in Modules, NEW answer \in Answers(module)
  PROVE  answer.open \subseteq Modules
BY DEF Answers

LEMMA PageCounted ==
  ASSUME StateTyped, Page
  PROVE  calls' \in 0 .. MaxCalls /\ UNCHANGED <<pc, tries, boots>>
BY KlineNodeAssumption DEF StateTyped, Page

LEMMA FailureCounted ==
  ASSUME StateTyped, CountFailure
  PROVE  estabTries' \in 0 .. IgnHintAfter
<1>1. estabTries' = IF estabTries < IgnHintAfter THEN estabTries + 1 ELSE estabTries
  BY DEF CountFailure
<1> QED BY <1>1, KlineNodeAssumption DEF StateTyped

LEMMA StateStep ==
  ASSUME StateTyped, [Next]_vars
  PROVE  StateTyped'
<1> USE KlineNodeAssumption DEF StateTyped, Modules
<1>1. CASE LoopInBridge
  BY <1>1 DEF LoopInBridge, BridgeExit, Resume, busVars
<1>2. CASE FlushSpill
  BY <1>2 DEF FlushSpill, sessionVars, busVars
<1>3. CASE Recover
  BY <1>3 DEF Recover, TearDown
<1>4. CASE Establish
  <2>1. PICK answer \in Answers("td5") :
          \/ /\ open' = answer.open /\ bus' = "used"
             /\ sessionMiss' = 0 /\ estabTries' = 0 /\ UNCHANGED quiet
          \/ /\ open' \subseteq answer.open \/ open' = answer.open
             /\ bus' = "tried" /\ quiet' = "window"
             /\ CountFailure /\ UNCHANGED sessionMiss
    BY <1>4, Zenon DEF Establish
  <2>2. answer.open \subseteq Modules
    BY AnswerTyped
  <2>3. 0 \in 0 .. MissGrace - 1 /\ 0 \in 0 .. IgnHintAfter
    OBVIOUS
  <2>4. /\ open' \subseteq Modules /\ bus' \in {"torn", "quiet", "tried", "used"}
        /\ quiet' \in {"none", "window", "boot"} /\ sessionMiss' \in 0 .. MissGrace - 1
    BY <2>1, <2>2, <2>3
  <2>5. estabTries' \in 0 .. IgnHintAfter
    BY <2>1, <2>3, FailureCounted
  <2>6. pc' = "serve" /\ UNCHANGED <<tries, calls, boots>>
    BY <1>4 DEF Establish
  <2> QED BY <2>4, <2>5, <2>6
<1>5. CASE BeginCycle
  BY <1>5 DEF BeginCycle, sessionVars
<1>6. CASE CycleRead
  BY <1>6 DEF CycleRead
<1>7. CASE CycleMissed
  BY <1>7 DEF CycleMissed, MissesAfterLoss
<1>8. CASE CyclePost
  BY <1>8 DEF CyclePost, busVars
<1>9. CASE BeginExcursion
  BY <1>9 DEF BeginExcursion, TearDown, sessionVars
<1>10. CASE Excursion
  <2>1. open' \subseteq Modules
    BY <1>10 DEF Excursion, TearDown, Answers
  <2>2. tries' \in 0 .. SlabsTries
    BY <1>10 DEF Excursion
  <2> QED BY <1>10, <2>1, <2>2 DEF Excursion, TearDown
<1>11. CASE HandleScan \/ HandleLogOff \/ OtaStarts \/ HandleSlabsPoll
  <2>1. calls' \in 0 .. MaxCalls /\ UNCHANGED <<pc, tries, boots>>
    BY <1>11, PageCounted DEF HandleScan, HandleLogOff, OtaStarts, HandleSlabsPoll
  <2>2. open' \subseteq Modules /\ bus' \in {"torn", "quiet", "tried", "used"}
    BY <1>11 DEF HandleScan, HandleLogOff, OtaStarts, HandleSlabsPoll, TearDown, busVars
  <2>3. UNCHANGED <<sessionMiss, quiet>> /\ (estabTries' = estabTries \/ estabTries' = 0)
    BY <1>11 DEF HandleScan, HandleLogOff, OtaStarts, HandleSlabsPoll, sessionVars
  <2>4. 0 \in 0 .. IgnHintAfter
    OBVIOUS
  <2> QED BY <2>1, <2>2, <2>3, <2>4
<1>12. CASE HandleLogOn \/ HandleBridgeOff
  <2>1. /\ calls' \in 0 .. MaxCalls
        /\ UNCHANGED <<pc, tries, boots, sessionMiss, open, bus>>
    BY <1>12, PageCounted DEF HandleLogOn, HandleBridgeOff, BridgeExit, busVars
  <2>2. Resume
    BY <1>12 DEF HandleLogOn, HandleBridgeOff, BridgeExit
  <2>3. quiet' \in {"none", "window", "boot"} /\ estabTries' = 0
    BY <2>2 DEF Resume
  <2>4. 0 \in 0 .. IgnHintAfter
    OBVIOUS
  <2> QED BY <2>1, <2>3, <2>4
<1>13. CASE HandleBridgeOn
  <2>1. /\ calls' \in 0 .. MaxCalls
        /\ UNCHANGED <<pc, tries, boots, sessionMiss, estabTries, quiet>>
    BY <1>13, PageCounted DEF HandleBridgeOn, BridgeEnter
  <2>2. TearDown(open) \/ UNCHANGED busVars
    BY <1>13 DEF HandleBridgeOn
  <2>3. open' \subseteq Modules /\ bus' \in {"torn", "quiet", "tried", "used"}
    BY <2>2 DEF TearDown, busVars
  <2> QED BY <2>1, <2>3
<1>14. CASE BridgeHandle
  BY <1>14, PageCounted DEF BridgeHandle, BridgeEnter
<1>15. CASE WgStart
  BY <1>15 DEF WgStart, sessionVars, busVars
<1>16. CASE QuietEnds
  BY <1>16 DEF QuietEnds
<1>17. CASE HostGoesQuiet
  BY <1>17 DEF HostGoesQuiet, sessionVars, busVars
<1>18. CASE Reboot
  BY <1>18 DEF Reboot
<1>19. CASE UNCHANGED vars
  BY <1>19 DEF vars, sessionVars, busVars
<1> QED BY <1>1, <1>2, <1>3, <1>4, <1>5, <1>6, <1>7, <1>8, <1>9, <1>10, <1>11, <1>12,
           <1>13, <1>14, <1>15, <1>16, <1>17, <1>18, <1>19 DEF Next, NodeStep, Time

-----------------------------------------------------------------------------
(***************************************************************************)
(* The points.  Those of the file still to be sent; a POST that is         *)
(* answered has put its chunk of them into the database.                   *)
(***************************************************************************)
Unsent == {spill[i] : i \in spillOffset + 1 .. Len(spill)}

LEMMA PartOf ==
  ASSUME NEW S, NEW s \in Seq(S), NEW m \in Nat \ {0}, NEW n \in Nat, n <= Len(s)
  PROVE  ToSet(SubSeq(s, m, n)) = {s[i] : i \in m .. n}
<1>1. \A i \in m .. n : s[i] \in S
  BY ElementOfSeq, LenProperties
<1>2. /\ SubSeq(s, m, n) \in Seq(S)
      /\ Len(SubSeq(s, m, n)) = IF m <= n THEN n - m + 1 ELSE 0
      /\ \A i \in 1 .. n - m + 1 : SubSeq(s, m, n)[i] = s[m + i - 1]
  BY <1>1, SubSeqProperties
<1> DEFINE part == SubSeq(s, m, n)
<1> HIDE DEF part
<1>3. DOMAIN part = 1 .. Len(part)
  BY <1>2, LenProperties DEF part
<1>4. CASE m <= n
  <2>1. DOMAIN part = 1 .. n - m + 1
    BY <1>2, <1>3, <1>4 DEF part
  <2>2. ASSUME NEW i \in m .. n PROVE i - m + 1 \in DOMAIN part /\ part[i - m + 1] = s[i]
    <3>1. i - m + 1 \in 1 .. n - m + 1 /\ m + (i - m + 1) - 1 = i
      OBVIOUS
    <3> QED BY <1>2, <2>1, <3>1 DEF part
  <2>3. ASSUME NEW i \in DOMAIN part PROVE m + i - 1 \in m .. n /\ part[i] = s[m + i - 1]
    BY <1>2, <2>1 DEF part
  <2>4. {part[i] : i \in DOMAIN part} \subseteq {s[i] : i \in m .. n}
    BY <2>3
  <2>5. {s[i] : i \in m .. n} \subseteq {part[i] : i \in DOMAIN part}
    BY <2>2
  <2> QED BY <2>4, <2>5 DEF ToSet, part
<1>5. CASE ~ (m <= n)
  <2>1. DOMAIN part = {} /\ m .. n = {}
    BY <1>2, <1>3, <1>5 DEF part
  <2> QED BY <2>1 DEF ToSet, part
<1> QED BY <1>4, <1>5

LEMMA UnsentIsTail ==
  ASSUME PointsTyped
  PROVE  ToSet(SubSeq(spill, spillOffset + 1, Len(spill))) = Unsent
<1>1. spill \in Seq(1 .. MaxSeconds) /\ spillOffset + 1 \in Nat \ {0} /\ Len(spill) \in Nat
  BY LenProperties DEF PointsTyped
<1> QED BY <1>1, PartOf DEF Unsent

LEMMA PostKeeps ==
  ASSUME NEW S, NEW lines \in Seq(S), NEW post \in InfluxPost(lines), influx' = post.rows
  PROVE  /\ influx \subseteq influx' /\ influx' \subseteq influx \cup ToSet(lines)
         /\ influx' = influx \/ wgUp
         /\ post.ok => ToSet(lines) \subseteq influx'
<1>1. ASSUME NEW n \in 1 .. Len(lines) PROVE ToSet(SubSeq(lines, 1, n)) \subseteq ToSet(lines)
  <2>1. n \in Nat /\ n <= Len(lines) /\ Len(lines) \in Nat /\ DOMAIN lines = 1 .. Len(lines)
    BY LenProperties
  <2>2. ToSet(SubSeq(lines, 1, n)) = {lines[i] : i \in 1 .. n}
    BY <2>1, PartOf
  <2>3. 1 .. n \subseteq DOMAIN lines
    BY <2>1
  <2> QED BY <2>2, <2>3 DEF ToSet
<1> QED BY <1>1 DEF InfluxPost

(***************************************************************************)
(* The second of a point whose cycle ended, not dropped, has a point in    *)
(* the database or in what is left of the file.                            *)
(***************************************************************************)
PointsInv == PointsTyped /\ owed \subseteq influx \cup Unsent

LEMMA PointsStart == Init => PointsInv
<1> SUFFICES ASSUME Init PROVE PointsInv
  OBVIOUS
<1>1. <<>> \in Seq(1 .. MaxSeconds) /\ Len(<<>>) = 0
  BY EmptySeq
<1>2. 0 \in 0 .. MaxSeconds
  BY KlineNodeAssumption
<1> QED BY <1>1, <1>2, KlineNodeAssumption DEF Init, PointsInv, PointsTyped

LEMMA PointsStand ==
  ASSUME PointsInv, UNCHANGED spillVars, pc' = "post" => pc = "post" /\ UNCHANGED clock,
         wgUp' => clock'
  PROVE  PointsInv'
BY DEF PointsInv, PointsTyped, Unsent, spillVars

(***************************************************************************)
(* Part of the file is sent: what is answered for leaves the unsent part.  *)
(***************************************************************************)
LEMMA FlushKeeps ==
  ASSUME PointsInv, FlushSpill
  PROVE  PointsInv'
<1> DEFINE last == IF spillOffset + Chunk < Len(spill) THEN spillOffset + Chunk ELSE Len(spill)
           sent == {spill[i] : i \in spillOffset + 1 .. last}
<1>1. /\ spill \in Seq(1 .. MaxSeconds) /\ Len(spill) \in Nat /\ spillOffset \in Nat
      /\ spillOffset <= Len(spill) /\ spill # <<>>
  BY LenProperties DEF PointsInv, PointsTyped, FlushSpill
<1>2. last \in Nat /\ spillOffset <= last /\ last <= Len(spill)
  BY <1>1, KlineNodeAssumption
<1>3. PICK post \in InfluxPost(SubSeq(spill, spillOffset + 1, last)) :
        /\ influx' = post.rows
        /\ spill' = IF post.ok THEN Drained(last) ELSE spill
        /\ spillOffset' = IF spill' = <<>> THEN 0 ELSE IF post.ok THEN last ELSE spillOffset
  BY DEF FlushSpill
<1> HIDE DEF last
<1>4. ToSet(SubSeq(spill, spillOffset + 1, last)) = sent
  <2>1. spillOffset + 1 \in Nat \ {0}
    BY <1>1
  <2> QED BY <1>1, <1>2, <2>1, PartOf
<1>5. sent \subseteq 1 .. MaxSeconds
  <2>1. ASSUME NEW i \in spillOffset + 1 .. last PROVE spill[i] \in 1 .. MaxSeconds
    <3>1. i \in 1 .. Len(spill)
      BY <1>1, <1>2
    <3> QED BY <1>1, <3>1, ElementOfSeq
  <2> QED BY <2>1
<1>6. influx \subseteq influx' /\ influx' \subseteq influx \cup sent /\ (post.ok => sent \subseteq influx')
  <2>1. \A i \in spillOffset + 1 .. last : spill[i] \in 1 .. MaxSeconds
    BY <1>5
  <2>2. SubSeq(spill, spillOffset + 1, last) \in Seq(1 .. MaxSeconds)
    BY <1>1, <1>2, <2>1, SubSeqProperties
  <2> QED BY <1>3, <1>4, <2>2, PostKeeps
<1>7. UNCHANGED <<made, owed, pc, clock, wgUp>>
  BY DEF FlushSpill, linkVars
<1>8. /\ spill' \in Seq(1 .. MaxSeconds) /\ Len(spill') <= SpillMax
      /\ spillOffset' \in 0 .. Len(spill') /\ Unsent \subseteq Unsent' \cup influx'
  <2>1. CASE ~ post.ok
    <3>1. spill' = spill /\ spillOffset' = spillOffset
      BY <1>1, <1>3, <2>1
    <3> QED BY <1>1, <3>1 DEF PointsInv, PointsTyped, Unsent
  <2>2. CASE post.ok /\ last >= Len(spill)
    <3>1. spill' = <<>> /\ spillOffset' = 0
      BY <1>3, <2>2 DEF Drained
    <3>2. last = Len(spill)
      BY <1>1, <1>2, <2>2
    <3>3. Unsent \subseteq influx'
      BY <1>6, <2>2, <3>2 DEF Unsent
    <3>4. <<>> \in Seq(1 .. MaxSeconds) /\ Len(<<>>) = 0
      BY EmptySeq
    <3> QED BY <3>1, <3>3, <3>4, KlineNodeAssumption
  <2>3. CASE post.ok /\ ~ (last >= Len(spill))
    <3>1. spill' = spill /\ spillOffset' = last
      BY <1>1, <1>3, <2>3 DEF Drained
    <3>2. ASSUME NEW i \in spillOffset + 1 .. Len(spill)
          PROVE  spill[i] \in sent \/ i \in last + 1 .. Len(spill)
      BY <1>1, <1>2
    <3>3. Unsent \subseteq Unsent' \cup sent
      BY <3>1, <3>2 DEF Unsent
    <3> HIDE DEF sent
    <3> QED BY <1>1, <1>2, <1>6, <2>3, <3>1, <3>3 DEF PointsInv, PointsTyped
  <2> QED BY <2>1, <2>2, <2>3
<1> HIDE DEF sent
<1>9. PointsTyped'
  BY <1>5, <1>6, <1>7, <1>8 DEF PointsInv, PointsTyped
<1> QED BY <1>6, <1>7, <1>8, <1>9 DEF PointsInv

LEMMA CyclePostKeeps ==
  ASSUME PointsInv, CyclePost
  PROVE  PointsInv'
<1>0. PICK post \in InfluxPost(<<made>>) :
        /\ influx' = post.rows
        /\ spill' = IF ~post.ok /\ clock /\ Len(spill) < SpillMax THEN Append(spill, made) ELSE spill
        /\ owed' = IF clock /\ (post.ok \/ Len(spill) < SpillMax)
                   THEN owed \cup {made} ELSE owed
  BY DEF CyclePost
<1>1. /\ spill' = IF ~post.ok /\ clock /\ Len(spill) < SpillMax THEN Append(spill, made) ELSE spill
      /\ owed' = IF clock /\ (post.ok \/ Len(spill) < SpillMax)
                 THEN owed \cup {made} ELSE owed
  BY <1>0
<1>2. /\ influx \subseteq influx' /\ influx' \subseteq influx \cup {made}
      /\ influx' = influx \/ clock
      /\ post.ok => made \in influx'
  <2>1. <<made>> \in Seq({made}) /\ ToSet(<<made>>) = {made}
    BY DEF ToSet
  <2>2. /\ influx \subseteq influx' /\ influx' \subseteq influx \cup ToSet(<<made>>)
        /\ influx' = influx \/ wgUp
        /\ post.ok => ToSet(<<made>>) \subseteq influx'
    BY <1>0, <2>1, PostKeeps
  <2> QED BY <2>1, <2>2 DEF PointsInv, PointsTyped
<1>3. /\ pc' = "serve" /\ (clock => made \in 1 .. MaxSeconds)
      /\ UNCHANGED <<spillOffset, made, clock, wgUp>>
  BY DEF CyclePost, PointsInv, PointsTyped, linkVars
<1>4. /\ spill \in Seq(1 .. MaxSeconds) /\ Len(spill) \in Nat /\ spillOffset \in Nat
      /\ spillOffset <= Len(spill) /\ Len(spill) <= SpillMax
  BY LenProperties DEF PointsInv, PointsTyped
<1>5. /\ spill' \in Seq(1 .. MaxSeconds) /\ Len(spill') <= SpillMax
      /\ spillOffset' \in 0 .. Len(spill') /\ Unsent \subseteq Unsent'
      /\ spill' # spill => made \in Unsent'
  <2>1. CASE spill' = spill
    BY <1>3, <1>4, <2>1 DEF Unsent
  <2>2. CASE clock /\ spill' = Append(spill, made) /\ Len(spill) < SpillMax
    <3>1. /\ Append(spill, made) \in Seq(1 .. MaxSeconds)
          /\ Len(Append(spill, made)) = Len(spill) + 1
          /\ \A i \in 1 .. Len(spill) : Append(spill, made)[i] = spill[i]
          /\ Append(spill, made)[Len(spill) + 1] = made
      BY <1>3, <1>4, <2>2, AppendProperties
    <3>2. ASSUME NEW i \in spillOffset + 1 .. Len(spill)
          PROVE  i \in spillOffset' + 1 .. Len(spill') /\ spill'[i] = spill[i]
      BY <1>3, <1>4, <2>2, <3>1
    <3>3. Len(spill) + 1 \in spillOffset' + 1 .. Len(spill') /\ spill'[Len(spill) + 1] = made
      BY <1>3, <1>4, <2>2, <3>1
    <3>4. Unsent \subseteq Unsent' /\ made \in Unsent'
      BY <3>2, <3>3 DEF Unsent
    <3>5. Len(spill') <= SpillMax /\ spillOffset' \in 0 .. Len(spill')
      BY <1>3, <1>4, <2>2, <3>1, KlineNodeAssumption
    <3> QED BY <2>2, <3>1, <3>4, <3>5
  <2> QED BY <1>1, <2>1, <2>2
<1>6. owed' \subseteq owed \cup (influx' \cup Unsent')
  <2>1. CASE owed' = owed
    BY <2>1
  <2>2. CASE clock /\ post.ok
    BY <1>1, <1>2, <2>2
  <2>3. CASE clock /\ ~post.ok /\ Len(spill) < SpillMax
    <3>1. spill' = Append(spill, made)
      BY <1>1, <2>3
    <3>2. spill' # spill
      BY <1>3, <1>4, <2>3, <3>1, AppendProperties
    <3> QED BY <1>1, <1>5, <3>2
  <2> QED BY <1>1, <2>1, <2>2, <2>3
<1>7. owed' \subseteq owed \cup {made} /\ (owed' = owed \/ clock)
  BY <1>1
<1>8. PointsTyped'
  BY <1>2, <1>3, <1>5, <1>7 DEF PointsInv, PointsTyped
<1> QED BY <1>2, <1>3, <1>5, <1>6, <1>8 DEF PointsInv

LEMMA CycleReadKeeps ==
  ASSUME PointsInv, CycleRead
  PROVE  PointsInv'
<1>1. /\ \/ made' \in (IF clock THEN NextSeconds ELSE {made}) /\ pc' = "post"
         \/ made' = made /\ pc' = "serve"
      /\ UNCHANGED <<spill, spillOffset, influx, owed, clock, wgUp>>
  BY DEF CycleRead, linkVars
<1>2. made' \in 0 .. MaxSeconds /\ (pc' = "post" /\ clock' => made' \in 1 .. MaxSeconds)
  BY <1>1, KlineNodeAssumption DEF PointsInv, PointsTyped, NextSeconds
<1> QED BY <1>1, <1>2 DEF PointsInv, PointsTyped, Unsent

(***************************************************************************)
(* RAM is lost at a boot, and with it how much of the file was sent: more  *)
(* of it is sent again, none is forgotten.                                 *)
(***************************************************************************)
LEMMA RebootKeeps ==
  ASSUME PointsInv, Reboot
  PROVE  PointsInv'
<1>1. /\ pc' = "serve" /\ spillOffset' = 0 /\ wgUp' = FALSE
      /\ UNCHANGED <<spill, made, influx, owed>>
  BY DEF Reboot
<1>2. Len(spill) \in Nat /\ spillOffset \in Nat
  BY LenProperties DEF PointsInv, PointsTyped
<1>3. Unsent \subseteq Unsent'
  <2>1. \A i \in spillOffset + 1 .. Len(spill) : i \in 0 + 1 .. Len(spill)
    BY <1>2
  <2> QED BY <1>1, <2>1 DEF Unsent
<1>4. 0 \in 0 .. Len(spill)
  BY <1>2
<1> QED BY <1>1, <1>3, <1>4 DEF PointsInv, PointsTyped

LEMMA PointsStep ==
  ASSUME PointsInv, [Next]_vars
  PROVE  PointsInv'
<1>1. CASE LoopInBridge \/ Recover \/ Establish \/ BeginCycle \/ CycleMissed
             \/ BeginExcursion \/ Excursion
  BY <1>1, PointsStand DEF PointsInv, PointsTyped, linkVars, LoopInBridge, Recover, Establish,
                           BeginCycle, CycleMissed, BeginExcursion, Excursion
<1>2. CASE HandleScan \/ HandleLogOff \/ HandleLogOn \/ HandleBridgeOn \/ HandleBridgeOff
             \/ HandleSlabsPoll \/ BridgeHandle \/ OtaStarts
  <2>1. Page
    BY <1>2 DEF HandleScan, HandleLogOff, HandleLogOn, HandleBridgeOn, HandleBridgeOff,
                HandleSlabsPoll, BridgeHandle, OtaStarts
  <2> QED BY <2>1, PointsStand DEF PointsInv, PointsTyped, linkVars, Page
<1>3. CASE WgStart
  BY <1>3, PointsStand DEF PointsInv, PointsTyped, linkVars, spillVars, WgStart
<1>4. CASE QuietEnds \/ HostGoesQuiet \/ UNCHANGED vars
  BY <1>4, PointsStand DEF PointsInv, PointsTyped, linkVars, spillVars, QuietEnds, HostGoesQuiet, vars
<1> QED BY <1>1, <1>2, <1>3, <1>4, FlushKeeps, CycleReadKeeps, CyclePostKeeps, RebootKeeps
        DEF Next, NodeStep, Time

(***************************************************************************)
(* "a drive out of hotspot range isn't lost": every second with a point    *)
(* that the full file did not drop has one in the database or waiting in   *)
(* the file, through lost answers, chunks written in part and reboots, for *)
(* every cap and chunk.  Of two points of one second one is kept.          *)
(***************************************************************************)
THEOREM SecondsAreNotLost == Spec => []SecondsAreKept
<1>1. PointsInv => SecondsAreKept
  BY UnsentIsTail DEF PointsInv, SecondsAreKept
<1> QED BY PointsStart, PointsStep, <1>1, PTL DEF Spec

(***************************************************************************)
(* The types of the node; the file never exceeds its cap, and no more of   *)
(* it is sent than there is.                                               *)
(***************************************************************************)
THEOREM NodeTyped == Spec => []TypeOK
<1>1. Init => FlagsTyped
  BY DEF Init, FlagsTyped
<1>2. Init => StateTyped
  <2>1. /\ 0 \in 0 .. MissGrace - 1 /\ 0 \in 0 .. IgnHintAfter /\ 0 \in 0 .. SlabsTries
        /\ 0 \in 0 .. MaxCalls /\ 0 \in 0 .. MaxBoots
    BY KlineNodeAssumption
  <2> QED BY <2>1 DEF Init, StateTyped
<1>3. FlagsTyped /\ StateTyped /\ PointsInv => TypeOK
  <2> SUFFICES ASSUME FlagsTyped, StateTyped, PointsInv PROVE TypeOK
    OBVIOUS
  <2>1. {logEnabled, sessionUp, recoveryCleared, needIgnCycle, slabsPoll, bridgeMode,
         bridgeSticky, hostIdle, clock, wgUp} \subseteq BOOLEAN
    BY Zenon DEF FlagsTyped
  <2> QED BY <2>1 DEF StateTyped, PointsInv, PointsTyped, TypeOK
<1> QED BY <1>1, <1>2, <1>3, FlagsStep, StateStep, PointsStart, PointsStep, PTL DEF Spec

=============================================================================
