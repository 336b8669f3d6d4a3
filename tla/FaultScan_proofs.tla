-------------------------- MODULE FaultScan_proofs --------------------------
(***************************************************************************)
(* Theorems of FaultScan, for every set of modules, scan order and number  *)
(* of attempts.                                                            *)
(***************************************************************************)
EXTENDS FaultScan, SequenceTheorems, TLAPS

(***************************************************************************)
(* First, lemmas about the session object, for every caller that drives it:*)
(* they speak of the variables of EcuSession alone.                        *)
(***************************************************************************)
Releasing == {"ending", "stopping", "closing"}

(***************************************************************************)
(* A step of establish: an exchange, or one of its sleeps, which lasts, is *)
(* cut short or raises.                                                    *)
(***************************************************************************)
EstablishStep ==
  \/ Exchange
  \/ \E whole \in BOOLEAN : Settle(whole) \/ Quiet(whole)
  \/ Confirm
  \/ SleepRaises

(***************************************************************************)
(* What an ECU may still hold of us, by the place of the running method:   *)
(* release has cleared it by the time it closes, and the 82 that starts    *)
(* every fast establish clears what an earlier object left behind.         *)
(***************************************************************************)
SessionDebts ==
  /\ sessDue \cap Confirming = {}
  /\ phase \in {"session", "unlock"} => cur \notin Confirming
  /\ phase \in {"stopping", "closing"} => cur \notin sessDue \cap Unlocking

LinkDebts ==
  /\ linkDue \cap SlowInit \subseteq {cur}
  /\ phase = "settle" => cur \notin SlowInit /\ linkDue = {}
  /\ phase = "init" /\ try = 0 /\ cur \notin SlowInit => linkDue = {}
  /\ phase = "closing" => linkDue \cap Heard(cur) = {}

(***************************************************************************)
(* A module hears the frames of its own object.                            *)
(***************************************************************************)
LEMMA HearsItself ==
  ASSUME NEW m \in Modules
  PROVE  m \in Heard(m)
  BY DEF Heard

LEMMA ObjectInUse ==
  ASSUME SessionTypeOK, phase # "none"
  PROVE  /\ cur \in Modules
         /\ cur \in Heard(cur)
  BY HearsItself DEF SessionTypeOK

-----------------------------------------------------------------------------
(***************************************************************************)
(* Where each kind of step starts and what it leaves alone.                *)
(***************************************************************************)
LEMMA InitPhases ==
  ASSUME NEW out \in Outcomes, SendInit(out)
  PROVE  /\ phase = "init"
         /\ phase' \in {"failed", "session", "quiet", "confirm"}
         /\ phase' = "session" => cur \notin Confirming
  BY SessionAssumption DEF SendInit, AfterInit

LEMMA StartPhases ==
  ASSUME NEW out \in Outcomes, StartSession(out)
  PROVE  /\ phase = "session"
         /\ phase' \in {"failed", "quiet", "unlock", "up"}
  BY DEF StartSession

LEMMA UnlockPhases ==
  ASSUME NEW out \in Outcomes, Unlock(out)
  PROVE  /\ phase = "unlock"
         /\ phase' \in {"failed", "quiet", "up"}
  BY DEF Unlock

LEMMA EstablishPhases ==
  ASSUME EstablishStep
  PROVE  /\ phase \notin Releasing \cup {"none", "failed", "up"}
         /\ phase' \notin Releasing \cup {"none", "opened"}
         /\ UNCHANGED <<cur, ports>>
<1> USE DEF Releasing, Sleeping
<1>1. CASE BeginEstablish
  BY <1>1 DEF BeginEstablish
<1>2. ASSUME NEW out \in Outcomes, SendInit(out)
      PROVE  /\ phase = "init"
             /\ phase' \in {"failed", "session", "quiet", "confirm"}
             /\ UNCHANGED <<cur, ports>>
  BY <1>2, InitPhases DEF SendInit
<1>3. ASSUME NEW out \in Outcomes, StartSession(out)
      PROVE  /\ phase = "session"
             /\ phase' \in {"failed", "quiet", "unlock", "up"}
             /\ UNCHANGED <<cur, ports>>
  BY <1>3, StartPhases DEF StartSession
<1>4. ASSUME NEW out \in Outcomes, Unlock(out)
      PROVE  /\ phase = "unlock"
             /\ phase' \in {"failed", "quiet", "up"}
             /\ UNCHANGED <<cur, ports>>
  BY <1>4, UnlockPhases DEF Unlock
<1>5. ASSUME NEW whole \in BOOLEAN, Settle(whole) \/ Quiet(whole)
      PROVE  /\ phase \in {"settle", "quiet"}
             /\ phase' \in {"init", "failed"}
             /\ UNCHANGED <<cur, ports>>
  BY <1>5 DEF Settle, Quiet
<1>6. CASE Confirm \/ SleepRaises
  BY <1>6 DEF Confirm, SleepRaises
<1>. QED
  BY <1>1, <1>2, <1>3, <1>4, <1>5, <1>6 DEF EstablishStep, Exchange

LEMMA ReleasePhases ==
  ASSUME ReleaseStep
  PROVE  /\ phase \in Releasing
         /\ phase' \in {"stopping", "closing"}
         /\ UNCHANGED <<cur, ports>>
  BY DEF ReleaseStep, EndSession, StopCommunication, Releasing

-----------------------------------------------------------------------------
(***************************************************************************)
(* Every session step keeps the types.                                     *)
(***************************************************************************)
LEMMA SessionStepTyped ==
  ASSUME SessionTypeOK, EstablishStep \/ ReleaseStep \/ Close
  PROVE  SessionTypeOK'
<1> USE SessionAssumption DEF SessionTypeOK, Phases, Sleeping
<1>1. CASE BeginEstablish
  BY <1>1 DEF BeginEstablish
<1>2. ASSUME NEW out \in Outcomes, SendInit(out)
      PROVE  SessionTypeOK'
  BY <1>2, InitPhases DEF SendInit
<1>3. ASSUME NEW out \in Outcomes, StartSession(out)
      PROVE  SessionTypeOK'
  BY <1>3, StartPhases DEF StartSession
<1>4. ASSUME NEW out \in Outcomes, Unlock(out)
      PROVE  SessionTypeOK'
  BY <1>4, UnlockPhases DEF Unlock
<1>5. ASSUME NEW whole \in BOOLEAN, Settle(whole)
      PROVE  SessionTypeOK'
  BY <1>5 DEF Settle
<1>6. ASSUME NEW whole \in BOOLEAN, Quiet(whole)
      PROVE  SessionTypeOK'
  BY <1>6 DEF Quiet
<1>7. CASE Confirm \/ SleepRaises
  BY <1>7 DEF Confirm, SleepRaises
<1>8. CASE EndSession
  BY <1>8 DEF EndSession
<1>9. CASE StopCommunication
  BY <1>9 DEF StopCommunication
<1>10. CASE Close
  BY <1>10 DEF Close
<1>. QED
  BY <1>1, <1>2, <1>3, <1>4, <1>5, <1>6, <1>7, <1>8, <1>9, <1>10
     DEF EstablishStep, Exchange, ReleaseStep

LEMMA OpenTyped ==
  ASSUME SessionTypeOK, NEW m \in Modules, Open(m)
  PROVE  SessionTypeOK'
  BY SessionAssumption DEF SessionTypeOK, Open, Phases, Sleeping

-----------------------------------------------------------------------------
(***************************************************************************)
(* Every session step keeps the debts.                                     *)
(***************************************************************************)
LEMMA SessionDebtsStep ==
  ASSUME SessionTypeOK, SessionDebts, EstablishStep \/ ReleaseStep \/ Close
  PROVE  SessionDebts'
<1> USE DEF SessionDebts
<1>1. CASE BeginEstablish
  BY <1>1 DEF BeginEstablish
<1>2. ASSUME NEW out \in Outcomes, SendInit(out)
      PROVE  SessionDebts'
  BY <1>2, InitPhases DEF SendInit
<1>3. ASSUME NEW out \in Outcomes, StartSession(out)
      PROVE  SessionDebts'
  BY <1>3, StartPhases DEF StartSession
<1>4. ASSUME NEW out \in Outcomes, Unlock(out)
      PROVE  SessionDebts'
  BY <1>4, UnlockPhases DEF Unlock
<1>5. ASSUME NEW whole \in BOOLEAN, Settle(whole) \/ Quiet(whole)
      PROVE  SessionDebts'
  BY <1>5 DEF Settle, Quiet
<1>6. CASE Confirm \/ SleepRaises
  BY <1>6 DEF Confirm, SleepRaises
<1>7. CASE EndSession
  <2>1. cur \in Heard(cur)
    BY <1>7, ObjectInUse DEF EndSession
  <2>2. sessDue' \subseteq sessDue /\ cur \notin sessDue' \cap Unlocking
    BY <1>7, <2>1 DEF EndSession, EndsSession
  <2>. QED
    BY <1>7, <2>2 DEF EndSession
<1>8. CASE StopCommunication \/ Close
  BY <1>8 DEF StopCommunication, Close
<1>. QED
  BY <1>1, <1>2, <1>3, <1>4, <1>5, <1>6, <1>7, <1>8
     DEF EstablishStep, Exchange, ReleaseStep

LEMMA LinkDebtsStep ==
  ASSUME SessionTypeOK, LinkDebts, EstablishStep \/ ReleaseStep \/ Close
  PROVE  LinkDebts'
<1> USE DEF LinkDebts
<1>1. CASE BeginEstablish
  <2>1. CASE cur \in SlowInit
    BY <1>1, <2>1 DEF BeginEstablish
  <2>2. CASE cur \notin SlowInit
    BY <1>1, <2>2 DEF BeginEstablish, Heard, SessionTypeOK
  <2>. QED
    BY <2>1, <2>2
<1>2. ASSUME NEW out \in Outcomes, SendInit(out)
      PROVE  LinkDebts'
  BY <1>2, InitPhases DEF SendInit
<1>3. ASSUME NEW out \in Outcomes, StartSession(out)
      PROVE  LinkDebts'
  BY <1>3, StartPhases DEF StartSession
<1>4. ASSUME NEW out \in Outcomes, Unlock(out)
      PROVE  LinkDebts'
  BY <1>4, UnlockPhases DEF Unlock
<1>5. ASSUME NEW whole \in BOOLEAN, Settle(whole)
      PROVE  LinkDebts'
  BY <1>5 DEF Settle
<1>6. ASSUME NEW whole \in BOOLEAN, Quiet(whole)
      PROVE  LinkDebts'
  <2>1. phase' \in {"init", "failed"} /\ try' # 0
    BY <1>6 DEF Quiet, SessionTypeOK
  <2>. QED
    BY <1>6, <2>1 DEF Quiet
<1>7. CASE Confirm \/ SleepRaises
  BY <1>7 DEF Confirm, SleepRaises
<1>8. CASE EndSession
  BY <1>8 DEF EndSession
<1>9. CASE StopCommunication
  BY <1>9 DEF StopCommunication, Heard
<1>10. CASE Close
  <2>1. cur \in Heard(cur)
    BY <1>10, ObjectInUse DEF Close
  <2>. QED
    BY <1>10, <2>1 DEF Close
<1>. QED
  BY <1>1, <1>2, <1>3, <1>4, <1>5, <1>6, <1>7, <1>8, <1>9, <1>10
     DEF EstablishStep, Exchange, ReleaseStep

LEMMA OpenDebts ==
  ASSUME SessionTypeOK, SessionDebts, LinkDebts, NEW m \in Modules, Open(m)
  PROVE  SessionDebts' /\ LinkDebts'
  BY SessionAssumption DEF SessionTypeOK, SessionDebts, LinkDebts, Open

-----------------------------------------------------------------------------

(***************************************************************************)
(* A scan establishes its sessions by steps of the session object.         *)
(***************************************************************************)
LEMMA ScanEstablishes ==
  ASSUME Exchange \/ Settle(TRUE) \/ Quiet(TRUE) \/ Confirm
  PROVE  EstablishStep
  BY DEF EstablishStep

LEMMA ScanOrderFacts ==
  /\ Len(ScanOrder) \in Nat \ {0}
  /\ DOMAIN ScanOrder = 1 .. Len(ScanOrder)
  /\ \A k \in 1 .. Len(ScanOrder) : ScanOrder[k] \in Modules
<1>1. ScanOrder \in Seq(Modules) /\ ScanOrder # <<>>
  BY ScanAssumption
<1>2. /\ Len(ScanOrder) \in Nat
      /\ DOMAIN ScanOrder = 1 .. Len(ScanOrder)
  BY <1>1, LenProperties
<1>3. \A k \in 1 .. Len(ScanOrder) : ScanOrder[k] \in Modules
  BY <1>1, ElementOfSeq
<1>4. Len(ScanOrder) # 0
  BY <1>1, EmptySeq
<1>. QED
  BY <1>2, <1>3, <1>4

LEMMA AddRowTyped ==
  ASSUME ScanTypeOK, Scanning, NEW status \in {"read", "error"}, AddRow(status)
  PROVE  /\ report' \in Seq(Row)
         /\ Len(report') = Len(report) + 1
         /\ \A k \in 1 .. Len(report) : report'[k] = report[k]
         /\ report'[Len(report) + 1].module = ScanOrder[scanAt]
<1> DEFINE row == [module |-> ScanOrder[scanAt], status |-> status]
<1>1. report \in Seq(Row)
  BY DEF ScanTypeOK
<1>2. row \in Row
  BY ScanOrderFacts DEF Scanning, Row
<1>3. report' = Append(report, row)
  BY DEF AddRow
<1>. HIDE DEF row
<1>4. /\ Append(report, row) \in Seq(Row)
      /\ Len(Append(report, row)) = Len(report) + 1
      /\ \A k \in 1 .. Len(report) : Append(report, row)[k] = report[k]
      /\ Append(report, row)[Len(report) + 1] = row
  BY <1>1, <1>2, AppendProperties
<1>. QED
  BY <1>3, <1>4 DEF row

-----------------------------------------------------------------------------
(***************************************************************************)
(* The types of the scan and its session object hold in every state        *)
(* (faultscan.py, session.py).                                             *)
(***************************************************************************)
LEMMA ScanTypedInit == ScanInit => ScanTypeOK
<1> SUFFICES ASSUME ScanInit PROVE ScanTypeOK
  OBVIOUS
<1>1. SessionTypeOK
  BY DEF ScanInit, SessionInit, SessionTypeOK, Phases, Sleeping
<1>2. scanAt \in 0 .. Len(ScanOrder) + 1
  BY ScanOrderFacts DEF ScanInit
<1>3. report \in Seq(Row)
  BY EmptySeq DEF ScanInit
<1>. QED
  BY <1>1, <1>2, <1>3 DEF ScanTypeOK

LEMMA ScanTypedStep == ScanTypeOK /\ [Scan]_busVars => ScanTypeOK'
<1> SUFFICES ASSUME ScanTypeOK, [Scan]_busVars
             PROVE  ScanTypeOK'
  OBVIOUS
<1>. USE ScanOrderFacts
<1>0. SessionTypeOK
  BY DEF ScanTypeOK
<1>1. CASE BeginScan
  <2>1. SessionTypeOK'
    BY <1>0, <1>1 DEF BeginScan, SessionTypeOK, sessionVars
  <2>2. CASE scanAt' = 1 /\ report' = <<>>
    BY <2>1, <2>2, EmptySeq DEF ScanTypeOK
  <2>3. CASE /\ scanAt' = Len(ScanOrder) + 1
             /\ report' = [k \in DOMAIN ScanOrder |->
                             [module |-> ScanOrder[k], status |-> "error"]]
    <3>1. report' \in [1 .. Len(ScanOrder) -> Row]
      BY <2>3 DEF Row
    <3>2. report' \in Seq(Row)
      BY <3>1, IsASeq
    <3>. QED
      BY <2>1, <2>3, <3>2 DEF ScanTypeOK
  <2>. QED
    BY <1>1, <2>2, <2>3 DEF BeginScan
<1>2. CASE ScanOpen
  <2>1. CASE Open(ScanOrder[scanAt]) /\ UNCHANGED scanVars
    <3>1. SessionTypeOK'
      BY <1>0, <1>2, <2>1, OpenTyped DEF ScanOpen, Scanning
    <3>. QED
      BY <2>1, <3>1 DEF ScanTypeOK, scanVars
  <2>2. CASE AddRow("error") /\ UNCHANGED <<sessionVars, scanAt>>
    <3>1. SessionTypeOK'
      BY <1>0, <2>2 DEF SessionTypeOK, sessionVars
    <3>2. report' \in Seq(Row)
      BY <1>2, <2>2, AddRowTyped DEF ScanOpen
    <3>. QED
      BY <2>2, <3>1, <3>2 DEF ScanTypeOK
  <2>. QED
    BY <1>2, <2>1, <2>2 DEF ScanOpen
<1>3. CASE ScanEstablish \/ ScanRelease
  <2>1. SessionTypeOK'
    BY <1>0, <1>3, SessionStepTyped, ScanEstablishes DEF ScanEstablish, ScanRelease
  <2>. QED
    BY <1>3, <2>1 DEF ScanEstablish, ScanRelease, ScanTypeOK, scanVars
<1>4. CASE ScanFailed
  <2>1. SessionTypeOK'
    BY <1>0, <1>4 DEF ScanFailed, SessionTypeOK, Phases
  <2>. QED
    BY <1>4, <2>1 DEF ScanFailed, ScanTypeOK, scanVars
<1>5. CASE ScanRead
  <2>1. SessionTypeOK'
    BY <1>0, <1>5 DEF ScanRead, SessionTypeOK, Phases
  <2>2. report' \in Seq(Row)
    BY <1>5, AddRowTyped DEF ScanRead, ScanTypeOK
  <2>. QED
    BY <1>5, <2>1, <2>2 DEF ScanRead, ScanTypeOK
<1>6. CASE NextModule
  BY <1>0, <1>6 DEF NextModule, Scanning, ScanTypeOK, SessionTypeOK
<1>7. CASE ScanReturn
  <2>1. SessionTypeOK'
    BY <1>0, <1>7 DEF ScanReturn, SessionTypeOK, sessionVars
  <2>. QED
    BY <1>7, <2>1, EmptySeq DEF ScanReturn, ScanTypeOK
<1>8. CASE UNCHANGED busVars
  BY <1>0, <1>8 DEF busVars, sessionVars, scanVars, ScanTypeOK, SessionTypeOK
<1>9. CASE ScanClose
  <2>1. SessionTypeOK'
    BY <1>0, <1>9, SessionStepTyped DEF ScanClose
  <2>2. report' \in Seq(Row)
    BY <1>9, AddRowTyped DEF ScanClose, ScanTypeOK
  <2>. QED
    BY <1>9, <2>1, <2>2 DEF ScanClose, ScanTypeOK
<1>. QED
  BY <1>1, <1>2, <1>3, <1>4, <1>5, <1>6, <1>7, <1>8, <1>9 DEF Scan, ScanStep

THEOREM ScanTyped == ScanSpec => []ScanTypeOK
  BY ScanTypedInit, ScanTypedStep, PTL DEF ScanSpec

-----------------------------------------------------------------------------
(***************************************************************************)
(* The inductive invariant.  The safety properties say what holds when a   *)
(* transport is closed or an init is sent; to be preserved they need where *)
(* the running method stands: whose transport is open, that release has    *)
(* cleared the link by the time it closes, that nothing runs between scans *)
(* and when a module's row is added.                                       *)
(***************************************************************************)
ObjectOwnsPort == ports = IF cur = NoModule THEN {} ELSE {cur}

ReleasedBeforeClose ==
  /\ phase = "closing" => linkDue = {}
  /\ phase \in {"stopping", "closing"} => sessDue \cap Unlocking = {}

ObjectOfScan ==
  phase # "none" => Scanning /\ cur = ScanOrder[scanAt]

RowAtItsPlace ==
  /\ \A k \in 1 .. Len(report) : report[k].module = ScanOrder[k]
  /\ Scanning /\ phase \notin Releasing \cup {"none"} => Len(report) = scanAt - 1
  /\ Scanning => Len(report) \in {scanAt - 1, scanAt}
  /\ scanAt = Len(ScanOrder) + 1 => Len(report) = Len(ScanOrder)

SilentStart ==
  /\ phase = "init" => settled
  /\ phase = "opened" /\ cur \in SlowInit => settled
  /\ phase = "none" /\ Scanning /\ ~RowDone =>
       settled \/ ScanOrder[scanAt] \notin SlowInit

LinkInv ==
  /\ ObjectOwnsPort
  /\ linkDue \subseteq ports
  /\ sessDue \cap Unlocking \subseteq ports
  /\ ReleasedBeforeClose

ScanInv == ScanTypeOK /\ LinkInv /\ ObjectOfScan /\ RowAtItsPlace /\ SilentStart

LEMMA LinkStep ==
  ASSUME SessionTypeOK, LinkInv, EstablishStep \/ ReleaseStep \/ Close
  PROVE  LinkInv'
<1> USE DEF LinkInv, ObjectOwnsPort, ReleasedBeforeClose
<1>0. /\ phase # "none" => cur \in Modules /\ cur # NoModule
      /\ phase # "none" => cur \in Heard(cur)
  BY SessionAssumption, ObjectInUse DEF SessionTypeOK
<1>1. CASE BeginEstablish
  BY <1>0, <1>1 DEF BeginEstablish
<1>2. ASSUME NEW out \in Outcomes, SendInit(out)
      PROVE  LinkInv'
  BY <1>0, <1>2, InitPhases DEF SendInit
<1>3. ASSUME NEW out \in Outcomes, StartSession(out)
      PROVE  LinkInv'
  BY <1>0, <1>3, StartPhases DEF StartSession
<1>4. ASSUME NEW out \in Outcomes, Unlock(out)
      PROVE  LinkInv'
  BY <1>0, <1>4, UnlockPhases DEF Unlock
<1>5. ASSUME NEW whole \in BOOLEAN, Settle(whole) \/ Quiet(whole)
      PROVE  LinkInv'
  BY <1>5 DEF Settle, Quiet
<1>6. CASE Confirm \/ SleepRaises
  BY <1>6 DEF Confirm, SleepRaises, Sleeping
<1>7. CASE EndSession
  <2>1. sessDue' \cap Unlocking = {}
    BY <1>0, <1>7 DEF EndSession, EndsSession
  <2>. QED
    BY <1>0, <1>7, <2>1 DEF EndSession
<1>8. CASE StopCommunication
  BY <1>0, <1>8 DEF StopCommunication
<1>9. CASE Close
  BY <1>0, <1>9 DEF Close
<1>. QED
  BY <1>1, <1>2, <1>3, <1>4, <1>5, <1>6, <1>7, <1>8, <1>9
     DEF EstablishStep, Exchange, ReleaseStep

(***************************************************************************)
(* Only a sleep, which lasts, leads to an init, but for an Airbag opened   *)
(* after the pause between modules.                                        *)
(***************************************************************************)
LEMMA EstablishSilence ==
  ASSUME Exchange \/ Settle(TRUE) \/ Quiet(TRUE) \/ Confirm, SilentStart,
         phase' = "init"
  PROVE  settled'
<1>1. CASE BeginEstablish
  BY <1>1 DEF BeginEstablish, SilentStart
<1>2. ASSUME NEW out \in Outcomes, SendInit(out) \/ StartSession(out) \/ Unlock(out)
      PROVE  FALSE
  BY <1>2, InitPhases, StartPhases, UnlockPhases
<1>3. CASE Settle(TRUE) \/ Quiet(TRUE) \/ Confirm
  BY <1>3 DEF Settle, Quiet, Confirm
<1>. QED
  BY <1>1, <1>2, <1>3 DEF Exchange

-----------------------------------------------------------------------------
(***************************************************************************)
(* The invariant is preserved, one action at a time.                       *)
(***************************************************************************)
LEMMA ScanInvInit == ScanInit => ScanInv
<1> SUFFICES ASSUME ScanInit PROVE ScanInv
  OBVIOUS
<1>1. ScanTypeOK
  BY ScanTypedInit
<1>2. LinkInv
  BY DEF ScanInit, SessionInit, LinkInv, ObjectOwnsPort, ReleasedBeforeClose
<1>3. ~Scanning /\ scanAt # Len(ScanOrder) + 1 /\ Len(report) = 0
  BY ScanOrderFacts DEF ScanInit, Scanning
<1>4. ObjectOfScan /\ SilentStart
  BY <1>3 DEF ScanInit, SessionInit, ObjectOfScan, SilentStart
<1>5. RowAtItsPlace
  BY <1>3 DEF RowAtItsPlace
<1>. QED
  BY <1>1, <1>2, <1>4, <1>5 DEF ScanInv

LEMMA EmptyRows ==
  ASSUME report = <<>>, scanAt = 1, phase = "none", ScanTypeOK
  PROVE  RowAtItsPlace /\ ~RowDone
  BY ScanOrderFacts DEF RowAtItsPlace, Scanning, RowDone, Releasing

LEMMA RowAdded ==
  ASSUME ScanTypeOK, RowAtItsPlace, Scanning, ~RowDone,
         NEW status \in {"read", "error"}, AddRow(status),
         scanAt' = scanAt, phase' \in {"none", "ending"}
  PROVE  RowAtItsPlace' /\ RowDone'
<1>1. scanAt \in 1 .. Len(ScanOrder) /\ Len(report) \in Nat
  BY ScanOrderFacts, LenProperties DEF Scanning, ScanTypeOK
<1>2. Len(report) = scanAt - 1
  BY <1>1 DEF RowDone, RowAtItsPlace
<1>3. /\ Len(report') = scanAt
      /\ \A k \in 1 .. scanAt - 1 : report'[k] = report[k]
      /\ report'[scanAt].module = ScanOrder[scanAt]
  BY <1>1, <1>2, AddRowTyped
<1>4. \A k \in 1 .. Len(report') : report'[k].module = ScanOrder[k]
  <2>1. ASSUME NEW k \in 1 .. scanAt
        PROVE  report'[k].module = ScanOrder[k]
    <3>1. CASE k = scanAt
      BY <1>3, <3>1
    <3>2. CASE k # scanAt
      <4>1. k \in 1 .. scanAt - 1
        BY <1>1, <3>2
      <4>. QED
        BY <1>2, <1>3, <4>1 DEF RowAtItsPlace
    <3>. QED
      BY <3>1, <3>2
  <2>. QED
    BY <1>3, <2>1
<1>5. Scanning' /\ scanAt' # Len(ScanOrder) + 1
  BY <1>1 DEF Scanning
<1>. QED
  BY <1>1, <1>3, <1>4, <1>5 DEF RowAtItsPlace, RowDone, Releasing

LEMMA ScanInvStep == ScanInv /\ [Scan]_busVars => ScanInv'
<1> SUFFICES ASSUME ScanInv, [Scan]_busVars
             PROVE  ScanInv'
  OBVIOUS
<1>0. /\ ScanTypeOK /\ SessionTypeOK
      /\ LinkInv /\ ObjectOfScan /\ RowAtItsPlace /\ SilentStart
  BY DEF ScanInv, ScanTypeOK
<1>t. ScanTypeOK'
  BY <1>0, ScanTypedStep
<1>d. /\ Len(ScanOrder) \in Nat \ {0}
      /\ DOMAIN ScanOrder = 1 .. Len(ScanOrder)
      /\ Scanning <=> scanAt \in 1 .. Len(ScanOrder)
      /\ scanAt \in 0 .. Len(ScanOrder) + 1
      /\ Len(report) \in Nat
  BY <1>0, ScanOrderFacts, LenProperties DEF Scanning, ScanTypeOK
<1>1. CASE BeginScan
  <2>1. LinkInv' /\ phase' = "none"
    BY <1>0, <1>1 DEF BeginScan, sessionVars, LinkInv, ObjectOwnsPort,
                      ReleasedBeforeClose
  <2>2. ObjectOfScan'
    BY <2>1 DEF ObjectOfScan
  <2>3. RowAtItsPlace' /\ SilentStart'
    <3>1. CASE scanAt' = 1 /\ report' = <<>>
      <4>1. Len(report') = 0 /\ Scanning' /\ scanAt' # Len(ScanOrder) + 1
        BY <1>d, <3>1 DEF Scanning
      <4>2. RowAtItsPlace'
        BY <2>1, <3>1, <4>1 DEF RowAtItsPlace, Releasing
      <4>3. SilentStart'
        BY <2>1, <3>1, ScanAssumption DEF SilentStart
      <4>. QED
        BY <4>2, <4>3
    <3>2. CASE /\ scanAt' = Len(ScanOrder) + 1
               /\ report' = [k \in DOMAIN ScanOrder |->
                               [module |-> ScanOrder[k], status |-> "error"]]
      <4>1. Len(report') = Len(ScanOrder)
        <5>1. report' \in Seq(Row) /\ DOMAIN report' = 1 .. Len(ScanOrder)
          BY <1>t, <1>d, <3>2 DEF ScanTypeOK
        <5>2. Len(report') \in Nat /\ DOMAIN report' = 1 .. Len(report')
          BY <5>1, LenProperties
        <5>. QED
          BY <1>d, <5>1, <5>2
      <4>2. \A k \in 1 .. Len(report') : report'[k].module = ScanOrder[k]
        BY <1>d, <3>2, <4>1
      <4>3. ~Scanning'
        BY <1>d, <3>2 DEF Scanning
      <4>. QED
        BY <2>1, <4>1, <4>2, <4>3 DEF RowAtItsPlace, SilentStart
    <3>. QED
      BY <1>1, <3>1, <3>2 DEF BeginScan
  <2>. QED
    BY <1>t, <2>1, <2>2, <2>3 DEF ScanInv
<1>2. CASE ScanOpen
  <2>1. CASE Open(ScanOrder[scanAt]) /\ UNCHANGED scanVars
    <3>1. ScanOrder[scanAt] \in Modules
      BY <1>2, <1>d, ScanOrderFacts DEF ScanOpen
    <3>2. LinkInv'
      BY <1>0, <2>1, <3>1, SessionAssumption
         DEF Open, LinkInv, ObjectOwnsPort, ReleasedBeforeClose, SessionTypeOK
    <3>3. ObjectOfScan'
      BY <1>2, <2>1 DEF ScanOpen, Open, ObjectOfScan, Scanning, scanVars
    <3>4. RowAtItsPlace'
      BY <1>0, <1>2, <1>d, <2>1
         DEF ScanOpen, Open, RowAtItsPlace, RowDone, Scanning, Releasing, scanVars
    <3>5. SilentStart'
      BY <1>0, <1>2, <2>1 DEF ScanOpen, Open, SilentStart
    <3>. QED
      BY <1>t, <3>2, <3>3, <3>4, <3>5 DEF ScanInv
  <2>2. CASE AddRow("error") /\ UNCHANGED <<sessionVars, scanAt>>
    <3>1. LinkInv' /\ ObjectOfScan' /\ phase' = "none"
      BY <1>0, <1>2, <2>2 DEF ScanOpen, sessionVars, LinkInv, ObjectOwnsPort,
                              ReleasedBeforeClose, ObjectOfScan
    <3>2. RowAtItsPlace' /\ RowDone'
      BY <1>0, <1>2, <2>2, <3>1, RowAdded DEF ScanOpen
    <3>3. SilentStart'
      BY <3>1, <3>2 DEF SilentStart
    <3>. QED
      BY <1>t, <3>1, <3>2, <3>3 DEF ScanInv
  <2>. QED
    BY <1>2, <2>1, <2>2 DEF ScanOpen
<1>3. CASE ScanEstablish
  <2>1. LinkInv'
    BY <1>0, <1>3, LinkStep, ScanEstablishes DEF ScanEstablish
  <2>2. /\ phase \notin Releasing \cup {"none", "failed"}
        /\ phase' \notin Releasing \cup {"none", "opened"}
        /\ cur' = cur
    BY <1>3, EstablishPhases, ScanEstablishes DEF ScanEstablish
  <2>3. ObjectOfScan'
    BY <1>0, <1>3, <2>2 DEF ScanEstablish, ObjectOfScan, Scanning, scanVars
  <2>4. RowAtItsPlace'
    BY <1>0, <1>3, <2>2 DEF ScanEstablish, RowAtItsPlace, Scanning, scanVars
  <2>5. SilentStart'
    BY <1>0, <1>3, <2>2, EstablishSilence
       DEF ScanEstablish, SilentStart
  <2>. QED
    BY <1>t, <2>1, <2>3, <2>4, <2>5 DEF ScanInv
<1>4. CASE ScanFailed \/ ScanRead
  <2>0. /\ Scanning /\ phase \in {"failed", "up"} /\ phase' = "ending"
        /\ UNCHANGED <<cur, ports, linkDue, sessDue, scanAt>>
    BY <1>4 DEF ScanFailed, ScanRead, scanVars
  <2>1. LinkInv' /\ ObjectOfScan'
    BY <1>0, <2>0 DEF LinkInv, ObjectOwnsPort, ReleasedBeforeClose,
                      ObjectOfScan, Scanning
  <2>2. ~RowDone
    BY <1>0, <1>4, <1>d
       DEF ScanFailed, ScanRead, RowAtItsPlace, Releasing, RowDone
  <2>3. RowAtItsPlace'
    <3>1. CASE report' = report
      BY <1>0, <1>4, <1>d, <3>1
         DEF ScanFailed, ScanRead, scanVars, RowAtItsPlace, Scanning, Releasing
    <3>2. CASE report' # report
      BY <1>0, <1>4, <2>2, <3>2, RowAdded DEF ScanFailed, ScanRead, scanVars
    <3>. QED
      BY <3>1, <3>2
  <2>4. SilentStart'
    BY <1>4 DEF ScanFailed, ScanRead, SilentStart
  <2>. QED
    BY <1>t, <2>1, <2>3, <2>4 DEF ScanInv
<1>5. CASE ScanRelease
  <2>1. LinkInv'
    BY <1>0, <1>5, LinkStep DEF ScanRelease
  <2>2. /\ phase \in Releasing
        /\ phase' \in {"stopping", "closing"}
        /\ cur' = cur
    BY <1>5, ReleasePhases
       DEF ScanRelease, ReleaseStep, EndSession, StopCommunication
  <2>3. ObjectOfScan' /\ RowAtItsPlace' /\ SilentStart'
    BY <1>0, <1>5, <2>2
       DEF ScanRelease, ObjectOfScan, RowAtItsPlace, SilentStart, Scanning,
           scanVars, Releasing
  <2>. QED
    BY <1>t, <2>1, <2>3 DEF ScanInv
<1>9. CASE ScanClose
  <2>1. LinkInv' /\ phase' = "none"
    BY <1>0, <1>9, LinkStep DEF ScanClose, Close
  <2>2. ObjectOfScan'
    BY <2>1 DEF ObjectOfScan
  <2>3. RowAtItsPlace' /\ RowDone'
    <3>1. CASE RowDone
      BY <1>0, <1>9, <1>d, <2>1, <3>1
         DEF ScanClose, RowAtItsPlace, RowDone, Scanning, Releasing
    <3>2. CASE ~RowDone
      BY <1>0, <1>9, <2>1, <3>2, RowAdded DEF ScanClose
    <3>. QED
      BY <3>1, <3>2
  <2>4. SilentStart'
    BY <2>1, <2>3 DEF SilentStart
  <2>. QED
    BY <1>t, <2>1, <2>2, <2>3, <2>4 DEF ScanInv
<1>6. CASE NextModule
  <2>1. LinkInv' /\ ObjectOfScan' /\ phase' = "none"
    BY <1>0, <1>6 DEF NextModule, LinkInv, ObjectOwnsPort, ReleasedBeforeClose,
                      ObjectOfScan
  <2>2. Len(report) = scanAt /\ scanAt' = scanAt + 1 /\ report' = report
    BY <1>0, <1>6, <1>d DEF NextModule, RowAtItsPlace, RowDone
  <2>3. RowAtItsPlace'
    BY <1>0, <1>6, <1>d, <2>1, <2>2 DEF NextModule, RowAtItsPlace, Scanning,
                                        Releasing
  <2>4. SilentStart'
    <3>1. Scanning' => scanAt < Len(ScanOrder)
      BY <1>d, <2>2 DEF Scanning
    <3>2. scanAt < Len(ScanOrder) => settled'
      BY <1>6 DEF NextModule
    <3>. QED
      BY <2>1, <3>1, <3>2 DEF SilentStart
  <2>. QED
    BY <1>t, <2>1, <2>3, <2>4 DEF ScanInv
<1>7. CASE ScanReturn
  <2>1. phase = "none"
    BY <1>0, <1>7, <1>d DEF ScanReturn, ObjectOfScan
  <2>2. LinkInv' /\ ObjectOfScan' /\ phase' = "none"
    BY <1>0, <1>7, <2>1 DEF ScanReturn, sessionVars, LinkInv, ObjectOwnsPort,
                            ReleasedBeforeClose, ObjectOfScan
  <2>3. ~Scanning' /\ scanAt' # Len(ScanOrder) + 1 /\ Len(report') = 0
    BY <1>7, <1>d DEF ScanReturn, Scanning
  <2>4. RowAtItsPlace' /\ SilentStart'
    BY <2>2, <2>3 DEF RowAtItsPlace, SilentStart
  <2>. QED
    BY <1>t, <2>2, <2>4 DEF ScanInv
<1>8. CASE UNCHANGED busVars
  BY <1>0, <1>t, <1>8
     DEF busVars, sessionVars, scanVars, ScanInv, LinkInv, ObjectOwnsPort,
         ReleasedBeforeClose, ObjectOfScan, RowAtItsPlace, SilentStart,
         Scanning, RowDone
<1>. QED
  BY <1>1, <1>2, <1>3, <1>4, <1>5, <1>6, <1>7, <1>8, <1>9 DEF Scan, ScanStep

-----------------------------------------------------------------------------
(***************************************************************************)
(* ScanInv holds in every state of a scan, whatever the modules answer.    *)
(***************************************************************************)
THEOREM ScanInvariant == ScanSpec => []ScanInv
  BY ScanInvInit, ScanInvStep, PTL DEF ScanSpec

(***************************************************************************)
(* No transport of a scan is closed while its module may hold the link     *)
(* (release in session.py, the finally clauses of faultscan.py).           *)
(***************************************************************************)
THEOREM ScanLeavesNoLink == ScanSpec => []ClosedPortOwesNoLink
<1>1. ScanInv => ClosedPortOwesNoLink
  BY DEF ScanInv, LinkInv, ClosedPortOwesNoLink
<1>. QED
  BY <1>1, ScanInvariant, PTL

(***************************************************************************)
(* A scan never leaves a diagnostic session of Td5 behind.                 *)
(***************************************************************************)
THEOREM ScanLeavesNoTd5Session == ScanSpec => []ClosedPortOwesNoTd5Session
<1>1. ScanInv => ClosedPortOwesNoTd5Session
  BY DEF ScanInv, LinkInv, ClosedPortOwesNoTd5Session
<1>. QED
  BY <1>1, ScanInvariant, PTL

(***************************************************************************)
(* Every init of a scan goes out on a silent wire (_establish, and the     *)
(* pause between modules).                                                 *)
(***************************************************************************)
THEOREM ScanInitsAfterSilence == ScanSpec => []InitAfterSilence
<1>1. ScanInv => InitAfterSilence
  BY DEF ScanInv, SilentStart, InitAfterSilence
<1>. QED
  BY <1>1, ScanInvariant, PTL

(***************************************************************************)
(* One row per module, in order, whatever fails.                           *)
(***************************************************************************)
THEOREM ScanReportsEveryModule == ScanSpec => []OneRowPerModule
<1>1. ScanInv => OneRowPerModule
  BY LenProperties DEF ScanInv, RowAtItsPlace, ScanTypeOK, OneRowPerModule
<1>. QED
  BY <1>1, ScanInvariant, PTL

=============================================================================
