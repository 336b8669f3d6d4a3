-------------------------- MODULE DiagServer_proofs --------------------------
(***************************************************************************)
(* Theorems of DiagServer, for every set of modules and tabs, every scan   *)
(* order, every number of attempts and of commands.                        *)
(***************************************************************************)
EXTENDS DiagServer, FaultScan_proofs

(***************************************************************************)
(* What the poller does to the session object outside a scan.              *)
(***************************************************************************)
LEMMA ConnectEstablishes ==
  ASSUME TypeOK, Exchange \/ ConnectSleep
  PROVE  EstablishStep
<1>1. (queue = <<>>) \in BOOLEAN /\ TRUE \in BOOLEAN /\ FALSE \in BOOLEAN
  OBVIOUS
<1>. QED
  BY <1>1 DEF EstablishStep, ConnectSleep

LEMMA TabsAreFast ==
  /\ Tabs \subseteq Modules
  /\ Tabs \cap SlowInit = {}
  /\ NoModule \notin Tabs
  BY ServerAssumption, SessionAssumption

-----------------------------------------------------------------------------
(***************************************************************************)
(* The types.                                                              *)
(***************************************************************************)
LEMMA BusTyped ==
  ASSUME ScanTypeOK, SessionTypeOK', UNCHANGED scanVars
  PROVE  ScanTypeOK'
  BY DEF ScanTypeOK, scanVars

LEMMA TypedInit == Init => TypeOK
<1> SUFFICES ASSUME Init PROVE TypeOK
  OBVIOUS
<1>1. ScanTypeOK
  BY ScanTypedInit DEF Init
<1>2. latest \in Snapshots
  BY DEF Init, Snapshots
<1>3. act \in [Ids -> Acts]
  BY DEF Init, Acts
<1>4. queue \in Seq(Ids) /\ running \in 0 .. MaxCmds /\ overdue \in Nat
  BY ServerAssumption, EmptySeq DEF Init
<1>5. /\ stage \in [Ids -> {"new", "queued", "running", "done"}]
      /\ told \in [Ids -> {"nothing", "waiting", "result", "timeout"}]
  BY DEF Init
<1>6. /\ pc \in Locations /\ active \in Tabs /\ mode \in Modes /\ tab \in Tabs
      /\ handles \subseteq Tabs /\ lingering \subseteq Tabs /\ stop \in BOOLEAN
  BY DEF Init, Locations
<1>. QED
  BY <1>1, <1>2, <1>3, <1>4, <1>5, <1>6 DEF TypeOK

(***************************************************************************)
(* The parts of the type that one actor's steps can change.                *)
(***************************************************************************)
CmdsTyped ==
  /\ queue \in Seq(Ids)
  /\ act \in [Ids -> Acts]
  /\ stage \in [Ids -> {"new", "queued", "running", "done"}]
  /\ told \in [Ids -> {"nothing", "waiting", "result", "timeout"}]
  /\ running \in 0 .. MaxCmds
  /\ stop \in BOOLEAN

PollTyped ==
  /\ active \in Tabs
  /\ mode \in Modes
  /\ tab \in Tabs
  /\ handles \subseteq Tabs
  /\ lingering \subseteq Tabs
  /\ latest \in Snapshots

LEMMA TypeParts ==
  TypeOK <=> /\ ScanTypeOK /\ CmdsTyped /\ PollTyped
             /\ pc \in Locations /\ overdue \in Nat
  BY DEF TypeOK, CmdsTyped, PollTyped

LEMMA FinishTyped ==
  ASSUME TypeOK, Finish
  PROVE  CmdsTyped' /\ pc' \in Locations /\ overdue' \in Nat
<1>1. stage' \in [Ids -> {"new", "queued", "running", "done"}]
  BY DEF TypeOK, Finish
<1>2. running' \in 0 .. MaxCmds
  BY ServerAssumption DEF Finish
<1>. QED
  BY <1>1, <1>2 DEF TypeOK, CmdsTyped, Finish, Locations

LEMMA PublishTyped ==
  ASSUME TypeOK, NEW status \in {"connected", "error"}, Publish(status)
  PROVE  /\ CmdsTyped' /\ pc' \in Locations /\ overdue' \in Nat
         /\ active' \in Tabs /\ mode' \in Modes /\ tab' \in Tabs
         /\ latest' \in Snapshots
<1>1. latest' \in Snapshots
  BY DEF TypeOK, Publish, Snapshots
<1>. QED
  BY <1>1 DEF TypeOK, CmdsTyped, Publish, cmdVars, Locations

LEMMA TakeTyped ==
  ASSUME TypeOK, queue # <<>>
  PROVE  Head(queue) \in Ids /\ Tail(queue) \in Seq(Ids)
  BY HeadTailProperties DEF TypeOK

RunsCommand ==
  /\ pc = "apply" => running \in Ids
  /\ pc = "connect" => cur = active

LEMMA TypedStep == TypeOK /\ RunsCommand /\ [Next]_vars => TypeOK'
<1> SUFFICES ASSUME TypeOK, RunsCommand, [Next]_vars
             PROVE  TypeOK'
  OBVIOUS
<1>. USE TabsAreFast
<1>t. ScanTypeOK /\ CmdsTyped /\ PollTyped /\ pc \in Locations /\ overdue \in Nat
      /\ SessionTypeOK
  BY TypeParts DEF ScanTypeOK
<1>1. ASSUME NEW i \in Ids, NEW a \in Acts, Submit(i, a)
      PROVE  TypeOK'
  <2>1. queue' \in Seq(Ids)
    BY <1>t, <1>1, AppendProperties DEF Submit, CmdsTyped
  <2>2. ScanTypeOK' /\ PollTyped' /\ pc' \in Locations /\ overdue' \in Nat
    BY <1>t, <1>1 DEF Submit, ScanTypeOK, SessionTypeOK, PollTyped, busVars,
                      sessionVars, scanVars, pollVars
  <2>3. CmdsTyped'
    BY <1>t, <1>1, <2>1 DEF Submit, CmdsTyped
  <2>. QED
    BY <2>2, <2>3, TypeParts DEF TypeOK, CmdsTyped, PollTyped
<1>2. ASSUME NEW i \in Ids, Answer(i)
      PROVE  TypeOK'
  <2>1. ScanTypeOK' /\ PollTyped' /\ pc' \in Locations /\ overdue' \in Nat
    BY <1>t, <1>2 DEF Answer, ScanTypeOK, SessionTypeOK, PollTyped, busVars,
                      sessionVars, scanVars, pollVars
  <2>2. CmdsTyped'
    BY <1>t, <1>2 DEF Answer, CmdsTyped
  <2>. QED
    BY <2>1, <2>2 DEF TypeOK, CmdsTyped, PollTyped
<1>3. CASE Stop
  BY <1>3 DEF Stop, TypeOK, ScanTypeOK, SessionTypeOK, busVars, sessionVars,
              scanVars, pollVars, cmdVars
<1>4. CASE TakeCommand
  <2>1. /\ queue' \in Seq(Ids)
        /\ stage' \in [Ids -> {"new", "queued", "running", "done"}]
        /\ running' \in 0 .. MaxCmds
    BY <1>t, <1>4, TakeTyped DEF TakeCommand, CmdsTyped, Ids
  <2>2. CmdsTyped' /\ PollTyped' /\ pc' \in Locations /\ overdue' \in Nat
    BY <1>t, <1>4, <2>1 DEF TakeCommand, CmdsTyped, PollTyped, pollVars, Locations
  <2>3. SessionTypeOK'
    BY <1>t, <1>4, SessionAssumption
       DEF TakeCommand, SessionTypeOK, PollTyped, Phases
  <2>4. ScanTypeOK'
    BY <1>t, <1>4, <2>3, BusTyped DEF TakeCommand
  <2>. QED
    BY <2>2, <2>4 DEF TypeOK, CmdsTyped, PollTyped
<1>5. CASE Disconnect \/ Lose
  <2>1. SessionTypeOK'
    BY <1>t, <1>5, SessionStepTyped DEF Disconnect, Lose
  <2>2. ScanTypeOK'
    BY <1>t, <1>5, <2>1, BusTyped DEF Disconnect, Lose
  <2>3. CASE Disconnect
    BY <1>t, <2>2, <2>3 DEF Disconnect, TypeOK, CmdsTyped, PollTyped, cmdVars,
                            Locations
  <2>4. CASE Lose
    <3>1. CASE ReleaseStep /\ UNCHANGED <<pc, pollVars, stop, cmdVars, overdue>>
      BY <1>t, <2>2, <2>4, <3>1
         DEF Lose, TypeOK, CmdsTyped, PollTyped, pollVars, cmdVars
    <3>2. CASE Publish("error") /\ handles' = handles \ {active}
      BY <1>t, <2>2, <2>4, <3>2, PublishTyped
         DEF Lose, TypeOK, CmdsTyped, PollTyped
    <3>. QED
      BY <2>4, <3>1, <3>2 DEF Lose
  <2>. QED
    BY <1>5, <2>3, <2>4
<1>6. CASE ApplySelect
  <2>1. ScanTypeOK'
    BY <1>t, <1>6 DEF ApplySelect, ScanTypeOK, SessionTypeOK, busVars,
                      sessionVars, scanVars
  <2>2. active' \in Tabs /\ latest' \in Snapshots
    BY <1>t, <1>6 DEF ApplySelect, PollTyped, Blank, Snapshots
  <2>3. PollTyped'
    BY <1>t, <1>6, <2>2 DEF ApplySelect, Finish, PollTyped
  <2>. QED
    BY <1>6, <2>1, <2>3, FinishTyped DEF ApplySelect, TypeOK, CmdsTyped, PollTyped
<1>7. CASE ApplyMode
  <2>1. ScanTypeOK'
    BY <1>t, <1>7 DEF ApplyMode, ScanTypeOK, SessionTypeOK, busVars,
                      sessionVars, scanVars
  <2>2. act[running].arg \in Modes
    BY <1>t, <1>7 DEF ApplyMode, RunsCommand, CmdsTyped, Acts
  <2>3. mode' \in Modes /\ latest' \in Snapshots
    BY <1>t, <1>7, <2>2 DEF ApplyMode, PollTyped, Blank, Snapshots
  <2>4. PollTyped'
    BY <1>t, <1>7, <2>3 DEF ApplyMode, Finish, PollTyped
  <2>. QED
    BY <1>7, <2>1, <2>4, FinishTyped DEF ApplyMode, TypeOK, CmdsTyped, PollTyped
<1>8. CASE ApplyWrite
  <2>1. SessionTypeOK'
    BY <1>t, <1>8 DEF ApplyWrite, SessionTypeOK
  <2>2. ScanTypeOK'
    BY <1>t, <1>8, <2>1, BusTyped DEF ApplyWrite
  <2>3. PollTyped'
    BY <1>t, <1>8 DEF ApplyWrite, Finish, PollTyped
  <2>. QED
    BY <1>8, <2>2, <2>3, FinishTyped DEF ApplyWrite, TypeOK, CmdsTyped, PollTyped
<1>9. CASE ApplyScan \/ RunScan
  <2>1. BeginScan \/ ScanStep \/ ScanReturn \/ UNCHANGED busVars
    BY <1>9 DEF ApplyScan, RunScan
  <2>2. ScanTypeOK'
    BY <1>t, <2>1, ScanTypedStep DEF Scan
  <2>3. CASE Finish
    BY <1>t, <1>9, <2>2, <2>3, FinishTyped
       DEF ApplyScan, RunScan, Finish, TypeOK, CmdsTyped, PollTyped
  <2>4. CASE UNCHANGED <<cmdVars, stop, overdue, lingering, tab, handles>>
             /\ pc' \in Locations
    BY <1>t, <1>9, <2>2, <2>4
       DEF ApplyScan, RunScan, TypeOK, CmdsTyped, PollTyped, cmdVars
  <2>. QED
    BY <1>t, <1>9, <2>3, <2>4 DEF ApplyScan, RunScan, Locations
<1>10. CASE BeginPoll \/ Wait
  BY <1>t, <1>10 DEF BeginPoll, Wait, TypeOK, ScanTypeOK, SessionTypeOK, busVars,
                     sessionVars, scanVars, pollVars, cmdVars, Locations
<1>11. CASE PollMock
  <2>1. ScanTypeOK'
    BY <1>t, <1>11 DEF PollMock, ScanTypeOK, SessionTypeOK, busVars,
                       sessionVars, scanVars
  <2>. QED
    BY <1>t, <1>11, <2>1, PublishTyped DEF PollMock, TypeOK, CmdsTyped, PollTyped
<1>12. CASE OpenSource
  <2>1. CASE Publish("error") /\ UNCHANGED sessionVars
    <3>1. ScanTypeOK'
      BY <1>t, <1>12, <2>1 DEF OpenSource, ScanTypeOK, SessionTypeOK,
                               sessionVars, scanVars
    <3>. QED
      BY <1>t, <1>12, <2>1, <3>1, PublishTyped
         DEF OpenSource, TypeOK, CmdsTyped, PollTyped
  <2>2. CASE /\ Open(active)
             /\ pc' = "connect"
             /\ latest' = [latest EXCEPT !.module = active,
                                         !.status = "connecting"]
             /\ UNCHANGED <<active, mode, tab, stop, cmdVars, overdue>>
    <3>1. SessionTypeOK'
      BY <1>t, <2>2, OpenTyped DEF PollTyped
    <3>2. ScanTypeOK'
      BY <1>t, <1>12, <3>1, BusTyped DEF OpenSource
    <3>3. latest' \in Snapshots
      BY <1>t, <2>2 DEF PollTyped, Snapshots
    <3>. QED
      BY <1>t, <1>12, <2>2, <3>2, <3>3
         DEF OpenSource, TypeOK, CmdsTyped, PollTyped, cmdVars, Locations
  <2>. QED
    BY <1>12, <2>1, <2>2 DEF OpenSource
<1>13. CASE Connect
  <2>1. SessionTypeOK'
    BY <1>t, <1>13, ConnectEstablishes, SessionStepTyped DEF Connect
  <2>2. ScanTypeOK'
    BY <1>t, <1>13, <2>1, BusTyped DEF Connect
  <2>3. overdue' \in Nat
    BY <1>t, <1>13 DEF Connect
  <2>. QED
    BY <1>t, <1>13, <2>2, <2>3 DEF Connect, TypeOK, CmdsTyped, PollTyped,
                                   pollVars, cmdVars
<1>14. CASE Adopt
  <2>1. SessionTypeOK'
    BY <1>t, <1>14 DEF Adopt, SessionTypeOK, Phases
  <2>2. ScanTypeOK'
    BY <1>t, <1>14, <2>1, BusTyped DEF Adopt
  <2>. QED
    BY <1>t, <1>14, <2>2 DEF Adopt, TypeOK, CmdsTyped, PollTyped, cmdVars,
                             Locations
<1>15. CASE Abandon
  <2>1. SessionTypeOK'
    BY <1>t, <1>15 DEF Abandon, SessionTypeOK, Phases
  <2>2. ScanTypeOK'
    BY <1>t, <1>15, <2>1, BusTyped DEF Abandon
  <2>3. lingering' \subseteq Tabs
    BY <1>t, <1>15 DEF Abandon, RunsCommand, PollTyped
  <2>. QED
    BY <1>t, <1>15, <2>2, <2>3, PublishTyped
       DEF Abandon, TypeOK, CmdsTyped, PollTyped
<1>16. CASE ReadSource
  <2>1. SessionTypeOK'
    BY <1>t, <1>16, SessionAssumption
       DEF ReadSource, SessionTypeOK, PollTyped, Phases
  <2>2. ScanTypeOK'
    BY <1>t, <1>16, <2>1, BusTyped DEF ReadSource
  <2>3. CASE Publish("connected")
    BY <1>t, <1>16, <2>2, <2>3, PublishTyped
       DEF ReadSource, TypeOK, CmdsTyped, PollTyped
  <2>4. CASE pc' = "lose" /\ UNCHANGED <<active, mode, tab, latest, stop,
                                         cmdVars, overdue>>
    BY <1>t, <1>16, <2>2, <2>4
       DEF ReadSource, TypeOK, CmdsTyped, PollTyped, cmdVars, Locations
  <2>. QED
    BY <1>16, <2>3, <2>4 DEF ReadSource
<1>17. CASE UNCHANGED vars
  BY <1>t, <1>17 DEF vars, TypeOK, ScanTypeOK, SessionTypeOK, busVars,
                     sessionVars, scanVars, pollVars, cmdVars
<1>. QED
  BY <1>1, <1>2, <1>3, <1>4, <1>5, <1>6, <1>7, <1>8, <1>9, <1>10, <1>11,
     <1>12, <1>13, <1>14, <1>15, <1>16, <1>17 DEF Next, Poller

-----------------------------------------------------------------------------
(***************************************************************************)
(* Where the poller stands.  Only the active source of the live mode can   *)
(* hold a session; next to it at most the object of a running method has a *)
(* transport; and that method runs only at the places where the poller     *)
(* connects, releases the active source, or scans, which it does only once *)
(* the active source holds nothing.                                        *)
(***************************************************************************)
HeldPorts ==
  /\ handles \subseteq {active}
  /\ handles # {} => mode = Live
  /\ ports = handles \cup (IF phase = "none" THEN {} ELSE {cur})

Serving == {"disconnect", "apply", "scan"}

PollerPlace ==
  /\ pc \in {"disconnect", "lose"} =>
       phase \in Releasing /\ cur = active /\ handles = {active}
  /\ pc = "connect" =>
       /\ phase \notin Releasing \cup {"none"}
       /\ cur = active
       /\ handles = {}
       /\ mode = Live
  /\ pc = "scan" => handles = {} /\ (phase # "none" => Scanning)
  /\ pc \in {"drain", "apply", "poll", "wait", "exit"} => phase = "none"
  /\ pc \in Serving => running \in Ids /\ stage[running] = "running"
  /\ pc = "apply" /\ Disconnects(act[running]) => handles = {}

PlaceInv == HeldPorts /\ PollerPlace

LEMMA ScanPhases ==
  ASSUME ScanTypeOK, ScanStep \/ ScanReturn, phase # "none" => Scanning,
         ports = IF phase = "none" THEN {} ELSE {cur}
  PROVE  /\ phase' # "none" => Scanning'
         /\ ports' = IF phase' = "none" THEN {} ELSE {cur'}
<1>0. SessionTypeOK
  BY DEF ScanTypeOK
<1>1. CASE ScanOpen
  BY <1>0, <1>1 DEF ScanOpen, Open, Scanning, scanVars, sessionVars
<1>2. CASE ScanEstablish
  <2>1. phase # "none" /\ phase' # "none" /\ UNCHANGED <<cur, ports, scanAt>>
    BY <1>2, EstablishPhases, ScanEstablishes DEF ScanEstablish, scanVars
  <2>. QED
    BY <1>2, <2>1 DEF ScanEstablish, Scanning
<1>3. CASE ScanFailed \/ ScanRead
  BY <1>3 DEF ScanFailed, ScanRead, Scanning, scanVars
<1>4. CASE ScanRelease
  <2>1. phase # "none" /\ phase' # "none" /\ UNCHANGED <<cur, ports, scanAt>>
    BY <1>4, ReleasePhases DEF ScanRelease, scanVars, Releasing
  <2>. QED
    BY <1>4, <2>1 DEF ScanRelease, Scanning
<1>5. CASE ScanClose
  BY <1>0, <1>5, SessionAssumption DEF ScanClose, Close, SessionTypeOK
<1>6. CASE NextModule
  BY <1>6 DEF NextModule
<1>7. CASE ScanReturn
  <2>1. ~Scanning
    BY <1>7, ScanOrderFacts DEF ScanReturn, Scanning
  <2>. QED
    BY <1>7, <2>1 DEF ScanReturn, sessionVars
<1>. QED
  BY <1>1, <1>2, <1>3, <1>4, <1>5, <1>6, <1>7 DEF ScanStep

LEMMA PlaceInit == Init => PlaceInv
  BY DEF Init, ScanInit, SessionInit, PlaceInv, HeldPorts, PollerPlace,
         Serving

LEMMA PlaceStep == TypeOK /\ PlaceInv /\ [Next]_vars => PlaceInv'
<1> SUFFICES ASSUME TypeOK, PlaceInv, [Next]_vars
             PROVE  PlaceInv'
  OBVIOUS
<1>. USE TabsAreFast DEF PlaceInv, Serving
<1>t. /\ ScanTypeOK /\ SessionTypeOK
      /\ CmdsTyped /\ PollTyped
  BY TypeParts DEF ScanTypeOK
<1>1. ASSUME NEW i \in Ids, NEW a \in Acts, Submit(i, a)
      PROVE  PlaceInv'
  <2>1. HeldPorts'
    BY <1>1 DEF Submit, HeldPorts, busVars, sessionVars, pollVars
  <2>2. pc \in Serving => /\ running # i
                          /\ stage'[running] = "running"
                          /\ act'[running] = act[running]
    BY <1>t, <1>1 DEF Submit, PollerPlace, CmdsTyped
  <2>3. PollerPlace'
    BY <1>1, <2>2 DEF Submit, PollerPlace, busVars, sessionVars, scanVars,
                      pollVars, Scanning, Disconnects
  <2>. QED
    BY <2>1, <2>3
<1>2. ASSUME NEW i \in Ids, Answer(i)
      PROVE  PlaceInv'
  BY <1>2 DEF Answer, HeldPorts, PollerPlace, busVars, sessionVars, scanVars,
              pollVars, Scanning, Disconnects
<1>3. CASE Stop
  BY <1>3 DEF Stop, HeldPorts, PollerPlace, busVars, sessionVars, scanVars,
              pollVars, cmdVars, Scanning, Disconnects
<1>4. CASE TakeCommand
  <2>0. Head(queue) \in Ids
    BY <1>4, TakeTyped DEF TakeCommand
  <2>1. running' \in Ids /\ stage'[running'] = "running"
    BY <1>t, <1>4, <2>0 DEF TakeCommand, CmdsTyped
  <2>2. CASE Disconnects(act[Head(queue)]) /\ Connected
    BY <1>4, <2>1, <2>2 DEF TakeCommand, Connected, HeldPorts, PollerPlace,
                            pollVars, Releasing
  <2>3. CASE ~(Disconnects(act[Head(queue)]) /\ Connected)
    <3>1. Disconnects(act[running])' => handles' = {}
      BY <1>4, <2>3 DEF TakeCommand, Connected, HeldPorts, pollVars, Disconnects
    <3>2. pc' = "apply" /\ phase' = "none" /\ phase = "none"
      BY <1>4, <2>3 DEF TakeCommand, PollerPlace
    <3>. QED
      BY <1>4, <2>1, <2>3, <3>1, <3>2
         DEF TakeCommand, HeldPorts, PollerPlace, pollVars
  <2>. QED
    BY <2>2, <2>3
<1>5. CASE Disconnect
  <2>1. CASE ReleaseStep /\ UNCHANGED <<pc, handles>>
    <3>1. /\ phase' \in Releasing /\ phase' # "none" /\ phase # "none"
          /\ UNCHANGED <<cur, ports>>
      BY <2>1, ReleasePhases DEF Releasing
    <3>. QED
      BY <1>5, <2>1, <3>1 DEF Disconnect, HeldPorts, PollerPlace, cmdVars
  <2>2. CASE Close /\ pc' = "apply" /\ handles' = handles \ {active}
    BY <1>5, <2>2 DEF Disconnect, Close, HeldPorts, PollerPlace, cmdVars
  <2>. QED
    BY <1>5, <2>1, <2>2 DEF Disconnect
<1>6. CASE ApplySelect
  <2>1. active' = active \/ handles = {}
    BY <1>6 DEF ApplySelect, PollerPlace, Disconnects
  <2>. QED
    BY <1>6, <2>1 DEF ApplySelect, Finish, HeldPorts, PollerPlace, busVars,
                      sessionVars
<1>7. CASE ApplyMode
  <2>1. mode' = mode \/ handles = {}
    BY <1>7 DEF ApplyMode, PollerPlace, Disconnects
  <2>. QED
    BY <1>7, <2>1 DEF ApplyMode, Finish, HeldPorts, PollerPlace, busVars,
                      sessionVars
<1>8. CASE ApplyWrite
  BY <1>8 DEF ApplyWrite, Finish, HeldPorts, PollerPlace
<1>9. CASE ApplyScan
  <2>1. handles = {}
    BY <1>9 DEF ApplyScan, PollerPlace, Disconnects
  <2>2. UNCHANGED sessionVars
    BY <1>9 DEF ApplyScan, BeginScan, busVars
  <2>. QED
    BY <1>9, <2>1, <2>2 DEF ApplyScan, Finish, HeldPorts, PollerPlace,
                            sessionVars, cmdVars
<1>10. CASE RunScan
  <2>1. /\ phase' # "none" => Scanning'
        /\ ports' = IF phase' = "none" THEN {} ELSE {cur'}
    BY <1>t, <1>10, ScanPhases DEF RunScan, HeldPorts, PollerPlace
  <2>2. CASE ScanStep /\ UNCHANGED <<pc, cmdVars, stop, overdue, tab, handles>>
    BY <1>10, <2>1, <2>2 DEF RunScan, HeldPorts, PollerPlace, cmdVars
  <2>3. CASE ScanReturn /\ Finish
    <3>1. phase' = "none"
      BY <2>1, <2>3, ScanOrderFacts DEF ScanReturn, Scanning
    <3>. QED
      BY <1>10, <2>1, <2>3, <3>1 DEF RunScan, Finish, HeldPorts, PollerPlace
  <2>. QED
    BY <1>10, <2>2, <2>3 DEF RunScan
<1>11. CASE BeginPoll \/ Wait
  BY <1>11 DEF BeginPoll, Wait, HeldPorts, PollerPlace, busVars, sessionVars,
               pollVars
<1>12. CASE PollMock
  BY <1>12 DEF PollMock, Publish, HeldPorts, PollerPlace, busVars, sessionVars
<1>13. CASE OpenSource
  <2>1. handles = {}
    BY <1>13 DEF OpenSource, HeldPorts
  <2>. QED
    BY <1>13, <2>1 DEF OpenSource, Open, Publish, HeldPorts, PollerPlace,
                       sessionVars, Releasing
<1>14. CASE Connect
  <2>1. /\ phase # "none" /\ phase' \notin Releasing \cup {"none"}
        /\ UNCHANGED <<cur, ports>>
    BY <1>14, ConnectEstablishes, EstablishPhases DEF Connect
  <2>. QED
    BY <1>14, <2>1 DEF Connect, HeldPorts, PollerPlace, pollVars
<1>15. CASE Adopt
  BY <1>15 DEF Adopt, HeldPorts, PollerPlace
<1>16. CASE Abandon
  BY <1>16 DEF Abandon, Publish, HeldPorts, PollerPlace
<1>17. CASE ReadSource
  BY <1>17 DEF ReadSource, Connected, Publish, HeldPorts, PollerPlace, Releasing
<1>18. CASE Lose
  <2>1. CASE ReleaseStep /\ UNCHANGED <<pc, pollVars, stop, cmdVars, overdue>>
    <3>1. /\ phase' \in Releasing /\ phase' # "none" /\ phase # "none"
          /\ UNCHANGED <<cur, ports>>
      BY <2>1, ReleasePhases DEF Releasing
    <3>. QED
      BY <1>18, <2>1, <3>1 DEF Lose, HeldPorts, PollerPlace, pollVars
  <2>2. CASE Close /\ handles' = handles \ {active} /\ Publish("error")
    BY <1>18, <2>2 DEF Lose, Close, Publish, HeldPorts, PollerPlace
  <2>. QED
    BY <1>18, <2>1, <2>2 DEF Lose
<1>19. CASE UNCHANGED vars
  BY <1>19 DEF vars, HeldPorts, PollerPlace, busVars, sessionVars, scanVars,
               pollVars, cmdVars, Scanning, Disconnects
<1>. QED
  BY <1>1, <1>2, <1>3, <1>4, <1>5, <1>6, <1>7, <1>8, <1>9, <1>10, <1>11,
     <1>12, <1>13, <1>14, <1>15, <1>16, <1>17, <1>18, <1>19 DEF Next, Poller

-----------------------------------------------------------------------------
(***************************************************************************)
(* What the ECUs may still hold, for all callers together.                 *)
(***************************************************************************)
Debts == SessionDebts /\ LinkDebts

LEMMA DebtsInit == Init => Debts
  BY DEF Init, ScanInit, SessionInit, Debts, SessionDebts, LinkDebts

LEMMA DebtsKept ==
  ASSUME Debts, UNCHANGED <<cur, phase, try, linkDue, sessDue>>
  PROVE  Debts'
  BY DEF Debts, SessionDebts, LinkDebts

LEMMA DebtsOfStep ==
  ASSUME SessionTypeOK, Debts, EstablishStep \/ ReleaseStep \/ Close
  PROVE  Debts'
  BY SessionDebtsStep, LinkDebtsStep DEF Debts

(***************************************************************************)
(* release() begins, of a running method that failed or ended, or of the   *)
(* session of a tab.                                                       *)
(***************************************************************************)
LEMMA DebtsReleased ==
  ASSUME SessionTypeOK, Debts, phase' = "ending",
         \/ cur' = cur
         \/ phase = "none" /\ cur' \in Tabs,
         UNCHANGED <<linkDue, sessDue>>
  PROVE  Debts'
  BY TabsAreFast, SessionAssumption
     DEF Debts, SessionDebts, LinkDebts, SessionTypeOK

(***************************************************************************)
(* A tab's object is no longer run: adopted by its source, or dropped.     *)
(***************************************************************************)
LEMMA DebtsLeft ==
  ASSUME Debts, cur \in Tabs, phase' = "none", UNCHANGED <<linkDue, sessDue>>
  PROVE  Debts'
  BY TabsAreFast DEF Debts, SessionDebts, LinkDebts

LEMMA ScanDebts ==
  ASSUME ScanTypeOK, Debts, ScanStep \/ ScanReturn
  PROVE  Debts'
<1>0. SessionTypeOK
  BY DEF ScanTypeOK
<1>1. CASE ScanOpen
  <2>1. CASE Open(ScanOrder[scanAt])
    BY <1>0, <1>1, <2>1, ScanOrderFacts, OpenDebts DEF ScanOpen, Scanning, Debts
  <2>2. CASE UNCHANGED sessionVars
    BY <2>2, DebtsKept DEF sessionVars
  <2>. QED
    BY <1>1, <2>1, <2>2 DEF ScanOpen, sessionVars
<1>2. CASE ScanEstablish \/ ScanRelease \/ ScanClose
  BY <1>0, <1>2, ScanEstablishes, DebtsOfStep
     DEF ScanEstablish, ScanRelease, ScanClose
<1>3. CASE ScanFailed \/ ScanRead
  BY <1>0, <1>3, DebtsReleased DEF ScanFailed, ScanRead
<1>4. CASE NextModule \/ ScanReturn
  BY <1>4, DebtsKept DEF NextModule, ScanReturn, sessionVars
<1>. QED
  BY <1>1, <1>2, <1>3, <1>4 DEF ScanStep

LEMMA DebtsStep == TypeOK /\ PlaceInv /\ Debts /\ [Next]_vars => Debts'
<1> SUFFICES ASSUME TypeOK, PlaceInv, Debts, [Next]_vars
             PROVE  Debts'
  OBVIOUS
<1>t. ScanTypeOK /\ SessionTypeOK /\ active \in Tabs /\ PollerPlace
  BY DEF TypeOK, ScanTypeOK, PlaceInv
<1>1. CASE UNCHANGED <<cur, phase, try, linkDue, sessDue>>
  BY <1>1, DebtsKept
<1>2. CASE TakeCommand
  <2>1. CASE cur' = active /\ phase' = "ending"
    BY <1>t, <1>2, <2>1, DebtsReleased DEF TakeCommand, PollerPlace
  <2>2. CASE UNCHANGED <<cur, phase>>
    BY <1>1, <1>2, <2>2 DEF TakeCommand
  <2>. QED
    BY <1>2, <2>1, <2>2 DEF TakeCommand
<1>3. CASE Disconnect \/ Lose
  BY <1>t, <1>3, DebtsOfStep DEF Disconnect, Lose
<1>4. CASE RunScan
  BY <1>t, <1>4, ScanDebts DEF RunScan
<1>5. CASE OpenSource
  <2>1. CASE Open(active)
    BY <1>t, <2>1, TabsAreFast, OpenDebts DEF Debts
  <2>2. CASE UNCHANGED sessionVars
    BY <1>1, <2>2 DEF sessionVars
  <2>. QED
    BY <1>5, <2>1, <2>2 DEF OpenSource
<1>6. CASE Connect
  BY <1>t, <1>6, ConnectEstablishes, DebtsOfStep DEF Connect
<1>7. CASE Adopt \/ Abandon
  BY <1>t, <1>7, DebtsLeft DEF Adopt, Abandon, PollerPlace
<1>8. CASE ReadSource
  <2>1. CASE cur' = active /\ phase' = "ending"
    BY <1>t, <1>8, <2>1, DebtsReleased DEF ReadSource, PollerPlace
  <2>2. CASE UNCHANGED <<cur, phase>>
    BY <1>1, <1>8, <2>2 DEF ReadSource
  <2>. QED
    BY <1>8, <2>1, <2>2 DEF ReadSource
<1>9. ASSUME NEW i \in Ids, NEW a \in Acts, Submit(i, a)
      PROVE  Debts'
  BY <1>1, <1>9 DEF Submit, busVars, sessionVars
<1>10. ASSUME NEW i \in Ids, Answer(i)
       PROVE  Debts'
  BY <1>1, <1>10 DEF Answer, busVars, sessionVars
<1>11. CASE Stop \/ ApplySelect \/ ApplyMode \/ ApplyWrite \/ BeginPoll \/ Wait
            \/ PollMock \/ UNCHANGED vars
  BY <1>1, <1>11 DEF Stop, ApplySelect, ApplyMode, ApplyWrite, BeginPoll, Wait,
                     PollMock, vars, busVars, sessionVars
<1>12. CASE ApplyScan
  BY <1>1, <1>12 DEF ApplyScan, BeginScan, busVars, sessionVars
<1>. QED
  BY <1>2, <1>3, <1>4, <1>5, <1>6, <1>7, <1>8, <1>9, <1>10, <1>11, <1>12
     DEF Next, Poller

-----------------------------------------------------------------------------
(***************************************************************************)
(* The label of the snapshot, and how long a waiting command waits.        *)
(***************************************************************************)
Labels ==
  /\ latest.module = active
  /\ latest.mode = mode
  /\ pc \in {"poll", "connect", "lose"} => tab = active
  /\ latest.data \in {NoData, <<active, mode>>}

Patience ==
  \/ stop
  \/ /\ overdue \in {0, 1}
     /\ overdue = 0 \/ queue # <<>>
     /\ pc = "connect" /\ phase = "init" => overdue = 0

LEMMA LabelsInit == Init => Labels
  BY DEF Init, Labels

LEMMA LabelsStep == TypeOK /\ Labels /\ [Next]_vars => Labels'
<1> SUFFICES ASSUME TypeOK, Labels, [Next]_vars
             PROVE  Labels'
  OBVIOUS
<1>. USE DEF Labels
<1>t. latest \in Snapshots
  BY DEF TypeOK
<1>1. CASE UNCHANGED pollVars /\ pc' = pc
  BY <1>1 DEF pollVars
<1>2. CASE TakeCommand \/ Wait
  BY <1>2 DEF TakeCommand, Wait, pollVars
<1>3. CASE Disconnect
  BY <1>3, ReleasePhases DEF Disconnect
<1>4. CASE ApplySelect \/ ApplyMode
  BY <1>t, <1>4 DEF ApplySelect, ApplyMode, Finish, Blank, Snapshots
<1>5. CASE ApplyWrite \/ ApplyScan \/ RunScan
  BY <1>5 DEF ApplyWrite, ApplyScan, RunScan, Finish
<1>6. CASE BeginPoll
  BY <1>6 DEF BeginPoll
<1>7. CASE PollMock \/ Abandon
  BY <1>7 DEF PollMock, Abandon, Publish
<1>8. CASE OpenSource
  <2>1. CASE Publish("error")
    BY <1>8, <2>1 DEF OpenSource, Publish
  <2>2. CASE /\ latest' = [latest EXCEPT !.module = active,
                                         !.status = "connecting"]
             /\ UNCHANGED <<active, mode, tab>>
    <3>1. /\ latest'.module = active
          /\ latest'.mode = latest.mode
          /\ latest'.data = latest.data
      BY <1>t, <2>2 DEF Snapshots
    <3>. QED
      BY <1>8, <2>2, <3>1 DEF OpenSource
  <2>. QED
    BY <1>8, <2>1, <2>2 DEF OpenSource
<1>9. CASE Adopt
  BY <1>9 DEF Adopt
<1>10. CASE ReadSource
  BY <1>10 DEF ReadSource, Publish
<1>11. CASE Lose
  BY <1>11 DEF Lose, Publish, pollVars
<1>12. ASSUME NEW i \in Ids, NEW a \in Acts, Submit(i, a)
       PROVE  Labels'
  BY <1>1, <1>12 DEF Submit
<1>13. ASSUME NEW i \in Ids, Answer(i)
       PROVE  Labels'
  BY <1>1, <1>13 DEF Answer
<1>14. CASE Stop \/ Connect \/ UNCHANGED vars
  BY <1>1, <1>14 DEF Stop, Connect, vars
<1>. QED
  BY <1>2, <1>3, <1>4, <1>5, <1>6, <1>7, <1>8, <1>9, <1>10, <1>11, <1>12,
     <1>13, <1>14 DEF Next, Poller

LEMMA PatienceInit == Init => Patience
  BY DEF Init, Patience

LEMMA PatienceStep ==
  TypeOK /\ PlaceInv /\ Patience /\ [Next]_vars => Patience'
<1> SUFFICES ASSUME TypeOK, PlaceInv, Patience, [Next]_vars, ~stop'
             PROVE  Patience'
  BY DEF Patience
<1>t. PollerPlace /\ active \in Tabs /\ queue \in Seq(Ids)
  BY DEF PlaceInv, TypeOK
<1>s. ~stop
  <2>1. stop => stop'
    BY DEF Next, Poller, Submit, Answer, Stop, TakeCommand, Disconnect,
           ApplySelect, ApplyMode, ApplyWrite, ApplyScan, RunScan, Finish,
           BeginPoll, PollMock, Publish, OpenSource, Connect, Adopt, Abandon,
           ReadSource, Lose, Wait, vars
  <2>. QED
    BY <2>1
<1>p. /\ overdue \in {0, 1}
      /\ overdue = 0 \/ queue # <<>>
      /\ pc = "connect" /\ phase = "init" => overdue = 0
  BY <1>s DEF Patience
<1>1. CASE UNCHANGED <<overdue, queue>> /\ pc' # "connect"
  BY <1>p, <1>1 DEF Patience
<1>2. ASSUME NEW i \in Ids, NEW a \in Acts, Submit(i, a)
      PROVE  Patience'
  <2>1. queue' # <<>>
    BY <1>t, <1>2, AppendProperties DEF Submit
  <2>2. UNCHANGED <<pc, phase, overdue>>
    BY <1>2 DEF Submit, busVars, sessionVars
  <2>. QED
    BY <1>p, <2>1, <2>2 DEF Patience
<1>3. ASSUME NEW i \in Ids, Answer(i)
      PROVE  Patience'
  BY <1>p, <1>3 DEF Answer, Patience, busVars, sessionVars
<1>4. CASE TakeCommand
  BY <1>4 DEF TakeCommand, Patience
<1>5. CASE Connect
  <2>1. CASE phase' = "init"
    <3>1. phase # "init"
      BY <1>5, <2>1, InitPhases, StartPhases, UnlockPhases
         DEF Connect, Exchange, BeginEstablish, ConnectSleep, Settle, Quiet,
             Confirm, SleepRaises, Sleeping
    <3>2. queue = <<>>
      <4>1. ~BeginEstablish
        BY <1>t, <1>5, <2>1, TabsAreFast
           DEF Connect, BeginEstablish, PollerPlace
      <4>2. ASSUME NEW out \in Outcomes
            PROVE  ~SendInit(out) /\ ~StartSession(out) /\ ~Unlock(out)
        BY <2>1, InitPhases, StartPhases, UnlockPhases
      <4>. QED
        BY <1>5, <1>s, <2>1, <4>1, <4>2
           DEF Connect, Exchange, ConnectSleep, SleepRaises
    <3>. QED
      BY <1>p, <1>5, <3>1, <3>2 DEF Connect, Patience, cmdVars
  <2>2. CASE phase' # "init"
    <3>1. CASE phase = "init" /\ queue # <<>>
      BY <1>p, <1>5, <2>2, <3>1 DEF Connect, Patience, cmdVars
    <3>2. CASE ~(phase = "init" /\ queue # <<>>)
      BY <1>p, <1>5, <2>2, <3>2 DEF Connect, Patience, cmdVars
    <3>. QED
      BY <3>1, <3>2
  <2>. QED
    BY <2>1, <2>2
<1>6. CASE OpenSource
  <2>1. CASE Open(active) /\ UNCHANGED <<cmdVars, overdue>>
    BY <1>p, <2>1 DEF Open, Patience, cmdVars
  <2>2. CASE Publish("error")
    BY <1>1, <2>2 DEF Publish, cmdVars
  <2>. QED
    BY <1>6, <2>1, <2>2 DEF OpenSource
<1>7. CASE Stop \/ UNCHANGED vars
  BY <1>p, <1>7 DEF Stop, vars, Patience, cmdVars, busVars, sessionVars
<1>8. CASE Disconnect \/ Lose
  BY <1>1, <1>8 DEF Disconnect, Lose, Publish, cmdVars
<1>9. CASE ApplySelect \/ ApplyMode \/ ApplyWrite
  BY <1>1, <1>9 DEF ApplySelect, ApplyMode, ApplyWrite, Finish
<1>10. CASE ApplyScan \/ RunScan
  BY <1>1, <1>10 DEF ApplyScan, RunScan, Finish, cmdVars
<1>11. CASE BeginPoll \/ PollMock \/ Adopt \/ Abandon \/ ReadSource \/ Wait
  BY <1>1, <1>11 DEF BeginPoll, PollMock, Adopt, Abandon, ReadSource, Wait,
                     Publish, cmdVars
<1>. QED
  BY <1>2, <1>3, <1>4, <1>5, <1>6, <1>7, <1>8, <1>9, <1>10, <1>11
     DEF Next, Poller

-----------------------------------------------------------------------------
(***************************************************************************)
(* The queue holds the commands that are queued, in order of acceptance;   *)
(* the poller runs one of them at a time, and only where it serves.        *)
(***************************************************************************)
QueueOrder ==
  /\ \A i, j \in Ids : i < j /\ stage[j] # "new" => stage[i] # "new"
  /\ \A i \in Ids : stage[i] = "running" => i = running /\ pc \in Serving
  /\ \A i \in Ids : stage[i] = "queued" => \E k \in 1 .. Len(queue) : queue[k] = i
  /\ \A k \in 1 .. Len(queue) : stage[queue[k]] = "queued"
  /\ \A k, l \in 1 .. Len(queue) : k < l => queue[k] < queue[l]

LEMMA QueueInit == Init => QueueOrder
<1> SUFFICES ASSUME Init PROVE QueueOrder
  OBVIOUS
<1>1. \A i \in Ids : stage[i] = "new"
  BY DEF Init
<1>2. Len(queue) = 0
  BY EmptySeq DEF Init
<1>. QED
  BY <1>1, <1>2 DEF QueueOrder

LEMMA QueueTyped ==
  ASSUME TypeOK
  PROVE  /\ queue \in Seq(Ids) /\ Len(queue) \in Nat
         /\ \A k \in 1 .. Len(queue) : queue[k] \in Ids
         /\ \A i \in Ids : i \in Nat
<1>1. queue \in Seq(Ids)
  BY DEF TypeOK
<1>2. \A i \in Ids : i \in Nat
  BY DEF Ids
<1>. QED
  BY <1>1, <1>2, LenProperties, ElementOfSeq

(***************************************************************************)
(* A command is accepted behind the others.                                *)
(***************************************************************************)
LEMMA QueueSubmit ==
  ASSUME TypeOK, QueueOrder, NEW i \in Ids, NEW a \in Acts, Submit(i, a)
  PROVE  QueueOrder'
<1>t. /\ queue \in Seq(Ids) /\ Len(queue) \in Nat
      /\ \A k \in 1 .. Len(queue) : queue[k] \in Ids
      /\ \A j \in Ids : j \in Nat
  BY QueueTyped
<1>1. /\ stage[i] = "new"
      /\ \A j \in Ids : j < i => stage[j] # "new"
      /\ \A j \in Ids : stage'[j] = IF j = i THEN "queued" ELSE stage[j]
      /\ UNCHANGED <<pc, running>>
  <2>1. \A j \in Ids : j < i => j \in 1 .. i - 1
    BY DEF Ids
  <2>. QED
    BY <2>1 DEF Submit, TypeOK
<1>2. /\ Len(queue') = Len(queue) + 1
      /\ \A k \in 1 .. Len(queue) : queue'[k] = queue[k]
      /\ queue'[Len(queue) + 1] = i
  BY <1>t, AppendProperties DEF Submit
<1>3. \A k \in 1 .. Len(queue) : queue[k] < i
  <2> SUFFICES ASSUME NEW k \in 1 .. Len(queue)
               PROVE  queue[k] < i
    OBVIOUS
  <2>1. queue[k] # i
    BY <1>1 DEF QueueOrder
  <2>2. ~(i < queue[k])
    BY <1>t, <1>1 DEF QueueOrder
  <2>. QED
    BY <1>t, <2>1, <2>2
<1>4. \A j, k \in Ids : j < k /\ stage'[k] # "new" => stage'[j] # "new"
  BY <1>1 DEF QueueOrder
<1>5. \A j \in Ids : stage'[j] = "running" => j = running' /\ pc' \in Serving
  BY <1>1 DEF QueueOrder
<1>6. \A j \in Ids : stage'[j] = "queued" =>
                       \E k \in 1 .. Len(queue') : queue'[k] = j
  <2> SUFFICES ASSUME NEW j \in Ids, stage'[j] = "queued"
               PROVE  \E k \in 1 .. Len(queue') : queue'[k] = j
    OBVIOUS
  <2>1. CASE j = i
    BY <1>t, <1>2, <2>1
  <2>2. CASE j # i
    <3>1. PICK k \in 1 .. Len(queue) : queue[k] = j
      BY <1>1, <2>2 DEF QueueOrder
    <3>. QED
      BY <1>t, <1>2, <3>1
  <2>. QED
    BY <2>1, <2>2
<1>7. \A k \in 1 .. Len(queue') : stage'[queue'[k]] = "queued"
  <2> SUFFICES ASSUME NEW k \in 1 .. Len(queue')
               PROVE  stage'[queue'[k]] = "queued"
    OBVIOUS
  <2>1. CASE k \in 1 .. Len(queue)
    <3>1. queue'[k] = queue[k] /\ queue[k] \in Ids /\ stage[queue[k]] = "queued"
      BY <1>t, <1>2, <2>1 DEF QueueOrder
    <3>. QED
      BY <1>1, <3>1
  <2>2. CASE k = Len(queue) + 1
    BY <1>1, <1>2, <2>2
  <2>. QED
    BY <1>t, <1>2, <2>1, <2>2
<1>8. \A k, l \in 1 .. Len(queue') : k < l => queue'[k] < queue'[l]
  <2> SUFFICES ASSUME NEW k \in 1 .. Len(queue'), NEW l \in 1 .. Len(queue'),
                      k < l
               PROVE  queue'[k] < queue'[l]
    OBVIOUS
  <2>1. k \in 1 .. Len(queue)
    BY <1>t, <1>2
  <2>2. CASE l \in 1 .. Len(queue)
    BY <1>2, <2>1, <2>2 DEF QueueOrder
  <2>3. CASE l = Len(queue) + 1
    BY <1>2, <1>3, <2>1, <2>3
  <2>. QED
    BY <1>t, <1>2, <2>2, <2>3
<1>. QED
  BY <1>4, <1>5, <1>6, <1>7, <1>8 DEF QueueOrder

(***************************************************************************)
(* The oldest command is taken: all the earlier ones have run.             *)
(***************************************************************************)
LEMMA HeadIsNext ==
  ASSUME TypeOK, QueueOrder, pc \notin Serving, queue # <<>>
  PROVE  /\ Head(queue) \in Ids
         /\ stage[Head(queue)] = "queued"
         /\ \A j \in Ids : j < Head(queue) => stage[j] = "done"
<1>t. /\ queue \in Seq(Ids) /\ Len(queue) \in Nat
      /\ \A k \in 1 .. Len(queue) : queue[k] \in Ids
      /\ \A i \in Ids : i \in Nat
  BY QueueTyped
<1>1. Len(queue) >= 1 /\ Head(queue) = queue[1]
  BY <1>t, EmptySeq
<1>2. Head(queue) \in Ids /\ stage[Head(queue)] = "queued"
  BY <1>t, <1>1 DEF QueueOrder
<1>3. ASSUME NEW j \in Ids, j < Head(queue)
      PROVE  stage[j] = "done"
  <2>1. stage[j] # "new" /\ stage[j] # "running"
    BY <1>2, <1>3 DEF QueueOrder
  <2>2. stage[j] # "queued"
    <3> SUFFICES ASSUME stage[j] = "queued" PROVE FALSE
      OBVIOUS
    <3>1. PICK k \in 1 .. Len(queue) : queue[k] = j
      BY DEF QueueOrder
    <3>2. k # 1
      BY <1>t, <1>1, <1>3, <3>1
    <3>3. queue[1] < queue[k]
      BY <1>t, <1>1, <3>2 DEF QueueOrder
    <3>. QED
      BY <1>t, <1>1, <1>2, <1>3, <3>1, <3>3
  <2>. QED
    BY <2>1, <2>2 DEF TypeOK
<1>. QED
  BY <1>2, <1>3

LEMMA QueueTake ==
  ASSUME TypeOK, QueueOrder, TakeCommand
  PROVE  QueueOrder'
<1> DEFINE h == Head(queue)
<1>t. /\ queue \in Seq(Ids) /\ Len(queue) \in Nat
      /\ \A k \in 1 .. Len(queue) : queue[k] \in Ids
      /\ \A i \in Ids : i \in Nat
  BY QueueTyped
<1>0. queue # <<>> /\ pc \notin Serving /\ pc' \in Serving
  BY DEF TakeCommand, Serving
<1>1. h \in Ids /\ h = queue[1] /\ stage[h] = "queued"
  BY <1>t, <1>0, HeadIsNext
<1>2. /\ running' = h
      /\ \A j \in Ids : stage'[j] = IF j = h THEN "running" ELSE stage[j]
  BY <1>1 DEF TakeCommand, TypeOK
<1>3. /\ Len(queue') = Len(queue) - 1
      /\ \A k \in 1 .. Len(queue) - 1 : queue'[k] = queue[k + 1]
  BY <1>t, <1>0, HeadTailProperties DEF TakeCommand
<1>. HIDE DEF h
<1>4. \A k \in 1 .. Len(queue') : k + 1 \in 1 .. Len(queue) /\ queue'[k] = queue[k + 1]
  BY <1>t, <1>3
<1>5. \A k \in 1 .. Len(queue) : k # 1 => queue[1] < queue[k]
  BY <1>t DEF QueueOrder
<1>6. \A i, j \in Ids : i < j /\ stage'[j] # "new" => stage'[i] # "new"
  BY <1>1, <1>2 DEF QueueOrder
<1>7. \A i \in Ids : stage'[i] = "running" => i = running' /\ pc' \in Serving
  BY <1>0, <1>2 DEF QueueOrder
<1>8. \A i \in Ids : stage'[i] = "queued" =>
                       \E k \in 1 .. Len(queue') : queue'[k] = i
  <2> SUFFICES ASSUME NEW i \in Ids, stage'[i] = "queued"
               PROVE  \E k \in 1 .. Len(queue') : queue'[k] = i
    OBVIOUS
  <2>1. i # h /\ stage[i] = "queued"
    BY <1>2
  <2>2. PICK k \in 1 .. Len(queue) : queue[k] = i
    BY <2>1 DEF QueueOrder
  <2>3. k # 1
    BY <1>1, <2>1, <2>2
  <2>4. k - 1 \in 1 .. Len(queue') /\ queue'[k - 1] = queue[k]
    BY <1>t, <1>3, <2>3
  <2>. QED
    BY <2>2, <2>4
<1>9. \A k \in 1 .. Len(queue') : stage'[queue'[k]] = "queued"
  <2> SUFFICES ASSUME NEW k \in 1 .. Len(queue')
               PROVE  stage'[queue'[k]] = "queued"
    OBVIOUS
  <2>1. /\ queue'[k] \in Ids
        /\ stage[queue'[k]] = "queued"
        /\ queue[1] < queue'[k]
    BY <1>t, <1>4, <1>5 DEF QueueOrder
  <2>2. queue'[k] # h
    BY <1>t, <1>1, <2>1
  <2>. QED
    BY <1>2, <2>1, <2>2
<1>10. \A k, l \in 1 .. Len(queue') : k < l => queue'[k] < queue'[l]
  BY <1>t, <1>4 DEF QueueOrder
<1>. QED
  BY <1>6, <1>7, <1>8, <1>9, <1>10 DEF QueueOrder

LEMMA QueueFinish ==
  ASSUME TypeOK, PollerPlace, QueueOrder, pc \in Serving, Finish
  PROVE  QueueOrder'
<1>1. running \in Ids /\ stage[running] = "running"
  BY DEF PollerPlace
<1>2. \A j \in Ids : stage'[j] = IF j = running THEN "done" ELSE stage[j]
  BY <1>1 DEF Finish, TypeOK
<1>3. \A k \in 1 .. Len(queue) : queue[k] \in Ids /\ queue[k] # running
  BY <1>1, QueueTyped DEF QueueOrder
<1>. QED
  BY <1>1, <1>2, <1>3 DEF QueueOrder, Finish

LEMMA QueueStep ==
  TypeOK /\ PlaceInv /\ QueueOrder /\ [Next]_vars => QueueOrder'
<1> SUFFICES ASSUME TypeOK, PlaceInv, QueueOrder, [Next]_vars
             PROVE  QueueOrder'
  OBVIOUS
<1>t. PollerPlace
  BY DEF PlaceInv
<1>1. CASE /\ UNCHANGED <<queue, stage, running>>
           /\ pc \in Serving => pc' \in Serving
  BY <1>1 DEF QueueOrder
<1>2. ASSUME NEW i \in Ids, NEW a \in Acts, Submit(i, a)
      PROVE  QueueOrder'
  BY <1>2, QueueSubmit
<1>3. ASSUME NEW i \in Ids, Answer(i)
      PROVE  QueueOrder'
  BY <1>1, <1>3 DEF Answer
<1>4. CASE TakeCommand
  BY <1>4, QueueTake
<1>5. CASE ApplySelect \/ ApplyMode \/ ApplyWrite
  BY <1>t, <1>5, QueueFinish DEF ApplySelect, ApplyMode, ApplyWrite, Serving
<1>6. CASE ApplyScan \/ RunScan
  <2>1. pc \in Serving
    BY <1>6 DEF ApplyScan, RunScan, Serving
  <2>2. CASE Finish
    BY <1>t, <2>1, <2>2, QueueFinish
  <2>3. CASE UNCHANGED cmdVars /\ pc' \in {pc, "scan"}
    BY <1>1, <2>1, <2>3 DEF cmdVars, Serving
  <2>. QED
    BY <1>6, <2>2, <2>3 DEF ApplyScan, RunScan
<1>7. CASE Disconnect
  BY <1>1, <1>7 DEF Disconnect, cmdVars, Serving
<1>8. CASE OpenSource \/ Connect \/ Adopt \/ Abandon \/ ReadSource \/ Lose \/ PollMock
  BY <1>1, <1>8 DEF OpenSource, Connect, Adopt, Abandon, ReadSource, Lose,
                    PollMock, Publish, cmdVars, Serving
<1>9. CASE BeginPoll \/ Wait \/ Stop \/ UNCHANGED vars
  BY <1>1, <1>9 DEF BeginPoll, Wait, Stop, vars, cmdVars, Serving
<1>. QED
  BY <1>2, <1>3, <1>4, <1>5, <1>6, <1>7, <1>8, <1>9 DEF Next, Poller

-----------------------------------------------------------------------------
(***************************************************************************)
(* Every step of the server is a step of CommandService, or leaves stage   *)
(* and told alone.                                                         *)
(***************************************************************************)
LEMMA ServiceStarts == Init => Service!ServiceInit
  BY DEF Init, Service!ServiceInit, Service!Ids, Ids

LEMMA ServiceKept ==
  ASSUME UNCHANGED <<stage, told>>
  PROVE  [Service!ServiceNext]_Service!serviceVars
  BY DEF Service!serviceVars

LEMMA ServiceFinish ==
  ASSUME PollerPlace, pc \in Serving, Finish
  PROVE  [Service!ServiceNext]_Service!serviceVars
<1>1. running \in Service!Ids /\ Service!Complete(running)
  BY DEF PollerPlace, Finish, Service!Complete, Service!Ids, Ids
<1>. QED
  BY <1>1 DEF Service!ServiceNext

LEMMA ServiceStep ==
  TypeOK /\ PlaceInv /\ QueueOrder /\ [Next]_vars
    => [Service!ServiceNext]_Service!serviceVars
<1> SUFFICES ASSUME TypeOK, PlaceInv, QueueOrder, [Next]_vars
             PROVE  [Service!ServiceNext]_Service!serviceVars
  OBVIOUS
<1>t. PollerPlace /\ Service!Ids = Ids /\ MaxCmds \in Nat
  BY ServerAssumption DEF PlaceInv, Service!Ids, Ids
<1>1. ASSUME NEW i \in Ids, NEW a \in Acts, Submit(i, a)
      PROVE  [Service!ServiceNext]_Service!serviceVars
  <2>1. \A j \in Service!Before(i) : j \in 1 .. i - 1
    BY <1>t DEF Service!Before, Ids
  <2>2. Service!Accept(i)
    BY <1>1, <2>1 DEF Submit, Service!Accept
  <2>. QED
    BY <1>t, <2>2 DEF Service!ServiceNext
<1>2. ASSUME NEW i \in Ids, Answer(i)
      PROVE  [Service!ServiceNext]_Service!serviceVars
  <2>1. Service!Reply(i)
    BY <1>2 DEF Answer, Service!Reply
  <2>. QED
    BY <1>t, <2>1 DEF Service!ServiceNext
<1>3. CASE TakeCommand
  <2>1. /\ Head(queue) \in Ids
        /\ stage[Head(queue)] = "queued"
        /\ \A j \in Ids : j < Head(queue) => stage[j] = "done"
    BY <1>3, HeadIsNext DEF TakeCommand, Serving
  <2>2. Service!Start(Head(queue))
    BY <1>t, <1>3, <2>1 DEF TakeCommand, Service!Start, Service!Before
  <2>. QED
    BY <1>t, <2>1, <2>2 DEF Service!ServiceNext
<1>4. CASE ApplySelect \/ ApplyMode \/ ApplyWrite
  BY <1>t, <1>4, ServiceFinish DEF ApplySelect, ApplyMode, ApplyWrite, Serving
<1>5. CASE ApplyScan \/ RunScan
  <2>1. pc \in Serving
    BY <1>5 DEF ApplyScan, RunScan, Serving
  <2>2. CASE Finish
    BY <1>t, <2>1, <2>2, ServiceFinish
  <2>3. CASE UNCHANGED cmdVars
    BY <2>3, ServiceKept DEF cmdVars
  <2>. QED
    BY <1>5, <2>2, <2>3 DEF ApplyScan, RunScan
<1>6. CASE Disconnect \/ OpenSource \/ Connect \/ Adopt \/ Abandon \/ ReadSource
           \/ Lose \/ PollMock
  BY <1>6, ServiceKept DEF Disconnect, OpenSource, Connect, Adopt, Abandon,
                           ReadSource, Lose, PollMock, Publish, cmdVars
<1>7. CASE BeginPoll \/ Wait \/ Stop \/ UNCHANGED vars
  BY <1>7, ServiceKept DEF BeginPoll, Wait, Stop, vars, cmdVars
<1>. QED
  BY <1>1, <1>2, <1>3, <1>4, <1>5, <1>6, <1>7 DEF Next, Poller

-----------------------------------------------------------------------------
(***************************************************************************)
(* Silence before an init: a scan sleeps whole waits, or until its pause   *)
(* between modules is over; so does a connection that no command waits     *)
(* for.  The modules before the one a scan is at have their rows, so that  *)
(* the pause comes between two modules.                                    *)
(***************************************************************************)
RowsSoFar == Scanning => Len(report) >= scanAt - 1

Quietness ==
  /\ RowsSoFar
  /\ pc # "scan" => scanAt = 0
  /\ stop \/ SilentStart

LEMMA QuietnessInit == Init => Quietness
<1> SUFFICES ASSUME Init PROVE Quietness
  OBVIOUS
<1>1. ~Scanning /\ scanAt = 0
  BY ScanOrderFacts DEF Init, ScanInit, Scanning
<1>. QED
  BY <1>1 DEF Init, ScanInit, SessionInit, Quietness, RowsSoFar, SilentStart

LEMMA RowCounts ==
  ASSUME ScanTypeOK, RowsSoFar, Scanning, NEW status \in {"read", "error"},
         AddRow(status), scanAt' = scanAt
  PROVE  RowsSoFar' /\ RowDone'
<1>1. Len(report') = Len(report) + 1 /\ Len(report) \in Nat /\ scanAt \in Nat
  BY AddRowTyped, ScanOrderFacts, LenProperties DEF ScanTypeOK, Scanning
<1>. QED
  BY <1>1 DEF RowsSoFar, RowDone

LEMMA ScanIsQuiet ==
  ASSUME ScanTypeOK, RowsSoFar, SilentStart, ScanStep \/ ScanReturn,
         phase # "none" => Scanning
  PROVE  SilentStart'
<1>1. CASE ScanOpen
  <2>1. CASE Open(ScanOrder[scanAt]) /\ UNCHANGED scanVars
    BY <1>1, <2>1 DEF ScanOpen, Open, SilentStart
  <2>2. CASE AddRow("error") /\ UNCHANGED <<sessionVars, scanAt>>
    <3>1. RowDone'
      BY <1>1, <2>2, RowCounts DEF ScanOpen
    <3>. QED
      BY <1>1, <2>2, <3>1 DEF ScanOpen, SilentStart, sessionVars
  <2>. QED
    BY <1>1, <2>1, <2>2 DEF ScanOpen
<1>2. CASE ScanEstablish
  <2>1. phase' \notin {"none", "opened"}
    BY <1>2, EstablishPhases, ScanEstablishes DEF ScanEstablish
  <2>. QED
    BY <1>2, <2>1, EstablishSilence DEF ScanEstablish, SilentStart
<1>3. CASE ScanFailed \/ ScanRead
  BY <1>3 DEF ScanFailed, ScanRead, SilentStart
<1>4. CASE ScanRelease
  <2>1. phase' \in {"stopping", "closing"}
    BY <1>4, ReleasePhases DEF ScanRelease
  <2>. QED
    BY <2>1 DEF SilentStart
<1>5. CASE ScanClose
  <2>1. phase' = "none" /\ RowDone'
    BY <1>5, RowCounts DEF ScanClose, Close, RowDone
  <2>. QED
    BY <2>1 DEF SilentStart
<1>6. CASE NextModule
  <2>1. phase' = "none" /\ scanAt' = scanAt + 1 /\ (scanAt < Len(ScanOrder) => settled')
    BY <1>6 DEF NextModule
  <2>2. Scanning' => scanAt < Len(ScanOrder)
    BY <2>1, ScanOrderFacts DEF Scanning, ScanTypeOK
  <2>. QED
    BY <2>1, <2>2 DEF SilentStart
<1>7. CASE ScanReturn
  <2>1. phase = "none" /\ phase' = "none" /\ ~Scanning'
    BY <1>7, ScanOrderFacts DEF ScanReturn, Scanning, sessionVars
  <2>. QED
    BY <2>1 DEF SilentStart
<1>. QED
  BY <1>1, <1>2, <1>3, <1>4, <1>5, <1>6, <1>7 DEF ScanStep

LEMMA RowsOfScan ==
  ASSUME ScanTypeOK, RowsSoFar, ScanStep \/ ScanReturn
  PROVE  RowsSoFar'
<1>1. CASE UNCHANGED scanVars
  BY <1>1 DEF RowsSoFar, Scanning, scanVars
<1>2. CASE ScanOpen \/ ScanRead \/ ScanClose
  <2>1. scanAt' = scanAt /\ Scanning
    BY <1>2 DEF ScanOpen, ScanRead, ScanClose, scanVars
  <2>2. \/ report' = report
        \/ \E status \in {"read", "error"} : AddRow(status)
    BY <1>2 DEF ScanOpen, ScanRead, ScanClose, scanVars
  <2>3. CASE report' = report
    BY <2>1, <2>3 DEF RowsSoFar, Scanning
  <2>. QED
    BY <2>1, <2>2, <2>3, RowCounts
<1>3. CASE NextModule
  BY <1>3, LenProperties, ScanOrderFacts
     DEF NextModule, RowsSoFar, RowDone, ScanTypeOK, Scanning
<1>4. CASE ScanReturn
  BY <1>4, ScanOrderFacts DEF ScanReturn, RowsSoFar, Scanning
<1>. QED
  BY <1>1, <1>2, <1>3, <1>4
     DEF ScanStep, ScanEstablish, ScanFailed, ScanRelease

(***************************************************************************)
(* A connection: a sleep cut short means that the server stops, one that a *)
(* command ends is not followed by an init.                                *)
(***************************************************************************)
LEMMA ConnectIsQuiet ==
  ASSUME TypeOK, stop \/ SilentStart, Connect
  PROVE  stop' \/ SilentStart'
<1>1. phase' \notin {"none", "opened"} /\ stop' = stop
  BY ConnectEstablishes, EstablishPhases DEF Connect
<1>2. SUFFICES ASSUME ~stop, phase' = "init" PROVE settled'
  BY <1>1 DEF SilentStart
<1>3. CASE SleepRaises
  BY <1>2, <1>3 DEF SleepRaises
<1>4. CASE Exchange \/ Settle(TRUE) \/ Quiet(TRUE) \/ Confirm
  BY <1>2, <1>4, EstablishSilence
<1>. QED
  BY <1>2, <1>3, <1>4 DEF Connect, ConnectSleep

LEMMA StartIsQuiet ==
  ASSUME TypeOK, PlaceInv, Quietness, ApplyScan
  PROVE  Quietness'
<1>1. phase = "none" /\ phase' = "none" /\ stop' = stop
  BY DEF ApplyScan, PlaceInv, PollerPlace, BeginScan, Finish, busVars, sessionVars
<1>2. CASE mode = Live
  <2>1. BeginScan /\ pc' = "scan"
    BY <1>2 DEF ApplyScan
  <2>2. CASE scanAt' = 1 /\ report' = <<>>
    BY <1>1, <2>1, <2>2, ScanAssumption
       DEF Quietness, RowsSoFar, SilentStart
  <2>3. CASE scanAt' = Len(ScanOrder) + 1
    <3>1. ~Scanning'
      BY <2>3, ScanOrderFacts DEF Scanning
    <3>. QED
      BY <1>1, <2>1, <3>1 DEF Quietness, RowsSoFar, SilentStart
  <2>. QED
    BY <2>1, <2>2, <2>3 DEF BeginScan
<1>3. CASE mode # Live
  BY <1>1, <1>3 DEF ApplyScan, Finish, busVars, sessionVars, scanVars, Quietness,
                    RowsSoFar, SilentStart, Scanning, RowDone
<1>. QED
  BY <1>2, <1>3

LEMMA QuietnessStep == TypeOK /\ PlaceInv /\ Quietness /\ [Next]_vars => Quietness'
<1> SUFFICES ASSUME TypeOK, PlaceInv, Quietness, [Next]_vars
             PROVE  Quietness'
  OBVIOUS
<1>t. ScanTypeOK /\ active \in Tabs /\ PollerPlace
  BY DEF TypeOK, PlaceInv
<1>0. scanAt = 0 => ~Scanning
  BY ScanOrderFacts DEF Scanning
<1>1. CASE UNCHANGED busVars /\ (stop => stop') /\ (pc = "scan" <=> pc' = "scan")
  BY <1>1 DEF busVars, sessionVars, scanVars, Quietness, RowsSoFar, SilentStart,
              Scanning, RowDone
<1>2. CASE /\ scanAt = 0 /\ scanAt' = 0 /\ (stop => stop')
           /\ phase' \notin {"init", "opened"}
  <2>1. ~Scanning'
    BY <1>2, ScanOrderFacts DEF Scanning
  <2>. QED
    BY <1>2, <2>1 DEF Quietness, RowsSoFar, SilentStart
<1>3. CASE RunScan
  <2>1. RowsSoFar' /\ (stop' \/ SilentStart')
    BY <1>t, <1>3, ScanIsQuiet, RowsOfScan
       DEF RunScan, Quietness, PollerPlace, Finish
  <2>2. pc' # "scan" => scanAt' = 0
    BY <1>3 DEF RunScan, ScanReturn
  <2>. QED
    BY <2>1, <2>2 DEF Quietness
<1>4. CASE Connect
  <2>1. scanAt = 0 /\ scanAt' = 0 /\ pc' = pc
    BY <1>4 DEF Connect, Quietness, scanVars
  <2>2. ~Scanning'
    BY <2>1, ScanOrderFacts DEF Scanning
  <2>. QED
    BY <1>4, <2>1, <2>2, ConnectIsQuiet DEF Quietness, RowsSoFar
<1>5. CASE OpenSource
  <2>1. scanAt = 0 /\ scanAt' = 0 /\ stop' = stop /\ pc' # "scan"
    BY <1>5 DEF OpenSource, Publish, Quietness, scanVars
  <2>2. ~Scanning'
    BY <2>1, ScanOrderFacts DEF Scanning
  <2>3. \/ phase' = "opened" /\ cur' = active
        \/ phase' = "none"
    BY <1>t, <1>5 DEF OpenSource, Open, PollerPlace, sessionVars
  <2>. QED
    BY <1>t, <2>1, <2>2, <2>3, TabsAreFast DEF Quietness, RowsSoFar, SilentStart
<1>6. CASE ApplyScan
  BY <1>6, StartIsQuiet
<1>7. CASE TakeCommand
  BY <1>t, <1>2, <1>7 DEF TakeCommand, Quietness, PollerPlace, scanVars
<1>8. CASE Disconnect \/ Lose
  <2>1. phase' \in {"stopping", "closing", "none"}
    BY <1>8, ReleasePhases DEF Disconnect, Lose, Close
  <2>. QED
    BY <1>2, <1>8, <2>1 DEF Disconnect, Lose, Publish, Quietness, scanVars
<1>9. CASE ApplyWrite
  BY <1>t, <1>2, <1>9 DEF ApplyWrite, Finish, Quietness, PollerPlace, scanVars
<1>10. CASE Adopt \/ Abandon
  BY <1>2, <1>10 DEF Adopt, Abandon, Publish, Quietness, scanVars
<1>11. CASE ReadSource
  BY <1>t, <1>2, <1>11 DEF ReadSource, Publish, Quietness, PollerPlace, scanVars
<1>12. ASSUME NEW i \in Ids, NEW a \in Acts, Submit(i, a)
       PROVE  Quietness'
  BY <1>1, <1>12 DEF Submit
<1>13. ASSUME NEW i \in Ids, Answer(i)
       PROVE  Quietness'
  BY <1>1, <1>13 DEF Answer
<1>14. CASE Stop \/ ApplySelect \/ ApplyMode \/ BeginPoll \/ Wait \/ PollMock
            \/ UNCHANGED vars
  BY <1>1, <1>14 DEF Stop, ApplySelect, ApplyMode, Finish, BeginPoll, Wait,
                     PollMock, Publish, vars
<1>. QED
  BY <1>3, <1>4, <1>5, <1>6, <1>7, <1>8, <1>9, <1>10, <1>11, <1>12, <1>13, <1>14
     DEF Next, Poller

-----------------------------------------------------------------------------
(***************************************************************************)
(* The inductive invariant and what follows from it.                       *)
(***************************************************************************)
ServerInv ==
  TypeOK /\ PlaceInv /\ Debts /\ Labels /\ Patience /\ QueueOrder /\ Quietness

LEMMA ServerInvInit == Init => ServerInv
  BY TypedInit, PlaceInit, DebtsInit, LabelsInit, PatienceInit, QueueInit,
     QuietnessInit
     DEF ServerInv

LEMMA ServerInvStep == ServerInv /\ [Next]_vars => ServerInv'
<1>1. PlaceInv => RunsCommand
  BY DEF PlaceInv, PollerPlace, RunsCommand, Serving
<1>. QED
  BY <1>1, TypedStep, PlaceStep, DebtsStep, LabelsStep, PatienceStep, QueueStep,
     QuietnessStep
     DEF ServerInv

(***************************************************************************)
(* ServerInv holds in every state of the server.                           *)
(***************************************************************************)
THEOREM ServerInvariant == Spec => []ServerInv
  BY ServerInvInit, ServerInvStep, PTL DEF Spec

(***************************************************************************)
(* The types of the server, its sources and the bus (server.py,            *)
(* sources.py) hold in every state.                                        *)
(***************************************************************************)
THEOREM ServerTyped == Spec => []TypeOK
<1>1. ServerInv => TypeOK
  BY DEF ServerInv
<1>. QED
  BY <1>1, ServerInvariant, PTL

(***************************************************************************)
(* At most one session object in use holds a transport, the one a source   *)
(* holds or whose method runs, whatever is polled, switched or scanned.    *)
(* Ports of dropped objects that await the collector are not counted.      *)
(***************************************************************************)
THEOREM ServerOnePort == Spec => []OnePortInUse
<1>1. ServerInv => OnePortInUse
  <2> SUFFICES ASSUME PlaceInv, pc \in Locations PROVE OnePortInUse
    BY DEF ServerInv, TypeOK
  <2>1. pc \in {"scan", "connect"} => handles = {}
    BY DEF PlaceInv, PollerPlace
  <2>2. phase # "none" /\ handles # {} => cur = active
    BY DEF PlaceInv, PollerPlace, Locations
  <2>. QED
    BY <2>1, <2>2 DEF PlaceInv, HeldPorts, OnePortInUse
<1>. QED
  BY <1>1, ServerInvariant, PTL

(***************************************************************************)
(* A link that an abandoned connection left open is cleared before the     *)
(* next session object sends its first fast init (_establish, session.py). *)
(***************************************************************************)
THEOREM ServerClearsStaleLink == Spec => []StaleLinkCleared
<1>1. ServerInv => StaleLinkCleared
  BY DEF ServerInv, Debts, LinkDebts, StaleLinkCleared
<1>. QED
  BY <1>1, ServerInvariant, PTL

(***************************************************************************)
(* Every init, of a scan or of a connection, goes out after a whole        *)
(* silence, while the server runs (_connect_sleep, the pause of a scan).   *)
(***************************************************************************)
THEOREM ServerInitsAfterSilence == Spec => []QuietBeforeInit
<1>1. ServerInv => QuietBeforeInit
  BY DEF ServerInv, Quietness, SilentStart, QuietBeforeInit
<1>. QED
  BY <1>1, ServerInvariant, PTL

(***************************************************************************)
(* Signals are shown under the module and mode they were read from         *)
(* (_select, _set_mode and _poll_loop in server.py).                       *)
(***************************************************************************)
THEOREM ServerLabelsSignals == Spec => []SignalsLabelled
<1>1. ServerInv => SignalsLabelled
  BY DEF ServerInv, Labels, SignalsLabelled
<1>. QED
  BY <1>1, ServerInvariant, PTL

(***************************************************************************)
(* A waiting command stops the connection it waits for after one more init *)
(* at most (_connect_sleep in server.py).                                  *)
(***************************************************************************)
THEOREM ServerAborts == Spec => []WaitingCommandAborts
<1>1. ServerInv => WaitingCommandAborts
  <2>1. overdue \in {0, 1} => overdue <= 1
    OBVIOUS
  <2>. QED
    BY <2>1 DEF ServerInv, Patience, WaitingCommandAborts
<1>. QED
  BY <1>1, ServerInvariant, PTL

(***************************************************************************)
(* A session that a source holds ends with 20 and 82 before its transport  *)
(* closes (disconnect and the except clauses of poll in sources.py).       *)
(***************************************************************************)
LEMMA ReleasedStep ==
  ASSUME ServerInv, [Next]_vars, NEW m \in handles \ handles'
  PROVE  m \notin linkDue' \cup sessDue' \cup ports'
<1>t. /\ SessionTypeOK /\ PlaceInv /\ SessionDebts /\ LinkDebts
      /\ active \in Tabs
  BY DEF ServerInv, TypeOK, ScanTypeOK, Debts
<1>1. CASE /\ Close
           /\ pc \in {"disconnect", "lose"}
           /\ handles' = handles \ {active}
  <2>1. m = cur /\ handles = {active} /\ ports = {cur} /\ m \in Tabs
    BY <1>t, <1>1 DEF PlaceInv, PollerPlace, HeldPorts
  <2>2. cur \in Heard(cur)
    BY <2>1, TabsAreFast, HearsItself
  <2>3. cur \notin linkDue /\ cur \notin sessDue
    BY <1>t, <1>1, <2>1, <2>2, TabsAreFast, SessionAssumption
       DEF Close, SessionDebts, LinkDebts
  <2>. QED
    BY <1>1, <2>1, <2>3 DEF Close
<1>2. CASE handles \subseteq handles'
  BY <1>2
<1>3. ASSUME NEW i \in Ids, NEW a \in Acts, Submit(i, a)
      PROVE  handles \subseteq handles'
  BY <1>3 DEF Submit, pollVars
<1>4. CASE Disconnect \/ Lose
  BY <1>1, <1>2, <1>4 DEF Disconnect, Lose, pollVars
<1>5. CASE ApplySelect \/ ApplyMode \/ ApplyWrite \/ ApplyScan \/ RunScan
  BY <1>2, <1>5 DEF ApplySelect, ApplyMode, ApplyWrite, ApplyScan, RunScan, Finish
<1>6. CASE TakeCommand \/ BeginPoll \/ PollMock \/ OpenSource \/ Connect \/ Adopt
           \/ Abandon \/ ReadSource \/ Wait \/ Stop \/ UNCHANGED vars
  BY <1>2, <1>6 DEF TakeCommand, BeginPoll, PollMock, OpenSource, Connect, Adopt,
                    Abandon, ReadSource, Wait, Stop, vars, pollVars
<1>7. ASSUME NEW i \in Ids, Answer(i)
      PROVE  handles \subseteq handles'
  BY <1>7 DEF Answer, pollVars
<1>. QED
  BY <1>2, <1>3, <1>4, <1>5, <1>6, <1>7 DEF Next, Poller

THEOREM ServerReleasesSessions == Spec => HeldSessionReleased
<1>1. ServerInv /\ [Next]_vars =>
        [\A m \in handles \ handles' :
            m \notin linkDue' \cup sessDue' \cup ports']_vars
  BY ReleasedStep
<1>. QED
  BY <1>1, ServerInvariant, PTL DEF Spec, HeldSessionReleased

(***************************************************************************)
(* The server serves its commands as CommandService promises: one at a     *)
(* time, each once, in order, and no answer before its command has run.    *)
(***************************************************************************)
THEOREM ServerServes == Spec => ServesCommands
<1>1. ServerInv /\ [Next]_vars => [Service!ServiceNext]_Service!serviceVars
  BY ServiceStep DEF ServerInv
<1>. QED
  BY <1>1, ServiceStarts, ServerInvariant, PTL
     DEF Spec, ServesCommands, Service!ServiceSpec

=============================================================================
