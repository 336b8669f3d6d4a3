--------------------------- MODULE LiveSources_proofs ---------------------------
(***************************************************************************)
(* The types of the live sources, and the clock of the fuel computer, for  *)
(* every choice of the periods, thresholds and times.                      *)
(***************************************************************************)
EXTENDS LiveSources, TLAPS

(***************************************************************************)
(* The fuel clock is stopped while the source was left and not read since. *)
(***************************************************************************)
Paused == left => fuelAge = Never

AbsenceInv == Paused /\ AbsenceIsNotCounted

LEMMA StoppedClock ==
  ASSUME NEW d, FuelClock(d), fuelAge = Never
  PROVE  fuelAge' = Never
  BY DEF FuelClock, Older

LEMMA AbsenceStart == Init => AbsenceInv
  BY DEF Init, AbsenceInv, Paused, AbsenceIsNotCounted

(***************************************************************************)
(* A step that leaves the integral alone and lets the clock run.           *)
(***************************************************************************)
LEMMA ClockRuns ==
  ASSUME AbsenceInv, NEW d, FuelClock(d), UNCHANGED <<left, counted>>
  PROVE  AbsenceInv'
  BY StoppedClock DEF AbsenceInv, Paused, AbsenceIsNotCounted

LEMMA AbsenceStep ==
  ASSUME AbsenceInv, [Next]_vars
  PROVE  AbsenceInv'
<1>1. CASE ConnectFails
  BY <1>1, ClockRuns DEF ConnectFails
<1>2. CASE Td5Read
  <2>1. PICK c, d : FuelUpdate(c, d)
    BY <1>2 DEF Td5Read
  <2>2. PICK rate \in BOOLEAN :
          counted' = [time |-> IF rate /\ fuelAge # Never
                               THEN Older(fuelAge, c, FuelCap) ELSE 0,
                      left |-> left]
    BY <2>1 DEF FuelUpdate
  <2>3. left => counted'.time = 0
    BY <2>2 DEF AbsenceInv, Paused
  <2>4. counted'.left = left
    BY <2>2
  <2>5. left' = FALSE
    BY <2>1 DEF FuelUpdate
  <2> QED BY <2>3, <2>4, <2>5 DEF AbsenceInv, Paused, AbsenceIsNotCounted
<1>3. CASE Td5Lost
  BY <1>3, ClockRuns DEF Td5Lost
<1>4. CASE SlabsThrottled
  BY <1>4, ClockRuns DEF SlabsThrottled
<1>5. CASE SlabsRead
  BY <1>5, ClockRuns DEF SlabsRead
<1>6. CASE SlabsEmpty
  BY <1>6, ClockRuns DEF SlabsEmpty
<1>7. CASE Switch
  <2>1. fuelAge' = (IF tab = "td5" THEN Never ELSE fuelAge)
    BY <1>7 DEF Switch
  <2>2. left' = (left \/ tab = "td5") /\ counted' = counted
    BY <1>7 DEF Switch
  <2> QED BY <2>1, <2>2 DEF AbsenceInv, Paused, AbsenceIsNotCounted
<1>8. CASE Command
  <2>1. ASSUME NEW d, OnTheWire(d) PROVE AbsenceInv'
    BY <2>1, ClockRuns DEF OnTheWire, TakesTime
  <2>2. \E d : OnTheWire(d)
    BY <1>8 DEF Command, ClearFaults, ReadBlock, OutputTest, Actuate, ModuleBleed,
               Exchange
  <2> QED BY <2>1, <2>2
<1>9. CASE SetFaultWatch \/ ModuleChanges \/ UNCHANGED vars
  <2>1. UNCHANGED td5Vars
    BY <1>9 DEF SetFaultWatch, ModuleChanges, vars
  <2> QED BY <2>1 DEF td5Vars, AbsenceInv, Paused, AbsenceIsNotCounted
<1> QED BY <1>1, <1>2, <1>3, <1>4, <1>5, <1>6, <1>7, <1>8, <1>9 DEF Next, Poll

(***************************************************************************)
(* The time another module was on screen is never counted as driving,      *)
(* whatever is polled, lost and commanded in between.                      *)
(***************************************************************************)
THEOREM AbsenceNeverCounted == Spec => []AbsenceIsNotCounted
<1>1. AbsenceInv => AbsenceIsNotCounted
  BY DEF AbsenceInv
<1> QED BY AbsenceStart, AbsenceStep, <1>1, PTL DEF Spec

-----------------------------------------------------------------------------
(***************************************************************************)
(* Ages stay between zero and the threshold they are compared with.        *)
(***************************************************************************)
LEMMA LeastOfTwo ==
  ASSUME NEW a \in Nat, NEW b \in Nat
  PROVE  Least(a, b) \in {a, b} /\ Least(a, b) <= b
<1>1. \E x \in {a, b} : \A y \in {a, b} : x <= y
  OBVIOUS
<1> QED BY <1>1 DEF Least, Min

LEMMA AgeInRange ==
  ASSUME NEW cap \in Nat, NEW age \in 0 .. cap, NEW d \in Nat, age # Never
  PROVE  Older(age, d, cap) \in 0 .. cap
<1>1. age + d \in Nat
  OBVIOUS
<1>2. Least(age + d, cap) \in {age + d, cap} /\ Least(age + d, cap) <= cap
  BY <1>1, LeastOfTwo
<1> QED BY <1>1, <1>2 DEF Older

(***************************************************************************)
(* The types, and the grace: a session in use has not used it up.          *)
(***************************************************************************)
Grace == "slabs" \in held => streak < EmptyGrace

TypeInv == TypeOK /\ Grace

LEMMA AgedByStep ==
  ASSUME NEW cap \in Nat, NEW age \in 0 .. cap, NEW d \in Nat
  PROVE  Older(age, d, cap) \in 0 .. cap
<1>1. CASE age = Never
  BY <1>1 DEF Older
<1>2. CASE age # Never
  BY <1>2, AgeInRange
<1> QED BY <1>1, <1>2

LEMMA SlabsClocksTyped ==
  ASSUME TypeOK, NEW d \in Nat, SlabsClocks(d)
  PROVE  busAge' \in 0 .. BusPeriod /\ faultAge' \in 0 .. FaultPeriod
<1>1. BusPeriod \in Nat /\ FaultPeriod \in Nat
  BY LiveSourcesAssumption
<1>2. busAge \in 0 .. BusPeriod /\ faultAge \in 0 .. FaultPeriod
  BY DEF TypeOK
<1> QED BY <1>1, <1>2, AgedByStep DEF SlabsClocks

LEMMA FuelClockTyped ==
  ASSUME TypeOK, NEW d \in Nat, FuelClock(d)
  PROVE  fuelAge' \in (0 .. FuelCap) \cup {Never}
<1>1. FuelCap \in Nat
  BY LiveSourcesAssumption
<1>2. CASE fuelAge = Never
  BY <1>2 DEF FuelClock, Older
<1>3. CASE fuelAge \in 0 .. FuelCap
  BY <1>1, <1>3, AgedByStep DEF FuelClock
<1> QED BY <1>2, <1>3 DEF TypeOK

LEMMA ShownTyped ==
  ASSUME tab \in Sources, NEW kind \in {"read", "throttled", "stale", "lost"}
  PROVE  Shown(kind) \in Snapshots
  BY DEF Shown, Snapshots

LEMMA TimesAreNaturals ==
  /\ ConnectTimes \subseteq Nat /\ ReadTimes \subseteq Nat
  /\ CommandTimes \subseteq Nat /\ BleedGap \in Nat
  /\ Interval \in Nat
  BY LiveSourcesAssumption DEF Interval

LEMMA TypeStart == Init => TypeInv
<1> SUFFICES ASSUME Init PROVE TypeInv
  OBVIOUS
<1>1. snap \in Snapshots
  BY DEF Init, Snapshots
<1>2. list \in [Sources -> {"read", "owed", "missed"}]
  BY DEF Init
<1>3. counted \in [time : 0 .. FuelCap, left : BOOLEAN]
  BY LiveSourcesAssumption DEF Init
<1>4. tab \in Sources /\ held \subseteq Sources /\ alive \subseteq Sources
  BY DEF Init
<1>5. /\ busAge \in 0 .. BusPeriod /\ faultAge \in 0 .. FaultPeriod
      /\ streak \in 0 .. EmptyGrace
      /\ rot \in 0 .. ExtraLids - 1
      /\ tick \in 0 .. FaultEvery - 1
  BY LiveSourcesAssumption DEF Init
<1>6. watch \in BOOLEAN /\ left \in BOOLEAN
  BY DEF Init
<1>7. fuelAge \in (0 .. FuelCap) \cup {Never}
  BY DEF Init
<1>8. Grace
  BY DEF Init, Grace
<1> QED BY <1>1, <1>2, <1>3, <1>4, <1>5, <1>6, <1>7, <1>8 DEF TypeInv, TypeOK

(***************************************************************************)
(* Helpers for the parts that a poll changes.                              *)
(***************************************************************************)
LEMMA StreakTyped ==
  ASSUME TypeInv
  PROVE  StreakNow \in 0 .. EmptyGrace /\ StreakNow < EmptyGrace
<1>1. EmptyGrace \in Nat \ {0}
  BY LiveSourcesAssumption
<1> QED BY <1>1 DEF TypeInv, TypeOK, Grace, StreakNow

LEMMA ListTyped ==
  ASSUME TypeOK, NEW s \in Sources, NEW l \in {"read", "owed", "missed"}
  PROVE  [list EXCEPT ![s] = l] \in [Sources -> {"read", "owed", "missed"}]
  BY DEF TypeOK

LEMMA MissedTyped ==
  ASSUME TypeOK, NEW s \in Sources
  PROVE  [list EXCEPT ![s] = IF @ = "owed" THEN "missed" ELSE @]
           \in [Sources -> {"read", "owed", "missed"}]
  BY DEF TypeOK

LEMMA ConnectFailsTyped ==
  ASSUME TypeInv, ConnectFails
  PROVE  TypeInv'
<1> USE DEF ConnectFails
<1>1. PICK c \in Nat : SlabsClocks(c) /\ FuelClock(c)
  BY TimesAreNaturals DEF Interval
<1>2. /\ busAge' \in 0 .. BusPeriod /\ faultAge' \in 0 .. FaultPeriod
      /\ fuelAge' \in (0 .. FuelCap) \cup {Never}
  BY <1>1, SlabsClocksTyped, FuelClockTyped DEF TypeInv
<1>3. snap' \in Snapshots
  BY ShownTyped DEF TypeInv, TypeOK
<1>4. held' \subseteq Sources /\ Grace'
  BY DEF TypeInv, TypeOK, Grace, Lose
<1> QED BY <1>2, <1>3, <1>4 DEF TypeInv, TypeOK

LEMMA FuelUpdateTyped ==
  ASSUME TypeOK, NEW c \in Nat, NEW d \in Nat, FuelUpdate(c, d)
  PROVE  /\ fuelAge' \in (0 .. FuelCap) \cup {Never}
         /\ counted' \in [time : 0 .. FuelCap, left : BOOLEAN]
         /\ left' \in BOOLEAN
<1>1. FuelCap \in Nat /\ 0 \in 0 .. FuelCap
  BY LiveSourcesAssumption
<1>2. Older(0, d + Interval, FuelCap) \in 0 .. FuelCap
  <2>1. d + Interval \in Nat
    BY DEF Interval
  <2> QED BY <2>1, <1>1, AgedByStep
<1>3. PICK rate \in BOOLEAN :
        counted' = [time |-> IF rate /\ fuelAge # Never
                             THEN Older(fuelAge, c, FuelCap) ELSE 0,
                    left |-> left]
  BY DEF FuelUpdate
<1>4. fuelAge # Never => Older(fuelAge, c, FuelCap) \in 0 .. FuelCap
  BY <1>1, AgedByStep DEF TypeOK
<1>5. (IF rate /\ fuelAge # Never THEN Older(fuelAge, c, FuelCap) ELSE 0) \in 0 .. FuelCap
  BY <1>1, <1>4
<1>6. left \in BOOLEAN
  BY DEF TypeOK
<1>7. counted' \in [time : 0 .. FuelCap, left : BOOLEAN]
  BY <1>3, <1>5, <1>6
<1>8. left' \in BOOLEAN
  BY DEF FuelUpdate
<1> QED BY <1>2, <1>7, <1>8 DEF FuelUpdate

LEMMA Td5ReadTyped ==
  ASSUME TypeInv, Td5Read
  PROVE  TypeInv'
<1> USE DEF Td5Read
<1>1. PICK c \in ConnectTimes \cup {0}, d \in ReadTimes :
        Reaches(c) /\ FuelUpdate(c, d) /\ SlabsClocks(c + d + Interval)
  OBVIOUS
<1>2. c \in Nat /\ d \in Nat /\ c + d + Interval \in Nat
  BY TimesAreNaturals
<1>3. busAge' \in 0 .. BusPeriod /\ faultAge' \in 0 .. FaultPeriod
  BY <1>1, <1>2, SlabsClocksTyped DEF TypeInv
<1>4. /\ fuelAge' \in (0 .. FuelCap) \cup {Never}
      /\ counted' \in [time : 0 .. FuelCap, left : BOOLEAN]
      /\ left' \in BOOLEAN
  BY <1>1, <1>2, FuelUpdateTyped DEF TypeInv
<1>5. tick' \in 0 .. FaultEvery - 1
  <2>1. FaultEvery \in Nat \ {0} /\ tick \in Nat
    BY LiveSourcesAssumption DEF TypeInv, TypeOK
  <2> QED BY <2>1 DEF Td5FaultRead
<1>6. list' \in [Sources -> {"read", "owed", "missed"}]
  <2>1. "td5" \in Sources /\ TypeOK
    BY DEF Sources, TypeInv
  <2>2. CASE UNCHANGED list
    BY <2>2, <2>1 DEF TypeOK
  <2>3. CASE ~UNCHANGED list
    BY <2>3, <2>1, ListTyped, MissedTyped DEF Td5FaultRead
  <2> QED BY <2>2, <2>3
<1>7. snap' \in Snapshots
  BY ShownTyped DEF TypeInv, TypeOK
<1>8. held' \subseteq Sources /\ Grace'
  BY <1>1 DEF TypeInv, TypeOK, Grace, Reaches
<1> QED BY <1>3, <1>4, <1>5, <1>6, <1>7, <1>8 DEF TypeInv, TypeOK

LEMMA Td5LostTyped ==
  ASSUME TypeInv, Td5Lost
  PROVE  TypeInv'
<1> USE DEF Td5Lost
<1>1. PICK d \in Nat : SlabsClocks(d) /\ FuelClock(d)
  BY TimesAreNaturals DEF Interval
<1>2. /\ busAge' \in 0 .. BusPeriod /\ faultAge' \in 0 .. FaultPeriod
      /\ fuelAge' \in (0 .. FuelCap) \cup {Never}
  BY <1>1, SlabsClocksTyped, FuelClockTyped DEF TypeInv
<1>3. snap' \in Snapshots
  BY ShownTyped DEF TypeInv, TypeOK
<1>4. held' \subseteq Sources /\ Grace'
  BY DEF TypeInv, TypeOK, Grace, Lose
<1> QED BY <1>2, <1>3, <1>4 DEF TypeInv, TypeOK

LEMMA SlabsThrottledTyped ==
  ASSUME TypeInv, SlabsThrottled
  PROVE  TypeInv'
<1> USE DEF SlabsThrottled
<1>1. PICK c \in ConnectTimes \cup {0} :
        Reaches(c) /\ SlabsClocks(c + Interval) /\ FuelClock(c + Interval)
  OBVIOUS
<1>2. c + Interval \in Nat
  BY TimesAreNaturals
<1>3. /\ busAge' \in 0 .. BusPeriod /\ faultAge' \in 0 .. FaultPeriod
      /\ fuelAge' \in (0 .. FuelCap) \cup {Never}
  BY <1>1, <1>2, SlabsClocksTyped, FuelClockTyped DEF TypeInv
<1>4. streak' \in 0 .. EmptyGrace /\ streak' < EmptyGrace
  BY StreakTyped
<1>5. snap' \in Snapshots
  BY ShownTyped DEF TypeInv, TypeOK
<1>6. held' \subseteq Sources /\ Grace'
  BY <1>1, <1>4 DEF TypeInv, TypeOK, Grace, Reaches
<1> QED BY <1>3, <1>4, <1>5, <1>6 DEF TypeInv, TypeOK

LEMMA RotateTyped ==
  ASSUME TypeOK, Rotate
  PROVE  rot' \in 0 .. ExtraLids - 1
<1>1. ExtraLids \in Nat \ {0} /\ rot \in Nat
  BY LiveSourcesAssumption DEF TypeOK
<1> QED BY <1>1 DEF Rotate

LEMMA RestartTyped ==
  ASSUME NEW cap \in Nat, NEW d \in Nat
  PROVE  Older(0, d + Interval, cap) \in 0 .. cap
<1>1. d + Interval \in Nat /\ 0 \in 0 .. cap
  BY DEF Interval
<1> QED BY <1>1, AgedByStep

LEMMA SlabsReadsFaultsTyped ==
  ASSUME TypeOK, NEW c \in Nat, NEW d \in Nat, SlabsReadsFaults(c, d)
  PROVE  /\ faultAge' \in 0 .. FaultPeriod
         /\ list' \in [Sources -> {"read", "owed", "missed"}]
<1> DEFINE Due == Older(faultAge, c, FaultPeriod) >= FaultPeriod
<1>1. FaultPeriod \in Nat /\ "slabs" \in Sources /\ faultAge \in 0 .. FaultPeriod
  BY LiveSourcesAssumption DEF Sources, TypeOK
<1>2. CASE Due
  <2>1. faultAge' \in 0 .. FaultPeriod
    BY <1>1, <1>2, RestartTyped DEF SlabsReadsFaults
  <2>2. list' \in [Sources -> {"read", "owed", "missed"}]
    BY <1>1, <1>2, ListTyped, MissedTyped DEF SlabsReadsFaults
  <2> QED BY <2>1, <2>2
<1>3. CASE ~Due
  <2>1. c + d + Interval \in Nat
    BY DEF Interval
  <2>2. faultAge' \in 0 .. FaultPeriod
    BY <1>1, <1>3, <2>1, AgedByStep DEF SlabsReadsFaults
  <2>3. list' \in [Sources -> {"read", "owed", "missed"}]
    BY <1>3 DEF SlabsReadsFaults, TypeOK
  <2> QED BY <2>2, <2>3
<1> QED BY <1>2, <1>3

LEMMA SlabsReadTyped ==
  ASSUME TypeInv, SlabsRead
  PROVE  TypeInv'
<1> USE DEF SlabsRead
<1>1. PICK c \in ConnectTimes \cup {0}, d \in ReadTimes :
        /\ Reaches(c) /\ busAge' = Older(0, d + Interval, BusPeriod)
        /\ SlabsReadsFaults(c, d) /\ FuelClock(c + d + Interval)
  OBVIOUS
<1>2. c \in Nat /\ d \in Nat /\ c + d + Interval \in Nat
  BY TimesAreNaturals
<1>3. busAge' \in 0 .. BusPeriod
  BY <1>1, <1>2, RestartTyped, LiveSourcesAssumption
<1>4. /\ faultAge' \in 0 .. FaultPeriod
      /\ list' \in [Sources -> {"read", "owed", "missed"}]
  BY <1>1, <1>2, SlabsReadsFaultsTyped DEF TypeInv
<1>5. fuelAge' \in (0 .. FuelCap) \cup {Never}
  BY <1>1, <1>2, FuelClockTyped DEF TypeInv
<1>6. rot' \in 0 .. ExtraLids - 1
  BY RotateTyped DEF TypeInv
<1>7. streak' \in 0 .. EmptyGrace /\ streak' < EmptyGrace
  BY LiveSourcesAssumption
<1>8. snap' \in Snapshots
  BY ShownTyped DEF TypeInv, TypeOK
<1>9. held' \subseteq Sources /\ Grace'
  BY <1>1, <1>7 DEF TypeInv, TypeOK, Grace, Reaches
<1> QED BY <1>3, <1>4, <1>5, <1>6, <1>7, <1>8, <1>9 DEF TypeInv, TypeOK

LEMMA SlabsEmptyTyped ==
  ASSUME TypeInv, SlabsEmpty
  PROVE  TypeInv'
<1> USE DEF SlabsEmpty
<1>1. PICK c \in ConnectTimes \cup {0}, d \in ReadTimes :
        /\ IF streak' < EmptyGrace
           THEN Reaches(c) /\ snap' = Shown("stale")
           ELSE Lose /\ snap' = Shown("lost")
        /\ busAge' = Older(0, d + Interval, BusPeriod)
        /\ faultAge' = Older(faultAge, c + d + Interval, FaultPeriod)
        /\ FuelClock(c + d + Interval)
  OBVIOUS
<1>2. d \in Nat /\ c + d + Interval \in Nat
  BY TimesAreNaturals
<1>3. busAge' \in 0 .. BusPeriod
  BY <1>1, <1>2, RestartTyped, LiveSourcesAssumption
<1>4. faultAge' \in 0 .. FaultPeriod
  <2>1. FaultPeriod \in Nat /\ faultAge \in 0 .. FaultPeriod
    BY LiveSourcesAssumption DEF TypeInv, TypeOK
  <2> QED BY <1>1, <1>2, <2>1, AgedByStep
<1>5. fuelAge' \in (0 .. FuelCap) \cup {Never}
  BY <1>1, <1>2, FuelClockTyped DEF TypeInv
<1>6. rot' \in 0 .. ExtraLids - 1
  BY RotateTyped DEF TypeInv
<1>7. streak' \in 0 .. EmptyGrace
  <2>1. StreakNow \in 0 .. EmptyGrace /\ StreakNow < EmptyGrace
    BY StreakTyped
  <2> QED BY <2>1, LiveSourcesAssumption
<1>8. snap' \in Snapshots
  <2>1. tab \in Sources
    BY DEF TypeInv, TypeOK
  <2>2. snap' = Shown("stale") \/ snap' = Shown("lost")
    BY <1>1
  <2> QED BY <2>1, <2>2, ShownTyped
<1>9. held' \subseteq Sources /\ Grace'
  <2>1. tab = "slabs" /\ tab \in Sources /\ held \subseteq Sources
    BY DEF TypeInv, TypeOK
  <2>2. CASE streak' < EmptyGrace
    BY <1>1, <2>1, <2>2 DEF Grace, Reaches
  <2>3. CASE ~(streak' < EmptyGrace)
    BY <1>1, <2>1, <2>3 DEF Grace, Lose
  <2> QED BY <2>2, <2>3
<1> QED BY <1>3, <1>4, <1>5, <1>6, <1>7, <1>8, <1>9 DEF TypeInv, TypeOK

LEMMA SwitchTyped ==
  ASSUME TypeInv, Switch
  PROVE  TypeInv'
<1> USE DEF Switch
<1>1. tab' \in Sources /\ held' \subseteq Sources
  BY DEF TypeInv, TypeOK
<1>2. fuelAge' \in (0 .. FuelCap) \cup {Never}
  BY DEF TypeInv, TypeOK
<1>3. left' \in BOOLEAN
  BY DEF TypeInv, TypeOK
<1>4. Grace'
  BY DEF TypeInv, Grace, slabsVars
<1> QED BY <1>1, <1>2, <1>3, <1>4 DEF TypeInv, TypeOK, slabsVars

LEMMA OnTheWireTyped ==
  ASSUME TypeInv, NEW d \in Nat, OnTheWire(d),
         list' \in [Sources -> {"read", "owed", "missed"}],
         tick' \in 0 .. FaultEvery - 1
  PROVE  TypeInv'
<1>1. /\ busAge' \in 0 .. BusPeriod /\ faultAge' \in 0 .. FaultPeriod
      /\ fuelAge' \in (0 .. FuelCap) \cup {Never}
  BY SlabsClocksTyped, FuelClockTyped DEF TypeInv, OnTheWire, TakesTime
<1>2. Grace'
  BY DEF TypeInv, Grace, OnTheWire
<1> QED BY <1>1, <1>2 DEF TypeInv, TypeOK, OnTheWire

LEMMA CommandTyped ==
  ASSUME TypeInv, Command
  PROVE  TypeInv'
<1>1. \E d \in Nat : OnTheWire(d)
  <2>1. CASE ModuleBleed
    <3>1. PICK done \in 0 .. 3, d \in CommandTimes : OnTheWire(done * BleedGap + d)
      BY <2>1 DEF ModuleBleed
    <3>2. done * BleedGap \in Nat
      BY TimesAreNaturals
    <3>3. done * BleedGap + d \in Nat
      BY <3>2, TimesAreNaturals
    <3> QED BY <3>1, <3>3
  <2>2. CASE Exchange
    BY <2>2, TimesAreNaturals DEF Exchange
  <2> QED BY <2>1, <2>2 DEF Command, ClearFaults, ReadBlock, OutputTest, Actuate
<1>2. list' \in [Sources -> {"read", "owed", "missed"}]
  <2>1. tab \in Sources /\ list \in [Sources -> {"read", "owed", "missed"}] /\ TypeOK
    BY DEF TypeInv, TypeOK
  <2>2. list' = list \/ list' = [list EXCEPT ![tab] = "owed"]
    BY DEF Command, ClearFaults, ReadBlock, OutputTest, Actuate, ModuleBleed
  <2> QED BY <2>1, <2>2, ListTyped
<1>3. tick' \in 0 .. FaultEvery - 1
  <2>1. tick \in 0 .. FaultEvery - 1 /\ 0 \in 0 .. FaultEvery - 1
    BY LiveSourcesAssumption DEF TypeInv, TypeOK
  <2>2. tick' = tick \/ tick' = 0
    BY DEF Command, ClearFaults, ReadBlock, OutputTest, Actuate, ModuleBleed
  <2> QED BY <2>1, <2>2
<1> QED BY <1>1, <1>2, <1>3, OnTheWireTyped

LEMMA EnvironmentTyped ==
  ASSUME TypeInv, SetFaultWatch \/ ModuleChanges \/ UNCHANGED vars
  PROVE  TypeInv'
<1>1. CASE SetFaultWatch
  <2>1. watch' \in BOOLEAN
    BY <1>1 DEF SetFaultWatch
  <2>2. Grace'
    BY <1>1 DEF SetFaultWatch, slabsVars, TypeInv, Grace
  <2> QED BY <1>1, <2>1, <2>2 DEF SetFaultWatch, slabsVars, td5Vars, TypeInv, TypeOK
<1>2. CASE ModuleChanges
  <2>1. alive' \subseteq Sources
    BY <1>2 DEF ModuleChanges, TypeInv, TypeOK
  <2>2. Grace'
    BY <1>2 DEF ModuleChanges, slabsVars, TypeInv, Grace
  <2> QED BY <1>2, <2>1, <2>2 DEF ModuleChanges, slabsVars, td5Vars, TypeInv, TypeOK
<1>3. CASE UNCHANGED vars
  BY <1>3 DEF vars, slabsVars, td5Vars, TypeInv, TypeOK, Grace
<1> QED BY <1>1, <1>2, <1>3

LEMMA TypeStep ==
  ASSUME TypeInv, [Next]_vars
  PROVE  TypeInv'
  BY ConnectFailsTyped, Td5ReadTyped, Td5LostTyped, SlabsThrottledTyped,
     SlabsReadTyped, SlabsEmptyTyped, SwitchTyped, CommandTyped, EnvironmentTyped
     DEF Next, Poll

(***************************************************************************)
(* Every clock stays within the threshold it is compared with, the         *)
(* rotation names one of the identifiers and the empty streak never passes *)
(* the grace, whatever the periods are set to.                             *)
(***************************************************************************)
THEOREM SourcesTyped == Spec => []TypeOK
<1>1. TypeInv => TypeOK
  BY DEF TypeInv
<1> QED BY TypeStart, TypeStep, <1>1, PTL DEF Spec

=============================================================================
