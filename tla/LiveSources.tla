------------------------------ MODULE LiveSources ------------------------------
(***************************************************************************)
(* The live data sources (web/sources.py) between two polls: what each     *)
(* keeps from one poll, one session and one tab to the next.  The poller   *)
(* thread polls the source of the open tab and runs its commands; whether  *)
(* a control unit answers is the environment's choice.                     *)
(*                                                                         *)
(* Time is counted in poll intervals (0.5 s) and kept as ages, each up to  *)
(* the threshold the code compares it with.                                *)
(***************************************************************************)
EXTENDS Naturals, FiniteSetsExt

CONSTANTS
  BusPeriod,     \* _SLABS_BUS_PERIOD, in poll intervals
  FaultPeriod,   \* _SLABS_FAULT_PERIOD
  EmptyGrace,    \* _SLABS_EMPTY_GRACE
  FaultEvery,    \* fault_every without the fault watch
  FuelCap,       \* longest stretch the fuel computer integrates at once
  ExtraLids,     \* number of identifiers in the rotation
  ConnectTimes,  \* what a connection may take
  CommandTimes,  \* what the exchanges of one command may take
  BleedGap,      \* the sleep between two steps of the module bleed
  ReadTimes      \* what the reads of one poll may take

ASSUME LiveSourcesAssumption ==
  /\ BusPeriod \in Nat \ {0}
  /\ FaultPeriod \in Nat \ {0}
  /\ EmptyGrace \in Nat \ {0}
  /\ FaultEvery \in Nat \ {0}
  /\ FuelCap \in Nat \ {0}
  /\ ExtraLids \in Nat \ {0}
  /\ ConnectTimes \subseteq Nat
  /\ CommandTimes \subseteq Nat
  /\ BleedGap \in Nat
  /\ ReadTimes \subseteq Nat

Sources == {"td5", "slabs"}
Never == 1000  \* no age: the clock was not started

VARIABLES
  tab,        \* the source that is polled
  held,       \* sources with a session (_td5, _slabs)
  alive,      \* control units that answer
  busAge,     \* now - _last_bus
  faultAge,   \* now - _last_fault
  streak,     \* _empty_streak
  rot,        \* _rot, modulo the identifiers
  tick,       \* _fault_tick modulo FaultEvery
  watch,      \* fault_every is 1
  list,       \* the fault list of each source: read since the last clear
              \* that was acknowledged, owed a read, or that read failed
  fuelAge,    \* now - _FuelComputer._last
  left,       \* the TD5 was disconnected since fuelAge was set (history)
  counted,    \* what the last update integrated, and over what (history)
  snap        \* the snapshot of the last poll

slabsVars == <<busAge, faultAge, streak, rot>>
td5Vars == <<tick, fuelAge, left, counted>>
vars == <<tab, held, alive, slabsVars, td5Vars, watch, list, snap>>

Snapshots == [source : Sources, status : {"none", "connected", "error"},
              kind : {"read", "throttled", "stale", "lost"}]
Shown(kind) ==
  [source |-> tab, kind |-> kind,
   status |-> IF kind = "lost" THEN "error" ELSE "connected"]

TypeOK ==
  /\ tab \in Sources
  /\ held \subseteq Sources
  /\ alive \subseteq Sources
  /\ busAge \in 0 .. BusPeriod
  /\ faultAge \in 0 .. FaultPeriod
  /\ streak \in 0 .. EmptyGrace
  /\ rot \in 0 .. ExtraLids - 1
  /\ tick \in 0 .. FaultEvery - 1
  /\ watch \in BOOLEAN
  /\ list \in [Sources -> {"read", "owed", "missed"}]
  /\ fuelAge \in (0 .. FuelCap) \cup {Never}
  /\ left \in BOOLEAN
  /\ counted \in [time : 0 .. FuelCap, left : BOOLEAN]
  /\ snap \in Snapshots

(* time.monotonic() is far from the initial 0.0 of the clocks. *)
Init ==
  /\ tab \in Sources
  /\ held = {}
  /\ alive \in SUBSET Sources
  /\ busAge = BusPeriod
  /\ faultAge = FaultPeriod
  /\ streak = 0
  /\ rot = 0
  /\ tick = 0
  /\ watch = FALSE
  /\ list = [s \in Sources |-> "read"]
  /\ fuelAge = Never
  /\ left = FALSE
  /\ counted = [time |-> 0, left |-> FALSE]
  /\ snap = [source |-> tab, status |-> "none", kind |-> "lost"]

-----------------------------------------------------------------------------
(***************************************************************************)
(* Clocks.  An age grows by d up to its threshold; the poll interval is    *)
(* part of the poll it follows.                                            *)
(***************************************************************************)
Least(a, b) == Min({a, b})
Older(age, d, cap) == IF age = Never THEN Never ELSE Least(age + d, cap)
Interval == 1

SlabsClocks(d) ==
  /\ busAge' = Older(busAge, d, BusPeriod)
  /\ faultAge' = Older(faultAge, d, FaultPeriod)

FuelClock(d) == fuelAge' = Older(fuelAge, d, FuelCap)

(***************************************************************************)
(* A poll needs a session.  Connecting sleeps and exchanges for c and      *)
(* works only while the control unit answers.                              *)
(***************************************************************************)
Reaches(c) ==
  /\ held' = held \cup {tab}
  /\ IF tab \in held THEN c = 0 ELSE c \in ConnectTimes /\ tab \in alive

Answers == tab \in alive

(***************************************************************************)
(* The session is dropped: release(), _td5 or _slabs = None.               *)
(***************************************************************************)
Lose == held' = held \ {tab}

ConnectFails ==
  /\ tab \notin held
  /\ Lose
  /\ snap' = Shown("lost")
  /\ \E c \in ConnectTimes \cup {0} :
       /\ SlabsClocks(c + Interval)
       /\ FuelClock(c + Interval)
  /\ UNCHANGED <<tab, alive, streak, rot, tick, watch, list,
                 left, counted>>

-----------------------------------------------------------------------------
(***************************************************************************)
(* Td5DataSource.poll, and in it _FuelComputer.update: the time since the  *)
(* last update counts, at most FuelCap of it.  A signal the rate needs may *)
(* be missing: nothing counts, and the clock restarts all the same.        *)
(***************************************************************************)
FuelUpdate(c, d) ==
  /\ \E rate \in BOOLEAN :
       counted' = [time |-> IF rate /\ fuelAge # Never
                            THEN Older(fuelAge, c, FuelCap) ELSE 0,
                   left |-> left]
  /\ fuelAge' = Older(0, d + Interval, FuelCap)
  /\ left' = FALSE

FaultsDue == tick = 0 \/ watch

Td5FaultRead ==
  /\ tick' = (tick + 1) % FaultEvery
  /\ IF FaultsDue
     THEN \/ list' = [list EXCEPT !["td5"] = "read"]
          \/ list' = [list EXCEPT !["td5"] =
                        IF @ = "owed" THEN "missed" ELSE @]
     ELSE UNCHANGED list

Td5Read ==
  /\ tab = "td5"
  /\ Answers
  /\ \E c \in ConnectTimes \cup {0}, d \in ReadTimes :
       /\ Reaches(c)
       /\ FuelUpdate(c, d)
       /\ SlabsClocks(c + d + Interval)
  /\ Td5FaultRead
  /\ snap' = Shown("read")
  /\ UNCHANGED <<tab, alive, streak, rot, watch>>

(* No signal could be read: the session counts as lost. *)
Td5Lost ==
  /\ tab = "td5"
  /\ tab \in held
  /\ Lose
  /\ \E d \in ReadTimes :
       /\ FuelClock(d + Interval)
       /\ SlabsClocks(d + Interval)
  /\ snap' = Shown("lost")
  /\ UNCHANGED <<tab, alive, streak, rot, tick, watch, list,
                 left, counted>>

-----------------------------------------------------------------------------
(***************************************************************************)
(* SlabsDataSource.poll.  A fresh session starts with the full grace.      *)
(***************************************************************************)
StreakNow == IF "slabs" \in held THEN streak ELSE 0

ThrottleResets ==  \* mutant: a throttled poll counts as an answer
  /\ tab = "slabs"
  /\ \E c \in ConnectTimes \cup {0} :
       /\ Reaches(c)
       /\ busAge + c < BusPeriod
       /\ SlabsClocks(c + Interval)
       /\ FuelClock(c + Interval)
  /\ streak' = 0
  /\ snap' = Shown("throttled")
  /\ UNCHANGED <<tab, alive, rot, tick, watch, list, left, counted>>

(* Too soon after the last bus call: the last signals, no bus call. *)
SlabsThrottled ==
  /\ tab = "slabs"
  /\ \E c \in ConnectTimes \cup {0} :
       /\ Reaches(c)
       /\ busAge + c < BusPeriod
       /\ SlabsClocks(c + Interval)
       /\ FuelClock(c + Interval)
  /\ streak' = StreakNow
  /\ snap' = Shown("throttled")
  /\ UNCHANGED <<tab, alive, rot, tick, watch, list, left, counted>>

RotatesPast == rot' = rot + 1  \* mutant: the index is not wrapped

(* One extra identifier a poll, whether or not it is answered. *)
Rotate == rot' = (rot + 1) % ExtraLids

RestartsFaultClock(c, d) ==  \* mutant: every poll restarts the fault clock
  /\ faultAge' = Older(0, d + Interval, FaultPeriod)
  /\ IF Older(faultAge, c, FaultPeriod) >= FaultPeriod
     THEN list' = [list EXCEPT !["slabs"] = "read"]
     ELSE UNCHANGED list

(* The fault codes have a clock of their own, in seconds. *)
SlabsReadsFaults(c, d) ==
  IF Older(faultAge, c, FaultPeriod) >= FaultPeriod
  THEN /\ faultAge' = Older(0, d + Interval, FaultPeriod)
       /\ \/ list' = [list EXCEPT !["slabs"] = "read"]
          \/ list' = [list EXCEPT !["slabs"] =
                        IF @ = "owed" THEN "missed" ELSE @]
  ELSE /\ faultAge' = Older(faultAge, c + d + Interval, FaultPeriod)
       /\ UNCHANGED list

SlabsRead ==
  /\ tab = "slabs"
  /\ Answers
  /\ \E c \in ConnectTimes \cup {0}, d \in ReadTimes :
       /\ Reaches(c)
       /\ busAge + c >= BusPeriod
       /\ busAge' = Older(0, d + Interval, BusPeriod)
       /\ SlabsReadsFaults(c, d)
       /\ FuelClock(c + d + Interval)
  /\ Rotate
  /\ streak' = 0
  /\ snap' = Shown("read")
  /\ UNCHANGED <<tab, alive, tick, watch, left, counted>>

(***************************************************************************)
(* The heights are not answered: within the grace the last signals are     *)
(* shown as stale, then the session counts as lost.                        *)
(***************************************************************************)
SlabsEmpty ==
  /\ tab = "slabs"
  /\ Rotate
  /\ streak' = StreakNow + 1
  /\ \E c \in ConnectTimes \cup {0}, d \in ReadTimes :
       /\ IF streak' < EmptyGrace
          THEN Reaches(c) /\ snap' = Shown("stale")
          ELSE /\ IF tab \in held THEN c = 0
                  ELSE c \in ConnectTimes /\ tab \in alive
               /\ Lose
               /\ snap' = Shown("lost")
       /\ busAge + c >= BusPeriod
       /\ busAge' = Older(0, d + Interval, BusPeriod)
       /\ faultAge' = Older(faultAge, c + d + Interval, FaultPeriod)
       /\ FuelClock(c + d + Interval)
  /\ UNCHANGED <<tab, alive, tick, watch, list, left, counted>>

-----------------------------------------------------------------------------
(***************************************************************************)
(* Commands between two polls.  A switch of the tab disconnects the        *)
(* source, with or without a session; the TD5 then pauses its fuel clock.  *)
(***************************************************************************)
SwitchKeepsClock ==  \* mutant: without a session there is nothing to pause
  /\ tab' \in Sources \ {tab}
  /\ held' = held \ {tab}
  /\ fuelAge' = IF tab = "td5" /\ tab \in held THEN Never ELSE fuelAge
  /\ left' = (left \/ tab = "td5")
  /\ UNCHANGED <<alive, slabsVars, tick, counted, watch, list, snap>>

Switch ==
  /\ tab' \in Sources \ {tab}
  /\ held' = held \ {tab}
  /\ fuelAge' = IF tab = "td5" THEN Never ELSE fuelAge
  /\ left' = (left \/ tab = "td5")
  /\ UNCHANGED <<alive, slabsVars, tick, counted, watch, list, snap>>

(***************************************************************************)
(* Commands use the session that is there, on the poller thread: time      *)
(* passes for every clock.  Without a session they are refused at once.    *)
(***************************************************************************)
TakesTime(d) == SlabsClocks(d) /\ FuelClock(d)

OnTheWire(d) ==
  /\ tab \in held
  /\ TakesTime(d)
  /\ UNCHANGED <<tab, held, alive, streak, rot, left, counted, watch, snap>>

(* An output test or an actuator: one request, positive or not. *)
Exchange == \E d \in CommandTimes : OnTheWire(d)

(***************************************************************************)
(* clear_faults.  The TD5 forces a read at the next poll; SLABS resets     *)
(* _tick, which nothing reads.  Not acknowledged, it changes nothing.      *)
(***************************************************************************)
ClearFaults ==
  /\ Exchange
  /\ \/ /\ Answers
        /\ list' = [list EXCEPT ![tab] = "owed"]
        /\ tick' = IF tab = "td5" THEN 0 ELSE tick
     \/ UNCHANGED <<list, tick>>

(* A block of identifiers for the mapping tools; those that fail are left   *)
(* out of the result, and the source keeps none of it.                      *)
ReadBlock ==
  /\ Exchange
  /\ UNCHANGED <<list, tick>>

(* Something in the car moves; the outcome of the exchange is the result.   *)
OutputTest ==
  /\ tab = "td5"
  /\ Exchange
  /\ UNCHANGED <<list, tick>>

Actuate ==
  /\ tab = "slabs"
  /\ Exchange
  /\ UNCHANGED <<list, tick>>

(* Four steps with a plain sleep between them; the first that fails is the  *)
(* last, and the ones before it stay done.                                  *)
ModuleBleed ==
  /\ tab = "slabs"
  /\ \E done \in 0 .. 3, d \in CommandTimes : OnTheWire(done * BleedGap + d)
  /\ UNCHANGED <<list, tick>>

Command == ClearFaults \/ ReadBlock \/ OutputTest \/ Actuate \/ ModuleBleed

(* Inline, on an HTTP thread: fault_every of every source. *)
SetFaultWatch ==
  /\ watch' = ~watch
  /\ UNCHANGED <<tab, held, alive, slabsVars, td5Vars, list, snap>>

(* Ignition, cable, distance: a control unit falls silent or comes back. *)
ModuleChanges ==
  /\ \E s \in Sources :
       alive' = IF s \in alive THEN alive \ {s} ELSE alive \cup {s}
  /\ UNCHANGED <<tab, held, slabsVars, td5Vars, watch, list, snap>>

Poll ==
  \/ ConnectFails
  \/ Td5Read
  \/ Td5Lost
  \/ SlabsThrottled
  \/ SlabsRead
  \/ SlabsEmpty

Next ==
  \/ Poll
  \/ Switch
  \/ Command
  \/ SetFaultWatch
  \/ ModuleChanges

(***************************************************************************)
(* The poll loop keeps running; of the environment only that a control     *)
(* unit which is always ready to answer is not for ever misheard.          *)
(***************************************************************************)
Spec ==
  /\ Init /\ [][Next]_vars
  /\ WF_vars(Poll)

-----------------------------------------------------------------------------
(***************************************************************************)
(* The time another module was on screen is never counted as driving       *)
(* (pause(), sources.py 117-119), whatever happened before the switch.     *)
(***************************************************************************)
AbsenceIsNotCounted == counted.left => counted.time = 0

(***************************************************************************)
(* When SLABS is silent for good, its session does not stay "connected"    *)
(* for good on the strength of the last signals: as long as its tab is     *)
(* open it is dropped again and again (sources.py 696-706).                *)
(***************************************************************************)
SilenceEndsSession ==
  <>[](tab = "slabs" /\ "slabs" \notin alive) => <>[]("slabs" \notin held)

(***************************************************************************)
(* clear_faults does not restart the fault clock of SLABS (sources.py      *)
(* 739), yet a list from before the clear is not shown for ever: while     *)
(* SLABS goes on answering polls, a new one is asked for (lines 712-717).  *)
(***************************************************************************)
ClearedListGoes ==
  []<><<SlabsRead>>_vars =>
    (list["slabs"] = "owed" ~> list["slabs"] # "owed")

=============================================================================
