------------------------------ MODULE KlineNode ------------------------------
(***************************************************************************)
(* The ESP32 K-line node (esp32/kline_node): one loop that serves the web  *)
(* pages and a host on USB, keeps a TD5 session, logs a point a second     *)
(* and makes short excursions to SLABS.  The pages are also served between *)
(* two reads of a cycle and during the silence of an excursion: a handler  *)
(* runs there in the middle of what the loop is doing.  A point that       *)
(* cannot be sent waits in a file for the uplink.  Points carry the second *)
(* they were read in, and the database keeps one point of a second.        *)
(***************************************************************************)
EXTENDS Naturals, Sequences, SequencesExt

CONSTANTS
  MissGrace,    \* SESSION_MISS_GRACE
  IgnHintAfter, \* IGN_HINT_AFTER
  SlabsTries,   \* attempts of one excursion
  SpillMax,     \* SPILL_MAX, in points
  Chunk,        \* SPILL_CHUNK, in points
  MaxSeconds,   \* bound: seconds with a point
  MaxCalls,     \* bound: pages, uploads and host commands of one behaviour
  MaxBoots      \* bound: boots after the first

ASSUME KlineNodeAssumption ==
  /\ {MissGrace, IgnHintAfter, SlabsTries, SpillMax, Chunk} \subseteq Nat \ {0}
  /\ {MaxSeconds, MaxCalls, MaxBoots} \subseteq Nat

Modules == {"td5", "slabs"}

VARIABLES
  pc,          \* where the loop is: serve, read, post, settle
  logEnabled, sessionUp, recoveryCleared, needIgnCycle,
  sessionMiss,
  estabTries,  \* up to IgnHintAfter
  quiet,       \* quietUntil, or the first seconds after boot, are ahead
  slabsPoll,   \* kept in NVS
  tries,       \* attempts of this excursion
  bridgeMode, bridgeSticky,
  hostIdle,    \* bridgeIdleUntil has passed
  open,        \* external: modules with a link open
  bus,         \* history: torn down, quiet since, an attempt since, or used
  clock,       \* the time is known
  wgUp,
  spill,       \* points in the spill file
  spillOffset, \* of these, sent
  made,        \* second of the last point with a time
  influx,      \* external: the seconds with a point in the database
  owed,        \* history: seconds of the points whose cycle ended, except
               \* those a full file dropped
  calls, boots

sessionVars == <<logEnabled, sessionUp, recoveryCleared, needIgnCycle,
                 sessionMiss, estabTries, quiet>>
bridgeVars == <<bridgeMode, bridgeSticky, hostIdle>>
busVars == <<open, bus>>
linkVars == <<clock, wgUp>>
spillVars == <<spill, spillOffset, made, influx, owed>>
vars == <<pc, sessionVars, slabsPoll, tries, bridgeVars, busVars, linkVars,
          spillVars, calls, boots>>

(***************************************************************************)
(* setup().  Without a network at boot the tunnel is tried again later.    *)
(***************************************************************************)
Init ==
  /\ pc = "serve"
  /\ logEnabled = TRUE /\ sessionUp = FALSE
  /\ recoveryCleared = FALSE /\ needIgnCycle = FALSE
  /\ sessionMiss = 0 /\ estabTries = 0
  /\ quiet = "boot"
  /\ slabsPoll = TRUE
  /\ tries = 0
  /\ bridgeMode = FALSE /\ bridgeSticky = FALSE /\ hostIdle = FALSE
  /\ open \in SUBSET Modules
  /\ bus = "used"
  /\ clock = FALSE /\ wgUp = FALSE
  /\ spill = <<>> /\ spillOffset = 0
  /\ made = 0
  /\ influx = {} /\ owed = {}
  /\ calls = 0 /\ boots = 0

(***************************************************************************)
(* The node is on the ignition's supply: a key cycle closes the links, a   *)
(* crash or a brownout may not.  RAM is lost, the file and NVS are kept.   *)
(***************************************************************************)
Reboot ==
  /\ boots < MaxBoots
  /\ boots' = boots + 1
  /\ pc' = "serve"
  /\ logEnabled' = TRUE /\ sessionUp' = FALSE
  /\ recoveryCleared' = FALSE /\ needIgnCycle' = FALSE
  /\ sessionMiss' = 0 /\ estabTries' = 0
  /\ quiet' = "boot"
  /\ tries' = 0
  /\ bridgeMode' = FALSE /\ bridgeSticky' = FALSE /\ hostIdle' = FALSE
  /\ open' \in {open, {}} /\ bus' = "used"
  /\ clock' = FALSE /\ wgUp' = FALSE
  /\ spillOffset' = 0
  /\ UNCHANGED <<slabsPoll, spill, made, influx, owed, calls>>

-----------------------------------------------------------------------------
(***************************************************************************)
(* The bus.  endSession and stopComm are sent once and their answer is not *)
(* looked at: a module with a link closes it, or has not heard.            *)
(***************************************************************************)
TearDown(links) == open' \in SUBSET links /\ bus' = "torn"

(* StartCommunication: refused while a link is open, else heard or not. *)
Answers(module) ==
  {[ok |-> FALSE, open |-> open], [ok |-> FALSE, open |-> open \union {module}]}
    \union (IF module \in open THEN {} ELSE {[ok |-> TRUE, open |-> open \union {module}]})

(* quietUntil = 0; the first seconds after boot are a window of their own. *)
Resume ==
  /\ quiet' = IF quiet = "boot" THEN "boot" ELSE "none"
  /\ recoveryCleared' = FALSE
  /\ estabTries' = 0 /\ needIgnCycle' = FALSE

(***************************************************************************)
(* The loop.  In bridge mode the bus belongs to the host, until it has     *)
(* been idle for BRIDGE_IDLE_MS or, in sticky mode, until the page ends it.*)
(***************************************************************************)
BridgeExit ==
  /\ bridgeMode' = FALSE /\ bridgeSticky' = FALSE
  /\ Resume
  /\ UNCHANGED <<logEnabled, sessionUp, sessionMiss, hostIdle>>

LoopInBridge ==
  /\ pc = "serve"
  /\ bridgeMode /\ ~bridgeSticky /\ hostIdle
  /\ BridgeExit
  /\ UNCHANGED <<pc, slabsPoll, tries, busVars, linkVars, spillVars, calls, boots>>

(* Otherwise, and while logging is on, logTick. *)
Ticks == pc = "serve" /\ ~bridgeMode /\ logEnabled

(* NTP first: the tunnel needs the time, and both need WiFi. *)
WgStart ==
  /\ pc = "serve"
  /\ ~bridgeMode /\ ~wgUp
  /\ clock' \in {clock, TRUE}
  /\ wgUp' \in IF clock' THEN BOOLEAN ELSE {FALSE}
  /\ UNCHANGED <<pc, sessionVars, slabsPoll, tries, bridgeVars, busVars,
                 spillVars, calls, boots>>

-----------------------------------------------------------------------------
(***************************************************************************)
(* A point is the second it carries: cycles are a second apart by the time *)
(* their tick began, but the second is read after the heartbeat, the flush *)
(* and the reads of the tick, so a late point shares it with the next.     *)
(* External: Influx overwrites a point of the same tags and second.        *)
(***************************************************************************)
NextSeconds == {second \in {made, made + 1} : second \in 1 .. MaxSeconds}

(***************************************************************************)
(* Store and forward.  With the tunnel up a POST arrives or not (WiFi may  *)
(* be away), and its 204 is heard or not; without one the lines at its     *)
(* beginning may have been written.                                        *)
(***************************************************************************)
InfluxPost(lines) ==
  {[ok |-> FALSE, rows |-> influx]}
    \union (IF wgUp
            THEN {[ok |-> TRUE, rows |-> influx \union ToSet(lines)]}
              \union {[ok |-> FALSE, rows |-> influx \union ToSet(SubSeq(lines, 1, n))] :
                       n \in 1 .. Len(lines)}
            ELSE {})

DrainAll(n) == IF n > 0 THEN <<>> ELSE spill  \* mutant: any sent chunk removes the file

Drained(n) == IF n >= Len(spill) THEN <<>> ELSE spill

FlushSpill ==
  /\ Ticks
  /\ spill # <<>>
  /\ LET last == IF spillOffset + Chunk < Len(spill) THEN spillOffset + Chunk
                 ELSE Len(spill)
     IN \E post \in InfluxPost(SubSeq(spill, spillOffset + 1, last)) :
          /\ influx' = post.rows
          /\ spill' = IF post.ok THEN Drained(last) ELSE spill
          /\ spillOffset' = IF spill' = <<>> THEN 0 ELSE IF post.ok THEN last
                            ELSE spillOffset
  /\ UNCHANGED <<pc, sessionVars, slabsPoll, tries, bridgeVars, busVars, linkVars,
                 made, owed, calls, boots>>

-----------------------------------------------------------------------------
(***************************************************************************)
(* Once a second: recovery, an excursion or a cycle; during a silence and  *)
(* the first seconds after boot nothing.                                   *)
(***************************************************************************)
(* One teardown per episode, then silence. *)
Recover ==
  /\ Ticks
  /\ ~sessionUp /\ quiet # "boot" /\ ~recoveryCleared
  /\ TearDown(open)
  /\ recoveryCleared' = TRUE
  /\ quiet' = "window"
  /\ pc' = "serve"
  /\ UNCHANGED <<logEnabled, sessionUp, needIgnCycle, sessionMiss, estabTries,
                 slabsPoll, tries, bridgeVars, linkVars, spillVars, calls, boots>>

(***************************************************************************)
(* td5Establish: no teardown here.  When no C1 is heard it returns without *)
(* one; a failure after it ends with a StopCommunication.                  *)
(***************************************************************************)
EstablishUncounted ==  \* mutant: failures are not counted
  UNCHANGED <<estabTries, needIgnCycle>>

CountFailure ==
  /\ estabTries' = IF estabTries < IgnHintAfter THEN estabTries + 1 ELSE estabTries
  /\ needIgnCycle' = (needIgnCycle \/ estabTries' >= IgnHintAfter)

Establish ==
  /\ Ticks
  /\ ~sessionUp /\ recoveryCleared /\ quiet = "none"
  /\ \E answer \in Answers("td5") :
       \/ /\ answer.ok
          /\ open' = answer.open /\ bus' = "used"
          /\ sessionUp' = TRUE /\ sessionMiss' = 0 /\ recoveryCleared' = FALSE
          /\ estabTries' = 0 /\ needIgnCycle' = FALSE
          /\ UNCHANGED quiet
       \/ /\ IF answer.ok THEN open' \in SUBSET answer.open ELSE open' = answer.open
          /\ bus' = "tried"
          /\ CountFailure
          /\ quiet' = "window"
          /\ UNCHANGED <<sessionUp, sessionMiss, recoveryCleared>>
  /\ pc' = "serve"
  /\ UNCHANGED <<logEnabled, slabsPoll, tries, bridgeVars, linkVars, spillVars,
                 calls, boots>>

(***************************************************************************)
(* logCycle: a burst of reads; the pages are served between them, and once *)
(* more before the POST.  The outcome does not see what the pages did.     *)
(* Reads that decode to nothing make no point; one without a time is only  *)
(* posted, and there is no tunnel then.                                    *)
(***************************************************************************)
BeginCycle ==
  /\ Ticks
  /\ sessionUp
  /\ pc' = "read"
  /\ bus' = "used"
  /\ UNCHANGED <<sessionVars, slabsPoll, tries, bridgeVars, open, linkVars,
                 spillVars, calls, boots>>

CycleRead ==
  /\ pc = "read"
  /\ bus' = "used"
  /\ \/ made' \in (IF clock THEN NextSeconds ELSE {made}) /\ pc' = "post" /\ UNCHANGED sessionMiss
     \/ UNCHANGED made /\ pc' = "serve" /\ sessionMiss' = 0
  /\ UNCHANGED <<logEnabled, sessionUp, recoveryCleared, needIgnCycle, estabTries,
                 quiet, slabsPoll, tries, bridgeVars, open, linkVars, spill,
                 spillOffset, influx, owed, calls, boots>>

MissesPile(miss) == miss  \* mutant: a lost session leaves the count

MissesAfterLoss(miss) == 0

CycleMissed ==
  /\ pc = "read"
  /\ bus' = "used"
  /\ IF sessionMiss + 1 < MissGrace
     THEN /\ sessionMiss' = sessionMiss + 1
          /\ UNCHANGED <<sessionUp, recoveryCleared>>
     ELSE /\ sessionMiss' = MissesAfterLoss(sessionMiss + 1)
          /\ sessionUp' = FALSE /\ recoveryCleared' = FALSE
  /\ pc' = "serve"
  /\ UNCHANGED <<logEnabled, needIgnCycle, estabTries, quiet, slabsPoll, tries,
                 bridgeVars, open, linkVars, spillVars, calls, boots>>

(* A failed POST spills the line; a full file drops the newest. *)
CyclePost ==
  /\ pc = "post"
  /\ \E post \in InfluxPost(<<made>>) :
       /\ influx' = post.rows
       /\ spill' = IF ~post.ok /\ clock /\ Len(spill) < SpillMax
                   THEN Append(spill, made) ELSE spill
       /\ owed' = IF clock /\ (post.ok \/ Len(spill) < SpillMax)
                  THEN owed \union {made} ELSE owed
  /\ sessionMiss' = 0
  /\ pc' = "serve"
  /\ UNCHANGED <<logEnabled, sessionUp, recoveryCleared, needIgnCycle, estabTries,
                 quiet, slabsPoll, tries, bridgeVars, busVars, linkVars,
                 spillOffset, made, calls, boots>>

(***************************************************************************)
(* slabsExcursion: the TD5 is left, silence, up to SlabsTries inits, reads *)
(* and a StopCommunication; the pages are served during each silence, and  *)
(* the excursion looks at none of what they did to the bus or the mode.    *)
(***************************************************************************)
BeginExcursion ==
  /\ Ticks
  /\ sessionUp /\ slabsPoll
  /\ TearDown(open)
  /\ tries' = 1
  /\ pc' = "settle"
  /\ UNCHANGED <<sessionVars, slabsPoll, bridgeVars, linkVars, spillVars, calls, boots>>

Excursion ==
  /\ pc = "settle"
  /\ \E answer \in Answers("slabs") :
       /\ TearDown(answer.open)
       /\ IF ~answer.ok /\ tries < SlabsTries
          THEN /\ tries' = tries + 1
               /\ UNCHANGED <<pc, sessionUp, recoveryCleared, quiet>>
          ELSE /\ tries' = 0 /\ pc' = "serve"
               /\ sessionUp' = FALSE /\ recoveryCleared' = TRUE
               /\ quiet' = "window"
  /\ UNCHANGED <<logEnabled, needIgnCycle, sessionMiss, estabTries, slabsPoll,
                 bridgeVars, linkVars, spillVars, calls, boots>>

-----------------------------------------------------------------------------
(***************************************************************************)
(* The pages, wherever server.handleClient is called.                      *)
(***************************************************************************)
Page ==
  /\ calls < MaxCalls
  /\ calls' = calls + 1
  /\ UNCHANGED <<pc, tries, linkVars, spillVars, boots>>

ScanKeepsCleared ==  \* mutant: a scan leaves the recovery as it was
  /\ Page
  /\ TearDown(open \union Modules)
  /\ sessionUp' = FALSE
  /\ estabTries' = 0 /\ needIgnCycle' = FALSE
  /\ UNCHANGED <<logEnabled, recoveryCleared, sessionMiss, quiet, slabsPoll, bridgeVars>>

(* handleScan asks neither for the bridge mode nor for a cycle under way. *)
HandleScan ==
  /\ Page
  /\ TearDown(open \union Modules)
  /\ sessionUp' = FALSE
  /\ recoveryCleared' = FALSE /\ estabTries' = 0 /\ needIgnCycle' = FALSE
  /\ UNCHANGED <<logEnabled, sessionMiss, quiet, slabsPoll, bridgeVars>>

HandleLogOff ==
  /\ Page
  /\ TearDown(open)
  /\ logEnabled' = FALSE /\ sessionUp' = FALSE /\ recoveryCleared' = TRUE
  /\ UNCHANGED <<needIgnCycle, sessionMiss, estabTries, quiet, slabsPoll, bridgeVars>>

HandleLogOn ==
  /\ Page
  /\ logEnabled' = TRUE
  /\ Resume
  /\ UNCHANGED <<sessionUp, sessionMiss, slabsPoll, bridgeVars, busVars>>

(* The first command of a host, or the page, closes the node's session. *)
BridgeEnter ==
  /\ IF bridgeMode THEN UNCHANGED <<sessionUp, recoveryCleared>>
     ELSE sessionUp' = FALSE /\ recoveryCleared' = TRUE
  /\ bridgeMode' = TRUE
  /\ hostIdle' = FALSE
  /\ UNCHANGED <<logEnabled, needIgnCycle, sessionMiss, estabTries, quiet>>

HandleBridgeOn ==
  /\ Page
  /\ BridgeEnter
  /\ bridgeSticky' = TRUE
  /\ IF bridgeMode THEN UNCHANGED busVars ELSE TearDown(open)
  /\ UNCHANGED slabsPoll

HandleBridgeOff ==
  /\ Page
  /\ BridgeExit
  /\ UNCHANGED <<slabsPoll, busVars>>

HandleSlabsPoll ==
  /\ Page
  /\ slabsPoll' = ~slabsPoll
  /\ UNCHANGED <<sessionVars, bridgeVars, busVars>>

(***************************************************************************)
(* From the loop only: a host's line, which may open links (INIT, TX) or   *)
(* close them (STOP), and the start of an upload.                          *)
(***************************************************************************)
BridgeHandle ==
  /\ pc = "serve"
  /\ Page
  /\ BridgeEnter
  /\ open' \in SUBSET (open \union Modules) /\ bus' = "used"
  /\ UNCHANGED <<bridgeSticky, slabsPoll>>

(* A failed upload leaves the logging off and the link open. *)
OtaStarts ==
  /\ pc = "serve"
  /\ Page
  /\ logEnabled' = FALSE /\ sessionUp' = FALSE
  /\ UNCHANGED <<recoveryCleared, needIgnCycle, sessionMiss, estabTries, quiet,
                 slabsPoll, bridgeVars, busVars>>

-----------------------------------------------------------------------------
(* Time passes the end of a silence. *)
QuietEnds ==
  /\ quiet # "none"
  /\ quiet' = "none"
  /\ bus' = IF quiet = "window" /\ bus = "torn" THEN "quiet" ELSE bus
  /\ UNCHANGED <<pc, logEnabled, sessionUp, recoveryCleared, needIgnCycle,
                 sessionMiss, estabTries, slabsPoll, tries, bridgeVars, open,
                 linkVars, spillVars, calls, boots>>

HostGoesQuiet ==
  /\ bridgeMode /\ ~hostIdle
  /\ hostIdle' = TRUE
  /\ UNCHANGED <<pc, sessionVars, slabsPoll, tries, bridgeMode, bridgeSticky,
                 busVars, linkVars, spillVars, calls, boots>>

NodeStep ==
  \/ LoopInBridge \/ FlushSpill
  \/ Recover \/ Establish
  \/ BeginCycle \/ CycleRead \/ CycleMissed \/ CyclePost
  \/ BeginExcursion \/ Excursion

Time == QuietEnds \/ HostGoesQuiet

Next ==
  \/ NodeStep \/ WgStart
  \/ HandleScan \/ HandleLogOff \/ HandleLogOn
  \/ HandleBridgeOn \/ HandleBridgeOff \/ HandleSlabsPoll
  \/ BridgeHandle \/ OtaStarts
  \/ Time \/ Reboot

(***************************************************************************)
(* The loop runs and time passes; nothing is assumed of the car, the host, *)
(* the user or the uplink.                                                 *)
(***************************************************************************)
Spec == Init /\ [][Next]_vars /\ WF_vars(NodeStep) /\ WF_vars(Time)

-----------------------------------------------------------------------------
TypeOK ==
  /\ pc \in {"serve", "read", "post", "settle"}
  /\ {logEnabled, sessionUp, recoveryCleared, needIgnCycle, slabsPoll, bridgeMode,
      bridgeSticky, hostIdle, clock, wgUp} \subseteq BOOLEAN
  /\ sessionMiss \in 0 .. MissGrace - 1
  /\ estabTries \in 0 .. IgnHintAfter
  /\ quiet \in {"none", "window", "boot"}
  /\ tries \in 0 .. SlabsTries
  /\ open \subseteq Modules
  /\ bus \in {"torn", "quiet", "tried", "used"}
  /\ spill \in Seq(1 .. MaxSeconds) /\ Len(spill) <= SpillMax
  /\ spillOffset \in 0 .. Len(spill)
  /\ made \in 0 .. MaxSeconds
  /\ influx \subseteq 1 .. MaxSeconds
  /\ owed \subseteq 1 .. MaxSeconds
  /\ calls \in 0 .. MaxCalls /\ boots \in 0 .. MaxBoots

(***************************************************************************)
(* "a drive out of hotspot range isn't lost": every second that had a      *)
(* point with a time, not dropped by the full file, has a point in the     *)
(* database or in the part of the file still to be sent, through lost      *)
(* answers, part of a chunk written, outages and reboots.  Of two points   *)
(* of one second the database keeps one.                                   *)
(***************************************************************************)
SecondsAreKept ==
  owed \subseteq influx \union ToSet(SubSeq(spill, spillOffset + 1, Len(spill)))

(***************************************************************************)
(* "send the teardown ONCE, then keep the bus SILENT": a TD5 init of the   *)
(* recovery follows a teardown and a silence in which the node sent        *)
(* nothing but earlier inits of the same recovery, whatever page was       *)
(* served in the middle of what.  It is not so of an excursion's SLABS     *)
(* init, which follows at once the frames of a page served in its silence. *)
(***************************************************************************)
RecoveryInitAfterSilence ==
  Ticks /\ ~sessionUp /\ recoveryCleared /\ quiet = "none"
    => bus \in {"quiet", "tried"}

(***************************************************************************)
(* A node that logs does not stay in a recovery nobody is told of: it is   *)
(* in session again, or asks for the ignition to be cycled, again and      *)
(* again once the pages are left alone, and a host that has left does not  *)
(* keep the bus.                                                           *)
(***************************************************************************)
RecoverySettles ==
  []<>(sessionUp \/ needIgnCycle \/ ~logEnabled \/ (bridgeMode /\ bridgeSticky))

=============================================================================
