----------------------------- MODULE DiagServer -----------------------------
(***************************************************************************)
(* The dashboard server (web/server.py) over its data sources              *)
(* (web/sources.py): HTTP threads put commands in a queue; one poller      *)
(* thread owns the K-line, drains the queue, then polls the active source, *)
(* connecting it first when it has no session.  A queued command           *)
(* interrupts the sleeps of that connection.                               *)
(*                                                                         *)
(* Reads of a connected source and the writes of a command are one         *)
(* exchange each.  The session objects and the scan are those of           *)
(* EcuSession and FaultScan.                                               *)
(***************************************************************************)
EXTENDS FaultScan

CONSTANTS
  Tabs,      \* modules with a live and a mock source
  Live, Mock,
  NoData,
  MaxCmds    \* bound: commands the browsers send

ASSUME ServerAssumption ==
  /\ Tabs \subseteq Modules \ SlowInit
  /\ Tabs # {}
  /\ Live # Mock
  /\ NoData \notin Tabs \X {Live, Mock}
  /\ MaxCmds \in Nat

VARIABLES
  pc,       \* where the poller is in its loop
  active,   \* _active: the module whose tab is shown
  mode,     \* _mode: live or mock sources
  tab,      \* the module the running poll was started for
  handles,  \* live sources that hold a session (source._td5, _slabs)
  lingering, \* tabs of dropped session objects whose transport is still open
  latest,   \* the snapshot the browsers are sent
  stop,     \* _stop is set
  queue,    \* _commands: ids, oldest first
  act,      \* what each command asks for
  stage,    \* new, queued, running, done (holder["event"] is set)
  told,     \* what the HTTP thread of each command has replied
  running,  \* the command the poller is at, 0 if none
  overdue   \* inits sent while a command waited (history)

pollVars == <<active, mode, tab, handles, latest>>
cmdVars == <<queue, act, stage, told, running>>
vars == <<busVars, pc, pollVars, lingering, stop, cmdVars, overdue>>

Ids == 1 .. MaxCmds
Modes == {Live, Mock}

Acts ==
  [op : {"select"}, arg : Tabs \cup {NoModule}] \cup
  [op : {"mode"}, arg : Modes] \cup
  [op : {"scan", "write"}, arg : {NoModule}]

Snapshots == [module : Tabs, mode : Modes,
              status : {"connecting", "connected", "error"},
              data : (Tabs \X Modes) \cup {NoData}]

Init ==
  /\ ScanInit
  /\ pc = "drain"
  /\ active \in Tabs
  /\ mode \in Modes
  /\ tab = active
  /\ handles = {}
  /\ lingering = {}
  /\ latest = [module |-> active, mode |-> mode,
               status |-> "connecting", data |-> NoData]
  /\ stop = FALSE
  /\ queue = <<>>
  /\ act = [i \in Ids |-> [op |-> "write", arg |-> NoModule]]
  /\ stage = [i \in Ids |-> "new"]
  /\ told = [i \in Ids |-> "nothing"]
  /\ running = 0
  /\ overdue = 0

-----------------------------------------------------------------------------
(***************************************************************************)
(* HTTP threads (enqueue_command).                                         *)
(***************************************************************************)
Submit(i, a) ==
  /\ stage[i] = "new"
  /\ \A j \in 1 .. i - 1 : stage[j] # "new"
  /\ act' = [act EXCEPT ![i] = a]
  /\ stage' = [stage EXCEPT ![i] = "queued"]
  /\ told' = [told EXCEPT ![i] = "waiting"]
  /\ queue' = Append(queue, i)
  /\ UNCHANGED <<busVars, pc, pollVars, stop, running, overdue, lingering>>

(***************************************************************************)
(* event.wait() returns the result, or gives up after its timeout and      *)
(* leaves the command in the queue.                                        *)
(***************************************************************************)
AnswerEarly(i) ==  \* mutant: the event is set when the command is taken
  /\ told[i] = "waiting"
  /\ told' = [told EXCEPT ![i] = IF stage[i] \in {"running", "done"}
                                 THEN "result" ELSE "timeout"]
  /\ UNCHANGED <<busVars, pc, pollVars, stop, queue, act, stage, running,
                 overdue, lingering>>

AnswerCancels(i) ==  \* mutant: giving up takes the command out of the queue
  /\ told[i] = "waiting"
  /\ told' = [told EXCEPT ![i] = IF stage[i] = "done" THEN "result"
                                                      ELSE "timeout"]
  /\ queue' = SelectSeq(queue, LAMBDA j : j # i)
  /\ UNCHANGED <<busVars, pc, pollVars, stop, act, stage, running,
                 overdue, lingering>>

Answer(i) ==
  /\ told[i] = "waiting"
  /\ told' = [told EXCEPT ![i] = IF stage[i] = "done" THEN "result"
                                                      ELSE "timeout"]
  /\ UNCHANGED <<busVars, pc, pollVars, stop, queue, act, stage, running,
                 overdue, lingering>>

(***************************************************************************)
(* stop(): the main thread leaves serve_forever.                           *)
(***************************************************************************)
Stop ==
  /\ ~stop
  /\ stop' = TRUE
  /\ UNCHANGED <<busVars, pc, pollVars, cmdVars, overdue, lingering>>

-----------------------------------------------------------------------------
(***************************************************************************)
(* _drain_commands takes one command.  A switch of module or mode and a    *)
(* scan first disconnect the active source, which releases its session.    *)
(***************************************************************************)
Connected == mode = Live /\ active \in handles

DisconnectsOnSwitch(a) ==  \* mutant: a scan keeps the active session
  \/ a.op = "select" /\ a.arg \in Tabs \ {active}
  \/ a.op = "mode" /\ a.arg # mode

Disconnects(a) ==
  \/ a.op = "select" /\ a.arg \in Tabs \ {active}
  \/ a.op = "mode" /\ a.arg # mode
  \/ a.op = "scan"

TakeCommand ==
  /\ pc = "drain"
  /\ queue # <<>>
  /\ running' = Head(queue)
  /\ queue' = Tail(queue)
  /\ stage' = [stage EXCEPT ![Head(queue)] = "running"]
  /\ overdue' = 0
  /\ IF Disconnects(act[Head(queue)]) /\ Connected
     THEN /\ pc' = "disconnect"
          /\ cur' = active
          /\ phase' = "ending"
     ELSE /\ pc' = "apply"
          /\ UNCHANGED <<cur, phase>>
  /\ UNCHANGED <<try, ports, linkDue, sessDue, settled, scanVars, pollVars,
                 stop, act, told, lingering>>

Disconnect ==
  /\ pc = "disconnect"
  /\ \/ ReleaseStep /\ UNCHANGED <<pc, handles>>
     \/ Close /\ pc' = "apply" /\ handles' = handles \ {active}
  /\ UNCHANGED <<scanVars, active, mode, tab, latest, stop, cmdVars,
                 overdue, lingering>>

Finish ==
  /\ stage' = [stage EXCEPT ![running] = "done"]
  /\ running' = 0
  /\ pc' = "drain"
  /\ UNCHANGED <<queue, act, told, stop, overdue, lingering, tab, handles>>

Blank(m, x) == [module |-> m, mode |-> x,
                status |-> "connecting", data |-> NoData]

ApplySelectRelabels ==  \* mutant: only the label of the snapshot changes
  /\ pc = "apply"
  /\ act[running].op = "select"
  /\ LET m == act[running].arg IN
       IF m \in Tabs \ {active}
       THEN /\ active' = m
            /\ latest' = [latest EXCEPT !.module = m]
       ELSE UNCHANGED <<active, latest>>
  /\ Finish
  /\ UNCHANGED <<busVars, mode>>

ApplySelect ==
  /\ pc = "apply"
  /\ act[running].op = "select"
  /\ LET m == act[running].arg IN
       IF m \in Tabs \ {active}
       THEN /\ active' = m
            /\ latest' = Blank(m, latest.mode)
       ELSE UNCHANGED <<active, latest>>
  /\ Finish
  /\ UNCHANGED <<busVars, mode>>

ApplyMode ==
  /\ pc = "apply"
  /\ act[running].op = "mode"
  /\ LET x == act[running].arg IN
       IF x # mode
       THEN /\ mode' = x
            /\ latest' = Blank(active, x)
       ELSE UNCHANGED <<mode, latest>>
  /\ Finish
  /\ UNCHANGED <<busVars, active>>

(***************************************************************************)
(* source.command: refused without a session, else an exchange whose       *)
(* failure is the command's result.                                        *)
(***************************************************************************)
ApplyWrite ==
  /\ pc = "apply"
  /\ act[running].op = "write"
  /\ settled' = (settled /\ ~Connected)
  /\ Finish
  /\ UNCHANGED <<cur, phase, try, ports, linkDue, sessDue, scanVars,
                 active, mode, latest>>

ApplyScan ==
  /\ pc = "apply"
  /\ act[running].op = "scan"
  /\ IF mode = Live
     THEN /\ BeginScan
          /\ pc' = "scan"
          /\ UNCHANGED <<cmdVars, stop, overdue, lingering, tab, handles>>
     ELSE Finish /\ UNCHANGED busVars
  /\ UNCHANGED <<active, mode, latest>>

RunScan ==
  /\ pc = "scan"
  /\ \/ ScanStep /\ UNCHANGED <<pc, cmdVars, stop, overdue, lingering, tab, handles>>
     \/ ScanReturn /\ Finish
  /\ UNCHANGED <<active, mode, latest>>

-----------------------------------------------------------------------------
(***************************************************************************)
(* The queue is empty: poll the active source.                             *)
(***************************************************************************)
BeginPoll ==
  /\ pc = "drain"
  /\ queue = <<>>
  /\ tab' = active
  /\ pc' = "poll"
  /\ UNCHANGED <<busVars, active, mode, handles, latest, stop, cmdVars,
                 overdue, lingering>>

(***************************************************************************)
(* poll() returned: label the snapshot and show it.                        *)
(***************************************************************************)
Publish(status) ==
  /\ latest' = [module |-> tab, mode |-> mode, status |-> status,
                data |-> IF status = "connected" THEN <<active, mode>>
                                                 ELSE NoData]
  /\ pc' = "wait"
  /\ UNCHANGED <<active, mode, tab, stop, cmdVars, overdue>>

PollMock ==
  /\ pc = "poll"
  /\ mode = Mock
  /\ Publish("connected")
  /\ UNCHANGED <<busVars, handles, lingering>>

(***************************************************************************)
(* _connect: progress shows "connecting"; a port that cannot be found or   *)
(* opened is an error snapshot.                                            *)
(***************************************************************************)
OpenSource ==
  /\ pc = "poll"
  /\ mode = Live
  /\ active \notin handles
  /\ \/ /\ Open(active)
        /\ pc' = "connect"
        /\ latest' = [latest EXCEPT !.module = active,
                                    !.status = "connecting"]
        /\ UNCHANGED <<active, mode, tab, stop, cmdVars, overdue>>
     \/ Publish("error") /\ UNCHANGED sessionVars
  /\ UNCHANGED <<scanVars, handles, lingering>>

(***************************************************************************)
(* The injected sleep (_connect_sleep): it raises as soon as a command is  *)
(* queued and returns early when the server stops; otherwise it lasts its  *)
(* time with the queue empty.                                              *)
(***************************************************************************)
ConnectSleepDeaf ==  \* mutant: plain time.sleep
  Settle(TRUE) \/ Quiet(TRUE) \/ Confirm

ConnectSleepReturns ==  \* mutant: a queued command ends the sleep only
  \/ Settle(queue = <<>>)
  \/ Quiet(queue = <<>>)
  \/ Confirm

ConnectSleep ==
  \/ queue # <<>> /\ SleepRaises
  \/ queue = <<>> /\ (Settle(TRUE) \/ Quiet(TRUE) \/ Confirm)
  \/ stop /\ (Settle(FALSE) \/ Quiet(FALSE) \/ Confirm)

Connect ==
  /\ pc = "connect"
  /\ Exchange \/ ConnectSleep
  /\ overdue' = IF phase = "init" /\ queue # <<>> THEN overdue + 1
                                                  ELSE overdue
  /\ UNCHANGED <<scanVars, pc, pollVars, lingering, stop, cmdVars>>

(***************************************************************************)
(* establish() returned: the source keeps the session and reads.           *)
(***************************************************************************)
Adopt ==
  /\ pc = "connect"
  /\ phase = "up"
  /\ phase' = "none"
  /\ cur' = NoModule
  /\ try' = 0
  /\ handles' = handles \cup {active}
  /\ pc' = "poll"
  /\ UNCHANGED <<ports, linkDue, sessDue, settled, scanVars,
                 active, mode, tab, latest, stop, cmdVars, overdue, lingering>>

(***************************************************************************)
(* establish() raised inside _connect (or, for SLABS, the signal store did *)
(* after it): the source never got the object, so the except clause of     *)
(* poll has nothing to release and the object is dropped.  Its transport   *)
(* closes with it, unless an attempt had failed before: then "last = exc"  *)
(* of _establish makes a cycle of the exception, its traceback and the     *)
(* frame that holds the object, and the transport stays open until the     *)
(* cyclic collector runs.  (The model allows the cycle after any failure   *)
(* and the collector to run here, which is all that can be seen of it.)    *)
(***************************************************************************)
AbandonKeepsObject ==  \* mutant: the failed object stays in use
  /\ pc = "connect"
  /\ phase = "failed"
  /\ phase' = "none"
  /\ try' = 0
  /\ ports' = ports \ {cur}
  /\ Publish("error")
  /\ UNCHANGED <<cur, linkDue, sessDue, settled, scanVars, handles, lingering>>

Abandon ==
  /\ pc = "connect"
  /\ phase = "failed" \/ (phase = "up" /\ active \in Confirming)
  /\ phase' = "none"
  /\ cur' = NoModule
  /\ try' = 0
  /\ ports' = ports \ {cur}
  /\ lingering' \in SUBSET (lingering \cup {cur})
  /\ Publish("error")
  /\ UNCHANGED <<linkDue, sessDue, settled, scanVars, handles>>

(***************************************************************************)
(* The reads of a connected source: a snapshot, or a lost contact, after   *)
(* which the session is released and the snapshot says error.              *)
(***************************************************************************)
ReadSourceCloses ==  \* mutant: close() in place of release()
  /\ pc = "poll"
  /\ Connected
  /\ settled' = FALSE
  /\ \/ Publish("connected") /\ UNCHANGED <<cur, phase>>
     \/ /\ cur' = active
        /\ phase' = "closing"
        /\ pc' = "lose"
        /\ UNCHANGED <<active, mode, tab, latest, stop, cmdVars, overdue>>
  /\ UNCHANGED <<try, ports, linkDue, sessDue, scanVars, handles, lingering>>

ReadSource ==
  /\ pc = "poll"
  /\ Connected
  /\ settled' = FALSE
  /\ \/ Publish("connected") /\ UNCHANGED <<cur, phase>>
     \/ /\ cur' = active
        /\ phase' = "ending"
        /\ pc' = "lose"
        /\ UNCHANGED <<active, mode, tab, latest, stop, cmdVars, overdue>>
  /\ UNCHANGED <<try, ports, linkDue, sessDue, scanVars, handles, lingering>>

Lose ==
  /\ pc = "lose"
  /\ \/ /\ ReleaseStep
        /\ UNCHANGED <<pc, pollVars, stop, cmdVars, overdue>>
     \/ /\ Close
        /\ handles' = handles \ {active}
        /\ Publish("error")
  /\ UNCHANGED <<scanVars, lingering>>

(***************************************************************************)
(* The pause between polls; the loop ends when the server stops.           *)
(***************************************************************************)
Wait ==
  /\ pc = "wait"
  /\ pc' = IF stop THEN "exit" ELSE "drain"
  /\ UNCHANGED <<busVars, pollVars, stop, cmdVars, overdue, lingering>>

Poller ==
  \/ TakeCommand \/ Disconnect
  \/ ApplySelect \/ ApplyMode \/ ApplyWrite \/ ApplyScan \/ RunScan
  \/ BeginPoll \/ PollMock \/ OpenSource \/ Connect \/ Adopt \/ Abandon
  \/ ReadSource \/ Lose \/ Wait

Next ==
  \/ Poller
  \/ \E i \in Ids : \E a \in Acts : Submit(i, a)
  \/ \E i \in Ids : Answer(i)
  \/ Stop

(***************************************************************************)
(* WF: the poller is a thread that is scheduled; every exchange has a      *)
(* timeout and every sleep an end.  Browsers owe nothing.                  *)
(***************************************************************************)
Spec == Init /\ [][Next]_vars /\ WF_vars(Poller)

-----------------------------------------------------------------------------
(***************************************************************************)
(* The types of the server, its sources and the bus.                       *)
(***************************************************************************)
Locations == {"drain", "disconnect", "apply", "scan", "poll", "connect",
              "lose", "wait", "exit"}

TypeOK ==
  /\ ScanTypeOK
  /\ pc \in Locations
  /\ active \in Tabs
  /\ mode \in Modes
  /\ tab \in Tabs
  /\ handles \subseteq Tabs
  /\ lingering \subseteq Tabs
  /\ latest \in Snapshots
  /\ stop \in BOOLEAN
  /\ queue \in Seq(Ids)
  /\ act \in [Ids -> Acts]
  /\ stage \in [Ids -> {"new", "queued", "running", "done"}]
  /\ told \in [Ids -> {"nothing", "waiting", "result", "timeout"}]
  /\ running \in 0 .. MaxCmds
  /\ overdue \in Nat

(***************************************************************************)
(* The K-line is one shared wire: whatever is polled, switched or scanned, *)
(* and whatever fails, at most one session object in use has an open       *)
(* transport (_select, "only one session at a time"), and that is the one  *)
(* a source holds or whose method runs.  Any other port that is open       *)
(* belongs to an abandoned connection that the collector has not reached   *)
(* yet (lingering): the code does leave such ports.                        *)
(***************************************************************************)
OnePortInUse ==
  /\ \A m, n \in ports : m = n
  /\ ports \subseteq handles \cup {cur}

(***************************************************************************)
(* A session that a source holds ends with 20 and 82 before its transport  *)
(* closes: on a module switch, a mode switch, a scan and a lost contact.   *)
(***************************************************************************)
HeldSessionReleased ==
  [][\A m \in handles \ handles' : m \notin linkDue' \cup sessDue' \cup ports']_vars

(***************************************************************************)
(* A link that an abandoned connection left open is cleared before the     *)
(* next session object sends its first fast init.  (The Airbag's slow init *)
(* is not preceded by an 82.)                                              *)
(***************************************************************************)
StaleLinkCleared ==
  phase = "init" /\ try = 0 /\ cur \notin SlowInit => linkDue = {}

(***************************************************************************)
(* As InitAfterSilence, for every caller, while the server runs: no frame  *)
(* goes out between a sleep and the next init, however short that sleep.   *)
(***************************************************************************)
QuietBeforeInit == phase = "init" => settled \/ stop

(***************************************************************************)
(* A waiting command, such as a module switch, stops the connection it     *)
(* waits for: one more init at most goes out first (_connect_sleep).       *)
(***************************************************************************)
WaitingCommandAborts == overdue <= 1 \/ stop

(***************************************************************************)
(* The signals shown are labelled with the module and mode of the source   *)
(* they were read from.                                                    *)
(***************************************************************************)
SignalsLabelled == latest.data \in {NoData, <<latest.module, latest.mode>>}

(***************************************************************************)
(* The commands are served as CommandService promises.                     *)
(***************************************************************************)
Service == INSTANCE CommandService

ServesCommands == Service!ServiceSpec

(***************************************************************************)
(* Every command that is queued runs, also while a module does not answer, *)
(* unless the server is stopped.                                           *)
(***************************************************************************)
CommandsRun ==
  \A i \in Ids : stage[i] = "queued" ~> (stage[i] = "done" \/ stop)

=============================================================================
