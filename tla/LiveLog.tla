-------------------------------- MODULE LiveLog --------------------------------
(***************************************************************************)
(* What the poll loop writes down (web/server.py _poll_loop, web/logger.py)*)
(* while HTTP threads start and stop the recording: the connection log,    *)
(* the snapshot journal and the CSV files.  The recorder is shared with    *)
(* the HTTP threads; the loop looks at it three times a round.  The disk   *)
(* may refuse any line; the loop swallows that, and what it remembers of   *)
(* its logs is set before or whether or not the line is in the file.       *)
(***************************************************************************)
EXTENDS Naturals, SequencesExt

CONSTANTS
  Tabs,          \* modules with a tab
  FaultLists,    \* fault lists a snapshot may carry, NoFaults among them
  NoFaults,
  Phases,        \* what a source reports while it connects
  MayFail,       \* lines the disk may refuse, see Lines
  MaxRecordings, \* bound: recordings of one behaviour
  MaxCalls,       \* bound: calls of CsvLogger.log
  MaxTurns       \* bound: rotations of one recording

Lines == {"header", "row", "journal", "connlog"}

ASSUME LiveLogAssumption ==
  /\ Tabs # {}
  /\ NoFaults \in FaultLists
  /\ MayFail \subseteq Lines
  /\ MaxRecordings \in Nat \ {0}
  /\ MaxCalls \in Nat
  /\ MaxTurns \in Nat

VARIABLES
  pc,        \* where the poller is in its round
  tab,       \* _active, and so the module the snapshot is labelled with
  snap,      \* the snapshot of this round, Blank between rounds
  csv,       \* _csv: the number of the recording, 0 if none
  last,      \* the number of the latest recording
  taken,     \* the poller's local reference csv_log
  recorder,  \* recording -> its CsvLogger object
  files,     \* CSV file -> module of its last header and of the last row
             \* under that header
  headless,  \* CSV files for which the last header was refused
  told,      \* recording -> rows that stop_csv reported
  journal,   \* _last_faults: the faults of the last line tried
  journalfile, \* the faults of the journal's last line, Missing if a line
             \* after it was refused
  calls,     \* calls of CsvLogger.log (bound)
  quiet,     \* min_interval has not passed since the last line tried, and
             \* the anomalies are those of that line
  connlog,   \* _last_conn_status: module and status of the last transition
  phase,     \* _last_phase_logged
  connfile   \* the connection log's last line: its module, or Missing

recVars == <<csv, last, recorder, told>>
connVars == <<connlog, phase, connfile>>
noteVars == <<journal, journalfile, quiet, connVars>>
fileVars == <<files, headless, calls>>
vars == <<pc, tab, snap, taken, recVars, fileVars, noteVars>>

Recordings == 1 .. MaxRecordings
None == "none"

Snapshots == [module : Tabs, status : {"connected", "error"},
              signals : BOOLEAN, faults : FaultLists]
Blank == [module |-> None, status |-> None, signals |-> FALSE, faults |-> None]
Keys == [module : Tabs \cup {None}, status : {"connected", "error", None}]
Key(s) == [module |-> s.module, status |-> s.status]

(***************************************************************************)
(* A log whose last line was refused does not tell what it was to tell.    *)
(***************************************************************************)
Missing == "missing"
WriteOutcomes(what) == IF what \in MayFail THEN BOOLEAN ELSE {TRUE}
LastLine(what, line) == {IF written THEN line ELSE Missing : written \in WriteOutcomes(what)}

(***************************************************************************)
(* A CsvLogger.  Its file is named by the second the recording started in  *)
(* and the modules it rotated to; columns are known by their module.       *)
(***************************************************************************)
Turns == BoundedSeq(Tabs, MaxTurns + 1)
Paths == [start : Recordings, suffix : Turns]
NewLogger(start) == [path |-> [start |-> start, suffix |-> <<>>],
                     columns |-> None, module |-> None, rows |-> 0]
Loggers == [path : Paths, columns : Tabs \cup {None}, module : Tabs \cup {None},
            rows : 0 .. MaxCalls]

TypeOK ==
  /\ pc \in {"drain", "poll", "publish", "status", "note", "take", "record", "dead"}
  /\ tab \in Tabs
  /\ snap \in Snapshots \cup {Blank}
  /\ csv \in {0, last}
  /\ last \in Recordings \cup {0}
  /\ taken \in 0 .. last
  /\ recorder \in [Recordings -> Loggers]
  /\ \A f \in Paths :
       /\ files[f].header \in Tabs \cup {None}
       /\ files[f].row \in Tabs \cup {None}
  /\ headless \subseteq Paths
  /\ told \in [Recordings -> 0 .. MaxCalls]
  /\ journal \in FaultLists \cup {None}
  /\ journalfile \in FaultLists \cup {None, Missing}
  /\ calls \in 0 .. MaxCalls
  /\ quiet \in BOOLEAN
  /\ connlog \in Keys
  /\ phase \in Phases \cup {None}
  /\ connfile \in Tabs \cup {None, Missing}

Init ==
  /\ pc = "drain"
  /\ tab \in Tabs
  /\ snap = Blank
  /\ csv = 0
  /\ last = 0
  /\ taken = 0
  /\ recorder = [r \in Recordings |-> NewLogger(r)]
  /\ files = [f \in Paths |-> [header |-> None, row |-> None]]
  /\ headless = {}
  /\ told = [r \in Recordings |-> 0]
  /\ journal = None
  /\ journalfile = None
  /\ calls = 0
  /\ quiet = FALSE
  /\ connlog = Key(Blank)
  /\ phase = None
  /\ connfile = None

-----------------------------------------------------------------------------
StartUncounted ==  \* mutant: the new recording is not made the latest
  /\ csv = 0
  /\ last < MaxRecordings
  /\ csv' = last + 1
  /\ recorder' = [recorder EXCEPT ![last + 1] = NewLogger(last + 1)]
  /\ UNCHANGED <<pc, tab, snap, taken, last, told, fileVars, noteVars>>

(***************************************************************************)
(* HTTP threads (inline commands, under _csv_lock).  Two recordings that   *)
(* start in the same second have one file name.                            *)
(***************************************************************************)
StartCsv ==
  /\ csv = 0
  /\ last < MaxRecordings
  /\ last' = last + 1
  /\ csv' = last'
  /\ \E start \in {last, last'} \ {0} :
       recorder' = [recorder EXCEPT ![last'] = NewLogger(start)]
  /\ UNCHANGED <<pc, tab, snap, taken, told, fileVars, noteVars>>

StopCsv ==
  /\ csv # 0
  /\ told' = [told EXCEPT ![csv] = recorder[csv].rows]
  /\ csv' = 0
  /\ UNCHANGED <<pc, tab, snap, taken, last, recorder, fileVars, noteVars>>

(* enqueue_command runs these two at once, not behind the poller. *)
Inline == StartCsv \/ StopCsv

-----------------------------------------------------------------------------
(***************************************************************************)
(* A line of the connection log, stamped with a module.  A refused one is  *)
(* swallowed, and its caller remembers it as logged.                       *)
(***************************************************************************)
ConnLog(module) == connfile' \in LastLine("connlog", module)

(***************************************************************************)
(* The poller's round: drain the queue (a switch of the tab), poll.  While *)
(* poll connects, the source reports its phases; one that repeats the last *)
(* is not logged again.                                                    *)
(***************************************************************************)
Drain ==
  /\ pc = "drain"
  /\ tab' \in Tabs
  /\ pc' = "poll"
  /\ UNCHANGED <<snap, taken, recVars, fileVars, noteVars>>

Progress ==
  /\ pc = "poll"
  /\ phase' \in Phases \ {phase}
  /\ ConnLog(tab)
  /\ UNCHANGED <<pc, tab, snap, taken, recVars, fileVars, journal, journalfile,
                 quiet, connlog>>

(***************************************************************************)
(* An error carries neither signals nor faults; a source may be connected  *)
(* and have no signals yet (SLABS before its first answer).                *)
(***************************************************************************)
Poll ==
  /\ pc = "poll"
  /\ snap' \in {s \in Snapshots :
                  /\ s.module = tab
                  /\ s.status = "error" => ~s.signals /\ s.faults = NoFaults}
  /\ quiet' \in {quiet, FALSE}
  /\ pc' = "publish"
  /\ UNCHANGED <<tab, taken, recVars, fileVars, journal, journalfile,
                 connVars>>

(***************************************************************************)
(* self._csv.status() if self._csv is not None else ...: two looks at      *)
(* _csv.  Outside the try: an AttributeError ends the thread.              *)
(***************************************************************************)
LookForRecorder ==
  /\ pc = "publish"
  /\ pc' = IF csv # 0 THEN "status" ELSE "note"
  /\ UNCHANGED <<tab, snap, taken, recVars, fileVars, noteVars>>

RecorderStatus ==
  /\ pc = "status"
  /\ pc' = IF csv # 0 THEN "note" ELSE "dead"
  /\ UNCHANGED <<tab, snap, taken, recVars, fileVars, noteVars>>

(***************************************************************************)
(* _log_conn_transition, self.latest = snap, SnapshotLogger.log.  An error *)
(* with another text is logged again.                                      *)
(***************************************************************************)
TransitionByStatus ==  \* mutant: the transition is keyed on the status alone
  IF connlog.status = snap.status
  THEN UNCHANGED connVars
  ELSE /\ connlog' = Key(snap)
       /\ ConnLog(snap.module)
       /\ phase' = None

LogTransition ==
  \/ /\ connlog = Key(snap)
     /\ UNCHANGED connVars
  \/ /\ connlog # Key(snap) \/ snap.status = "error"
     /\ connlog' = Key(snap)
     /\ ConnLog(snap.module)
     /\ phase' = None

(***************************************************************************)
(* The memory of the journal's last line is set before the line is tried.  *)
(***************************************************************************)
SnapshotLog ==
  IF journal = snap.faults /\ quiet
  THEN UNCHANGED <<journal, journalfile, quiet>>
  ELSE /\ journal' = snap.faults
       /\ quiet' = TRUE
       /\ journalfile' \in LastLine("journal", snap.faults)

Note ==
  /\ pc = "note"
  /\ LogTransition
  /\ SnapshotLog
  /\ pc' = "take"
  /\ UNCHANGED <<tab, snap, taken, recVars, fileVars>>

TakeOnce ==  \* mutant: the poller keeps the recorder it has
  /\ pc = "take"
  /\ taken' = IF taken # 0 THEN taken ELSE csv
  /\ IF taken' # 0 /\ snap.status = "connected"
     THEN pc' = "record" /\ UNCHANGED snap
     ELSE pc' = "drain" /\ snap' = Blank
  /\ UNCHANGED <<tab, recVars, fileVars, noteVars>>

TakeRecorder ==
  /\ pc = "take"
  /\ taken' = csv
  /\ IF csv # 0 /\ snap.status = "connected"
     THEN pc' = "record" /\ UNCHANGED snap
     ELSE pc' = "drain" /\ snap' = Blank
  /\ UNCHANGED <<tab, recVars, fileVars, noteVars>>

-----------------------------------------------------------------------------
(***************************************************************************)
(* CsvLogger.log.  Once the columns are locked another module rotates to   *)
(* a file of its own; without signals nothing is locked.  The columns are  *)
(* locked before the header is written.                                    *)
(***************************************************************************)
NeverRotated(logger) == logger  \* mutant: one file for the whole recording

Rotated(logger) ==
  LET suffix == logger.path.suffix
      own == logger.module # None /\ suffix # <<>> /\ Last(suffix) = logger.module
      base == IF own THEN Front(suffix) ELSE suffix
  IN IF logger.columns # None /\ logger.module # snap.module
     THEN [logger EXCEPT !.path.suffix = Append(base, snap.module),
                         !.columns = None, !.module = None]
     ELSE logger

Locked(logger) ==
  IF logger.columns = None /\ snap.signals
  THEN [logger EXCEPT !.columns = snap.module, !.module = snap.module]
  ELSE logger

Record ==
  /\ pc = "record"
  /\ calls < MaxCalls
  /\ calls' = calls + 1
  /\ \E header \in WriteOutcomes("header"), row \in WriteOutcomes("row") :
       LET turned == Rotated(recorder[taken])
           logger == Locked(turned)
           new == logger.columns # turned.columns
           file == files[logger.path]
           writes == logger.columns # None /\ (new => header) /\ row
       IN /\ Len(logger.path.suffix) <= MaxTurns + 1
          /\ recorder' = [recorder EXCEPT ![taken] =
                            IF writes THEN [logger EXCEPT !.rows = @ + 1]
                                      ELSE logger]
          /\ files' = [files EXCEPT ![logger.path] =
               [header |-> IF new /\ header THEN logger.columns ELSE file.header,
                row |-> IF writes THEN snap.module
                        ELSE IF new /\ header THEN None
                        ELSE file.row]]
          /\ headless' = IF ~new THEN headless
                         ELSE IF header THEN headless \ {logger.path}
                         ELSE headless \cup {logger.path}
  /\ pc' = "drain"
  /\ snap' = Blank
  /\ UNCHANGED <<tab, taken, csv, last, told, noteVars>>

Next ==
  \/ Inline
  \/ Drain
  \/ Progress
  \/ Poll
  \/ LookForRecorder
  \/ RecorderStatus
  \/ Note
  \/ TakeRecorder
  \/ Record

Spec == Init /\ [][Next]_vars

-----------------------------------------------------------------------------
Noted == pc \in {"take", "record"}

(***************************************************************************)
(* In every CSV file a row stands under a header of its own module,        *)
(* whatever tabs were opened while the recording ran, and when a second    *)
(* recording continues the file (logger.py 93-103), unless the disk        *)
(* refused the last header that was meant for that file.                   *)
(***************************************************************************)
RowsUnderOwnHeader ==
  \A f \in Paths \ headless : files[f].row \in {None, files[f].header}

(***************************************************************************)
(* "Columns are fixed from the first snapshot that has signals (so the CSV *)
(* is rectangular)" (logger.py 67-68): every row stands under a header     *)
(* with its columns.  The columns are locked before the header is written, *)
(* so after a header that was refused the rows go without one, or under    *)
(* that of another module.                                                 *)
(***************************************************************************)
RowsAreRectangular ==
  \A f \in Paths : files[f].row \in {None, files[f].header}

(***************************************************************************)
(* A recording that was stopped is written to at most once more, by the    *)
(* round that had already taken the recorder (server.py 776-782): what     *)
(* stop_csv reported is short by one row at most.                          *)
(***************************************************************************)
StoppedRecordingEnds ==
  \A r \in 1 .. last : r # csv => recorder[r].rows - told[r] \in {0, 1}

(***************************************************************************)
(* The files tell the state the browsers see, unless the disk refused the  *)
(* last line that was to tell it: no line is held back as a repetition of  *)
(* one that another line has followed.  A change of the fault list is in   *)
(* the journal at once, however short the time since its last line         *)
(* (logger.py 38-45); a switch from one connected module to another is a   *)
(* transition of its own (server.py 725-737), and the last line of the     *)
(* connection log is about the module on screen.                           *)
(***************************************************************************)
JournalsAreCurrent ==
  Noted => /\ journalfile \in {snap.faults, Missing}
           /\ connfile \in {snap.module, Missing}

(***************************************************************************)
(* "a CSV error must never fell the poll loop" (server.py 783, and 776 on  *)
(* stop_csv): the poller thread outlives a recording that is stopped.      *)
(***************************************************************************)
PollerSurvives == pc # "dead"

=============================================================================
