----------------------------- MODULE LiveLog_proofs -----------------------------
(***************************************************************************)
(* The logs and recordings, for every set of tabs, phases and fault lists, *)
(* whatever the disk refuses and however recordings come and go.           *)
(***************************************************************************)
EXTENDS LiveLog, SequenceTheorems, TLAPS

(***************************************************************************)
(* Between two notes the last line of the connection log may already be    *)
(* about the tab that is being connected, and no other.                    *)
(***************************************************************************)
Labelled == pc \in {"publish", "status", "note"} \/ Noted => snap.module = tab

LinesOfTab == pc \in {"poll", "publish", "status", "note"} =>
                connfile \in {connlog.module, tab, Missing}

LineOfTransition == pc \in {"drain", "take", "record"} =>
                      connfile \in {connlog.module, Missing}

Remembered == journalfile \in {journal, Missing}

Current == Noted => journal = snap.faults /\ connlog = Key(snap)

LogInv == Labelled /\ LinesOfTab /\ LineOfTransition /\ Remembered /\ Current

LEMMA LastLineIs ==
  ASSUME NEW what, NEW line, NEW l \in LastLine(what, line)
  PROVE  l \in {line, Missing}
  BY DEF LastLine

LEMMA LogStart == Init => LogInv
  BY DEF Init, LogInv, Labelled, LinesOfTab, LineOfTransition, Remembered,
         Current, Noted, Key, Blank

(***************************************************************************)
(* A noted round: whichever way the transition was logged, the last line   *)
(* is about the module of the snapshot.                                    *)
(***************************************************************************)
LEMMA NoteWritesBoth ==
  ASSUME LogInv, Note
  PROVE  LogInv'
<1>1. pc = "note" /\ pc' = "take" /\ tab' = tab /\ snap' = snap
  BY DEF Note
<1>2. snap.module = tab /\ connfile \in {connlog.module, tab, Missing}
  BY <1>1 DEF LogInv, Labelled, LinesOfTab
<1>3. journal' = snap.faults /\ journalfile' \in {journal', Missing}
  BY LastLineIs DEF Note, SnapshotLog, LogInv, Remembered
<1>4. connlog' = Key(snap) /\ connfile' \in {snap.module, Missing}
  <2>1. CASE connlog = Key(snap) /\ UNCHANGED connVars
    BY <1>2, <2>1 DEF connVars, Key
  <2>2. CASE connlog' = Key(snap) /\ ConnLog(snap.module)
    BY <2>2, LastLineIs DEF ConnLog
  <2> QED BY <2>1, <2>2 DEF Note, LogTransition
<1>5. Labelled'
  BY <1>1, <1>2 DEF Labelled
<1>6. LinesOfTab' /\ LineOfTransition' /\ Remembered' /\ Current'
  BY <1>1, <1>3, <1>4 DEF LinesOfTab, LineOfTransition, Remembered, Current, Key
<1> QED BY <1>5, <1>6 DEF LogInv

LEMMA LogStep ==
  ASSUME LogInv, [Next]_vars
  PROVE  LogInv'
<1> USE DEF LogInv, Labelled, LinesOfTab, LineOfTransition, Remembered, Current, Noted,
            noteVars, connVars
<1>1. CASE Inline
  BY <1>1 DEF Inline, StartCsv, StopCsv
<1>2. CASE Drain
  BY <1>2 DEF Drain
<1>3. CASE Progress
  BY <1>3, LastLineIs DEF Progress, ConnLog
<1>4. CASE Poll
  BY <1>4 DEF Poll
<1>5. CASE LookForRecorder
  BY <1>5 DEF LookForRecorder
<1>6. CASE RecorderStatus
  BY <1>6 DEF RecorderStatus
<1>7. CASE Note
  BY <1>7, NoteWritesBoth
<1>8. CASE TakeRecorder
  BY <1>8 DEF TakeRecorder
<1>9. CASE Record
  BY <1>9 DEF Record
<1>10. CASE UNCHANGED vars
  BY <1>10 DEF vars
<1> QED BY <1>1, <1>2, <1>3, <1>4, <1>5, <1>6, <1>7, <1>8, <1>9, <1>10 DEF Next

(***************************************************************************)
(* When a round has been noted, each log's last line is about what the     *)
(* browsers see, unless the disk refused that line: nothing was held back  *)
(* that the file does not have (SnapshotLogger.log, _log_conn_transition). *)
(***************************************************************************)
THEOREM LogsAreCurrent == Spec => []JournalsAreCurrent
<1>1. LogInv => JournalsAreCurrent
  BY DEF LogInv, LineOfTransition, Remembered, Current, Noted, Key, JournalsAreCurrent
<1> QED BY LogStart, LogStep, <1>1, PTL DEF Spec

-----------------------------------------------------------------------------
(***************************************************************************)
(* The recording.                                                          *)
(***************************************************************************)
Files == [Paths -> [header : Tabs \cup {None}, row : Tabs \cup {None}]]

(***************************************************************************)
(* A row is recorded of a snapshot that was taken with its recorder.       *)
(***************************************************************************)
Taking == /\ pc \in {"publish", "status", "note", "take"} => snap \in Snapshots
          /\ pc = "record" => taken # 0 /\ snap \in Snapshots

(***************************************************************************)
(* No recorder has more rows than there were calls.                        *)
(***************************************************************************)
RowsCounted == \A r \in Recordings : recorder[r].rows <= calls

RecordTyped == TypeOK /\ files \in Files /\ Taking /\ RowsCounted

(***************************************************************************)
(* A recorder the poller has not taken yet has written nothing.            *)
(***************************************************************************)
FreshUntilTaken ==
  \A r \in Recordings : r > last \/ (r = csv /\ r # taken) =>
    recorder[r].columns = None

(***************************************************************************)
(* The recorder in use has its header in its file, unless that was lost,   *)
(* though the file may have been written to by an earlier recording.       *)
(***************************************************************************)
HeaderInFile ==
  taken # 0 /\ recorder[taken].columns # None =>
    /\ \/ recorder[taken].path \in headless
       \/ files[recorder[taken].path].header = recorder[taken].columns
    /\ recorder[taken].module = recorder[taken].columns

RowInv == RecordTyped /\ FreshUntilTaken /\ HeaderInFile /\ RowsUnderOwnHeader

(***************************************************************************)
(* The round that holds a stopped recorder has not written its row yet.    *)
(***************************************************************************)
RowStillOwed ==
  \A r \in 1 .. last : r # csv =>
    \/ recorder[r].rows = told[r]
    \/ recorder[r].rows = told[r] + 1 /\ ~ (pc = "record" /\ taken = r)

LEMMA TurnsAre == Turns = {s \in Seq(Tabs) : Len(s) <= MaxTurns + 1}
<1> DEFINE n == MaxTurns + 1
<1>1. n \in Nat
  BY LiveLogAssumption
<1>2. Turns = UNION {[1 .. m -> Tabs] : m \in 0 .. n}
  BY DEF Turns, BoundedSeq, SeqOf
<1> HIDE DEF n
<1>3. ASSUME NEW s \in Turns PROVE s \in Seq(Tabs) /\ Len(s) <= n
  <2>1. PICK m \in 0 .. n : s \in [1 .. m -> Tabs]
    BY <1>2, <1>3
  <2>2. s \in Seq(Tabs)
    BY <1>1, <2>1, SeqDef
  <2>3. m \in Nat /\ DOMAIN s = 1 .. m /\ DOMAIN s = 1 .. Len(s) /\ Len(s) \in Nat
    BY <1>1, <2>1, <2>2, LenProperties
  <2> QED
    BY <1>1, <2>1, <2>2, <2>3
<1>4. ASSUME NEW s \in Seq(Tabs), Len(s) <= n PROVE s \in Turns
  BY <1>1, <1>2, <1>4, LenProperties
<1> QED
  BY <1>3, <1>4 DEF n

LEMMA NewLoggerTyped ==
  ASSUME NEW start \in Recordings
  PROVE  NewLogger(start) \in Loggers
<1>1. <<>> \in Turns
  BY TurnsAre, EmptySeq, LiveLogAssumption
<1>2. [start |-> start, suffix |-> <<>>] \in Paths
  BY <1>1 DEF Paths
<1>3. MaxCalls \in Nat
  BY LiveLogAssumption
<1> QED
  BY <1>2, <1>3 DEF NewLogger, Loggers

(***************************************************************************)
(* A recorder, however often it has rotated.                               *)
(***************************************************************************)
AnyLoggers == [path : [start : Recordings, suffix : Seq(Tabs)],
               columns : Tabs \cup {None}, module : Tabs \cup {None},
               rows : 0 .. MaxCalls]

(***************************************************************************)
(* log() turns to a new file only to forget the columns of the old one;    *)
(* columns that stay are those of the snapshot's module.                   *)
(***************************************************************************)
LEMMA RotatedIs ==
  ASSUME NEW logger \in Loggers, snap \in Snapshots
  PROVE  /\ Rotated(logger).path \in [start : Recordings, suffix : Seq(Tabs)]
         /\ Rotated(logger).rows = logger.rows
         /\ \/ Rotated(logger) = logger
            \/ Rotated(logger).columns = None /\ Rotated(logger).module = None
         /\ Rotated(logger).columns # None =>
              Rotated(logger) = logger /\ logger.module = snap.module
         /\ Rotated(logger).module \in Tabs \cup {None}
         /\ Rotated(logger).columns \in Tabs \cup {None}
         /\ Rotated(logger) \in AnyLoggers
<1> DEFINE suffix == logger.path.suffix
           own == logger.module # None /\ suffix # <<>> /\ Last(suffix) = logger.module
           base == IF own THEN Front(suffix) ELSE suffix
           turned == [logger EXCEPT !.path.suffix = Append(base, snap.module),
                                    !.columns = None, !.module = None]
<1>1. suffix \in Seq(Tabs) /\ snap.module \in Tabs /\ logger.path.start \in Recordings
  BY TurnsAre DEF Loggers, Paths, Snapshots
<1>2. base \in Seq(Tabs)
  <2>1. Len(suffix) \in Nat /\ \A k \in 1 .. Len(suffix) : suffix[k] \in Tabs
    BY <1>1, LenProperties, ElementOfSeq
  <2> HIDE DEF suffix
  <2>2. SubSeq(suffix, 1, Len(suffix) - 1) \in Seq(Tabs)
    BY <2>1, SubSeqProperties
  <2> QED
    BY <1>1, <2>2 DEF Front
<1> HIDE DEF base
<1>3. Append(base, snap.module) \in Seq(Tabs)
  BY <1>1, <1>2, AppendProperties
<1>4. logger \in AnyLoggers
  BY TurnsAre DEF Loggers, Paths, AnyLoggers
<1>5. /\ turned \in AnyLoggers
      /\ turned.columns = None /\ turned.module = None /\ turned.rows = logger.rows
  BY <1>3, <1>4 DEF AnyLoggers
<1>6. Rotated(logger) = IF logger.columns # None /\ logger.module # snap.module
                          THEN turned ELSE logger
  BY DEF Rotated, base
<1> HIDE DEF turned
<1> QED
  BY <1>4, <1>5, <1>6 DEF AnyLoggers

LEMMA LockedIs ==
  ASSUME NEW turned \in AnyLoggers,
         snap \in Snapshots
  PROVE  /\ Locked(turned) \in AnyLoggers
         /\ Locked(turned).path = turned.path
         /\ Locked(turned).rows = turned.rows
         /\ \/ Locked(turned) = turned
            \/ /\ turned.columns = None
               /\ Locked(turned).columns = snap.module
               /\ Locked(turned).module = snap.module
  BY DEF Locked, Snapshots, AnyLoggers

(***************************************************************************)
(* One call of log(): the recorder afterwards and the file it wrote to.    *)
(* Columns are new when they were locked in this call; columns that are    *)
(* kept are the snapshot's.                                                *)
(***************************************************************************)
LEMMA RecordDoes ==
  ASSUME RecordTyped, Record
  PROVE  /\ taken \in 1 .. last /\ taken \in Recordings /\ snap.module \in Tabs
         /\ \E logger \in Loggers, header \in WriteOutcomes("header"),
               new \in BOOLEAN, writes \in BOOLEAN :
              /\ logger.rows = recorder[taken].rows
              /\ new => logger.columns = snap.module /\ logger.module = snap.module
              /\ ~new /\ logger.columns # None =>
                   logger = recorder[taken] /\ logger.module = snap.module
              /\ writes => logger.columns # None /\ (new => header)
              /\ recorder' = [recorder EXCEPT ![taken] =
                                IF writes THEN [logger EXCEPT !.rows = @ + 1] ELSE logger]
              /\ files' = [files EXCEPT ![logger.path] =
                             [header |-> IF new /\ header THEN logger.columns
                                         ELSE files[logger.path].header,
                              row |-> IF writes THEN snap.module
                                      ELSE IF new /\ header THEN None
                                      ELSE files[logger.path].row]]
              /\ headless' = IF ~new THEN headless
                             ELSE IF header THEN headless \ {logger.path}
                             ELSE headless \cup {logger.path}
<1> DEFINE old == recorder[taken]
           turned == Rotated(old)
           logger == Locked(turned)
           new == logger.columns # turned.columns
<1>1. PICK header \in WriteOutcomes("header"), row \in WriteOutcomes("row") :
        LET writes == logger.columns # None /\ (new => header) /\ row
        IN /\ Len(logger.path.suffix) <= MaxTurns + 1
           /\ recorder' = [recorder EXCEPT ![taken] =
                             IF writes THEN [logger EXCEPT !.rows = @ + 1] ELSE logger]
           /\ files' = [files EXCEPT ![logger.path] =
                          [header |-> IF new /\ header THEN logger.columns
                                      ELSE files[logger.path].header,
                           row |-> IF writes THEN snap.module
                                   ELSE IF new /\ header THEN None
                                   ELSE files[logger.path].row]]
           /\ headless' = IF ~new THEN headless
                          ELSE IF header THEN headless \ {logger.path}
                          ELSE headless \cup {logger.path}
  BY DEF Record
<1> DEFINE writes == logger.columns # None /\ (new => header) /\ row
<1>2. /\ taken \in 1 .. last /\ taken \in Recordings /\ snap \in Snapshots
      /\ snap.module \in Tabs /\ old \in Loggers
  <2>1. /\ taken # 0 /\ taken \in 0 .. last /\ last \in Recordings \cup {0}
        /\ snap \in Snapshots /\ recorder \in [Recordings -> Loggers]
    BY DEF RecordTyped, TypeOK, Taking, Record
  <2> QED
    BY <2>1, LiveLogAssumption DEF Recordings, Snapshots
<1> HIDE DEF old
<1>3. /\ turned \in AnyLoggers /\ turned.rows = old.rows
      /\ turned.columns # None => turned = old /\ old.module = snap.module
  BY <1>2, RotatedIs
<1> HIDE DEF turned
<1>4. /\ logger \in AnyLoggers /\ logger.rows = turned.rows
      /\ \/ logger = turned
         \/ /\ turned.columns = None
            /\ logger.columns = snap.module /\ logger.module = snap.module
  BY <1>2, <1>3, LockedIs
<1> HIDE DEF logger
<1>5. logger \in Loggers
  BY <1>1, <1>4, TurnsAre DEF AnyLoggers, Loggers, Paths
<1>6. new => logger.columns = snap.module /\ logger.module = snap.module
  BY <1>4
<1>7. ~new /\ logger.columns # None => logger = old /\ logger.module = snap.module
  BY <1>3, <1>4
<1>8. new \in BOOLEAN /\ writes \in BOOLEAN
  BY DEF WriteOutcomes
<1>9. writes => logger.columns # None /\ (new => header)
  OBVIOUS
<1>10. /\ recorder' = [recorder EXCEPT ![taken] =
                         IF writes THEN [logger EXCEPT !.rows = @ + 1] ELSE logger]
       /\ files' = [files EXCEPT ![logger.path] =
                      [header |-> IF new /\ header THEN logger.columns
                                  ELSE files[logger.path].header,
                       row |-> IF writes THEN snap.module
                               ELSE IF new /\ header THEN None
                               ELSE files[logger.path].row]]
       /\ headless' = IF ~new THEN headless
                      ELSE IF header THEN headless \ {logger.path}
                      ELSE headless \cup {logger.path}
  BY <1>1
<1> HIDE DEF new, writes
<1> QED
  BY <1>2, <1>3, <1>4, <1>5, <1>6, <1>7, <1>8, <1>9, <1>10 DEF old

LEMMA RecordStart == Init => RecordTyped /\ RowInv /\ RowStillOwed
<1> SUFFICES ASSUME Init PROVE RecordTyped /\ RowInv /\ RowStillOwed
  OBVIOUS
<1>1. recorder \in [Recordings -> Loggers]
  BY NewLoggerTyped DEF Init
<1>2. \A r \in Recordings : recorder[r].rows = 0 /\ recorder[r].columns = None
  BY DEF Init, NewLogger
<1>3. files \in Files
  BY DEF Init, Files
<1>4. \A f \in Paths : files[f].row = None /\ files[f].header = None
  BY DEF Init
<1>5. 0 \in 0 .. MaxCalls /\ 1 .. 0 = {}
  BY LiveLogAssumption
<1>6. TypeOK
  <2>1. /\ csv \in {0, last} /\ last \in Recordings \cup {0} /\ taken \in 0 .. last
        /\ calls \in 0 .. MaxCalls
    BY <1>5 DEF Init
  <2>2. told \in [Recordings -> 0 .. MaxCalls]
    BY <1>5 DEF Init
  <2>3. connlog \in Keys
    BY DEF Init, Key, Keys, Blank
  <2>4. /\ connfile \in Tabs \cup {None, Missing}
        /\ journalfile \in FaultLists \cup {None, Missing} /\ headless = {}
        /\ phase \in Phases \cup {None} /\ journal \in FaultLists \cup {None}
    BY DEF Init
  <2>5. pc = "drain" /\ tab \in Tabs /\ snap \in Snapshots \cup {Blank} /\ quiet = FALSE
    BY DEF Init
  <2> QED
    BY <1>1, <1>4, <2>1, <2>2, <2>3, <2>4, <2>5 DEF TypeOK
<1>7. RecordTyped
  BY <1>2, <1>3, <1>6 DEF Init, RecordTyped, Taking, RowsCounted
<1>8. RowInv
  BY <1>2, <1>4, <1>7 DEF Init, RowInv, FreshUntilTaken, HeaderInFile, RowsUnderOwnHeader
<1>9. RowStillOwed
  BY <1>5 DEF Init, RowStillOwed
<1> QED
  BY <1>7, <1>8, <1>9

LEMMA StartCsvTyped ==
  ASSUME RecordTyped, StartCsv
  PROVE  /\ RecordTyped'
         /\ last \in 0 .. MaxRecordings /\ last' = last + 1 /\ last' \in Recordings
         /\ recorder'[last'].columns = None
         /\ \A r \in Recordings \ {last'} : recorder'[r] = recorder[r]
<1>1. PICK start \in {last, last'} \ {0} :
        recorder' = [recorder EXCEPT ![last'] = NewLogger(start)]
  BY DEF StartCsv
<1>2. /\ last \in 0 .. MaxRecordings /\ last < MaxRecordings /\ last' = last + 1
      /\ csv = 0 /\ csv' = last' /\ taken' = taken /\ taken \in 0 .. last
      /\ UNCHANGED <<pc, tab, snap, files, headless, told, calls, journal, journalfile,
                     quiet,
                     connlog, phase, connfile>>
  BY LiveLogAssumption DEF fileVars, StartCsv, RecordTyped, TypeOK, Recordings,
                           noteVars, connVars
<1>3. last' \in Recordings /\ start \in Recordings /\ taken' \in 0 .. last'
  BY <1>1, <1>2, LiveLogAssumption DEF Recordings
<1>4. NewLogger(start) \in Loggers
  BY <1>3, NewLoggerTyped
<1>5. recorder \in [Recordings -> Loggers]
  BY DEF RecordTyped, TypeOK
<1>6. NewLogger(start).rows = 0 /\ NewLogger(start).columns = None
  BY DEF NewLogger
<1> HIDE DEF NewLogger
<1>7. /\ recorder' \in [Recordings -> Loggers]
      /\ recorder'[last'] = NewLogger(start)
      /\ \A r \in Recordings \ {last'} : recorder'[r] = recorder[r]
  BY <1>1, <1>3, <1>4, <1>5
<1>8. TypeOK'
  BY <1>2, <1>3, <1>7 DEF RecordTyped, TypeOK
<1>9. RowsCounted'
  <2>1. calls \in Nat
    BY LiveLogAssumption DEF RecordTyped, TypeOK
  <2> QED
    BY <1>2, <1>6, <1>7, <2>1 DEF RecordTyped, RowsCounted
<1> QED
  BY <1>2, <1>3, <1>6, <1>7, <1>8, <1>9 DEF RecordTyped, Taking, Files

LEMMA StopCsvTyped ==
  ASSUME RecordTyped, StopCsv
  PROVE  /\ RecordTyped'
         /\ csv \in Recordings /\ csv' = 0
         /\ told' = [told EXCEPT ![csv] = recorder[csv].rows]
<1>1. /\ csv # 0 /\ csv' = 0 /\ told' = [told EXCEPT ![csv] = recorder[csv].rows]
      /\ UNCHANGED <<pc, tab, snap, taken, last, recorder, files, headless, calls,
                     journal, journalfile, quiet, connlog, phase, connfile>>
  BY DEF fileVars, StopCsv, noteVars, connVars
<1>2. csv \in Recordings
  BY <1>1 DEF RecordTyped, TypeOK
<1>3. recorder[csv].rows \in 0 .. MaxCalls
  BY <1>2 DEF RecordTyped, TypeOK, Loggers
<1>4. told' \in [Recordings -> 0 .. MaxCalls]
  BY <1>1, <1>3 DEF RecordTyped, TypeOK
<1>5. TypeOK'
  BY <1>1, <1>4 DEF RecordTyped, TypeOK
<1> QED
  BY <1>1, <1>2, <1>5 DEF RecordTyped, Taking, RowsCounted, Files

LEMMA NoteTyped ==
  ASSUME RecordTyped, Note
  PROVE  RecordTyped'
<1>1. /\ pc = "note" /\ pc' = "take" /\ snap \in Snapshots
      /\ UNCHANGED <<tab, snap, taken, csv, last, recorder, told, files, headless, calls>>
  BY DEF fileVars, Note, recVars, RecordTyped, Taking
<1>2. journal' \in FaultLists \cup {None} /\ quiet' \in BOOLEAN
  BY <1>1 DEF Note, SnapshotLog, RecordTyped, TypeOK, Snapshots
<1>3. connlog' \in Keys
  BY <1>1 DEF Note, LogTransition, connVars, Key, Keys, RecordTyped, TypeOK, Snapshots
<1>4. /\ phase' \in Phases \cup {None}
      /\ connfile' \in Tabs \cup {None, Missing}
      /\ journalfile' \in FaultLists \cup {None, Missing}
  BY <1>1, LastLineIs
     DEF Note, LogTransition, SnapshotLog, connVars, ConnLog, RecordTyped, TypeOK,
         Snapshots
<1>5. TypeOK'
  BY <1>1, <1>2, <1>3, <1>4 DEF RecordTyped, TypeOK
<1> QED
  BY <1>1, <1>5 DEF RecordTyped, Taking, RowsCounted, Files

LEMMA TakeRecorderTyped ==
  ASSUME RecordTyped, TakeRecorder
  PROVE  RecordTyped'
<1>1. /\ pc = "take" /\ taken' = csv /\ snap \in Snapshots
      /\ pc' = "record" => csv # 0 /\ snap' = snap
      /\ pc' \in {"record", "drain"} /\ snap' \in Snapshots \cup {Blank}
      /\ UNCHANGED <<tab, csv, last, recorder, told, files, headless, calls,
                     journal, journalfile, quiet, connlog, phase, connfile>>
  BY DEF fileVars, TakeRecorder, recVars, noteVars, connVars, RecordTyped, Taking
<1>2. csv \in 0 .. last
  BY LiveLogAssumption DEF RecordTyped, TypeOK, Recordings
<1>3. TypeOK'
  BY <1>1, <1>2 DEF RecordTyped, TypeOK
<1> QED
  BY <1>1, <1>3 DEF RecordTyped, Taking, RowsCounted, Files

LEMMA RecordKeepsType ==
  ASSUME RecordTyped, Record
  PROVE  /\ RecordTyped'
         /\ \A r \in Recordings \ {taken} : recorder'[r] = recorder[r]
         /\ recorder'[taken].rows \in {recorder[taken].rows, recorder[taken].rows + 1}
<1>1. PICK logger \in Loggers, header \in WriteOutcomes("header"),
           new \in BOOLEAN, writes \in BOOLEAN :
        /\ logger.rows = recorder[taken].rows
        /\ new => logger.columns = snap.module /\ logger.module = snap.module
        /\ recorder' = [recorder EXCEPT ![taken] =
                          IF writes THEN [logger EXCEPT !.rows = @ + 1] ELSE logger]
        /\ files' = [files EXCEPT ![logger.path] =
                       [header |-> IF new /\ header THEN logger.columns
                                   ELSE files[logger.path].header,
                        row |-> IF writes THEN snap.module
                                ELSE IF new /\ header THEN None
                                ELSE files[logger.path].row]]
        /\ headless' = IF ~new THEN headless
                       ELSE IF header THEN headless \ {logger.path}
                       ELSE headless \cup {logger.path}
  BY RecordDoes
<1>2. taken \in Recordings /\ snap.module \in Tabs
  BY RecordDoes
<1>3. /\ calls \in Nat /\ calls < MaxCalls /\ calls' = calls + 1 /\ calls' \in 0 .. MaxCalls
      /\ pc' = "drain" /\ snap' = Blank
      /\ UNCHANGED <<tab, taken, csv, last, told, journal, journalfile, quiet, connlog,
                     phase, connfile>>
  BY LiveLogAssumption DEF Record, RecordTyped, TypeOK, noteVars, connVars
<1>4. logger.rows \in 0 .. calls /\ logger.rows + 1 \in 0 .. MaxCalls
  <2>1. logger.rows \in 0 .. MaxCalls /\ logger.rows <= calls
    BY <1>1, <1>2 DEF Loggers, RecordTyped, RowsCounted
  <2> QED
    BY <1>3, <2>1, LiveLogAssumption
<1> DEFINE next == IF writes THEN [logger EXCEPT !.rows = @ + 1] ELSE logger
<1>5. /\ next \in Loggers /\ next.rows \in {logger.rows, logger.rows + 1}
  BY <1>4 DEF Loggers
<1> HIDE DEF next
<1>6. recorder \in [Recordings -> Loggers] /\ recorder' = [recorder EXCEPT ![taken] = next]
  BY <1>1 DEF next, RecordTyped, TypeOK
<1>7. /\ recorder' \in [Recordings -> Loggers]
      /\ recorder'[taken] = next
      /\ \A r \in Recordings \ {taken} : recorder'[r] = recorder[r]
  BY <1>2, <1>5, <1>6
<1>8. files' \in Files
  <2>1. logger.path \in Paths /\ logger.columns \in Tabs \cup {None}
    BY DEF Loggers
  <2> QED
    BY <1>1, <1>2, <2>1 DEF Files, RecordTyped
<1>9. TypeOK'
  <2>1. headless' \subseteq Paths
    BY <1>1 DEF Loggers, RecordTyped, TypeOK
  <2> QED
    BY <1>3, <1>7, <1>8, <2>1 DEF RecordTyped, TypeOK, Files
<1>10. RowsCounted'
  <2> SUFFICES ASSUME NEW r \in Recordings PROVE recorder'[r].rows <= calls'
    BY DEF RowsCounted
  <2>1. CASE r = taken
    BY <1>3, <1>4, <1>5, <1>7, <2>1
  <2>2. CASE r # taken
    <3>1. recorder[r].rows <= calls /\ recorder[r].rows \in Nat
      BY LiveLogAssumption DEF RecordTyped, RowsCounted, TypeOK, Loggers
    <3> QED
      BY <1>3, <1>7, <2>2, <3>1
  <2> QED
    BY <2>1, <2>2
<1> QED
  BY <1>1, <1>3, <1>5, <1>7, <1>8, <1>9, <1>10 DEF RecordTyped, Taking

LEMMA RecordTypedStep ==
  ASSUME RecordTyped, [Next]_vars
  PROVE  RecordTyped'
<1>1. CASE Inline
  BY <1>1, StartCsvTyped, StopCsvTyped DEF Inline
<1>2. CASE Drain
  BY <1>2 DEF fileVars, Drain, RecordTyped, TypeOK, Taking, RowsCounted, Files, recVars,
              noteVars, connVars
<1>3. CASE Progress
  BY <1>3, LastLineIs DEF fileVars, Progress, ConnLog, RecordTyped, TypeOK, Taking,
                          RowsCounted, Files, recVars
<1>4. CASE Poll
  BY <1>4 DEF fileVars, Poll, RecordTyped, TypeOK, Taking, RowsCounted, Files, recVars,
              connVars
<1>5. CASE LookForRecorder \/ RecorderStatus
  BY <1>5 DEF fileVars, LookForRecorder, RecorderStatus, RecordTyped, TypeOK, Taking,
              RowsCounted,
              Files, recVars, noteVars, connVars
<1>6. CASE Note
  BY <1>6, NoteTyped
<1>7. CASE TakeRecorder
  BY <1>7, TakeRecorderTyped
<1>8. CASE Record
  BY <1>8, RecordKeepsType
<1>9. CASE UNCHANGED vars
  BY <1>9 DEF fileVars, vars, RecordTyped, TypeOK, Taking, RowsCounted, Files, recVars,
              noteVars, connVars
<1> QED
  BY <1>1, <1>2, <1>3, <1>4, <1>5, <1>6, <1>7, <1>8, <1>9 DEF Next

(***************************************************************************)
(* A row goes under a header of its module, unless a header is lost.       *)
(***************************************************************************)
LEMMA RecordUnderHeader ==
  ASSUME RowInv, Record
  PROVE  RowInv'
<1>1. PICK logger \in Loggers, header \in WriteOutcomes("header"),
           new \in BOOLEAN, writes \in BOOLEAN :
        /\ logger.rows = recorder[taken].rows
        /\ new => logger.columns = snap.module /\ logger.module = snap.module
        /\ ~new /\ logger.columns # None =>
             logger = recorder[taken] /\ logger.module = snap.module
        /\ writes => logger.columns # None /\ (new => header)
        /\ recorder' = [recorder EXCEPT ![taken] =
                          IF writes THEN [logger EXCEPT !.rows = @ + 1] ELSE logger]
        /\ files' = [files EXCEPT ![logger.path] =
                       [header |-> IF new /\ header THEN logger.columns
                                   ELSE files[logger.path].header,
                        row |-> IF writes THEN snap.module
                                ELSE IF new /\ header THEN None
                                ELSE files[logger.path].row]]
        /\ headless' = IF ~new THEN headless
                       ELSE IF header THEN headless \ {logger.path}
                       ELSE headless \cup {logger.path}
  BY RecordDoes DEF RowInv
<1>2. taken \in 1 .. last /\ taken \in Recordings /\ snap.module \in Tabs
  BY RecordDoes DEF RowInv
<1>3. header \in BOOLEAN
  BY DEF WriteOutcomes
<1>4. UNCHANGED <<taken, csv, last>>
  BY DEF Record
<1>5. logger.path \in Paths
  BY DEF Loggers
<1>6. RecordTyped' /\ \A r \in Recordings \ {taken} : recorder'[r] = recorder[r]
  BY RecordKeepsType DEF RowInv
<1>7. /\ recorder'[taken].columns = logger.columns
      /\ recorder'[taken].module = logger.module
      /\ recorder'[taken].path = logger.path
  BY <1>1, <1>2 DEF RowInv, RecordTyped, TypeOK, Loggers
<1>8. /\ \A f \in Paths \ {logger.path} : files'[f] = files[f]
      /\ files'[logger.path].header = IF new /\ header THEN logger.columns
                                      ELSE files[logger.path].header
      /\ files'[logger.path].row = IF writes THEN snap.module
                                   ELSE IF new /\ header THEN None
                                   ELSE files[logger.path].row
  BY <1>1, <1>3, <1>5 DEF RowInv, RecordTyped, Files
<1>13. ~new => headless' = headless
  BY <1>1
<1>14. new /\ ~header => logger.path \in headless'
  BY <1>1
<1>15. \A f \in Paths \ {logger.path} : f \in headless' <=> f \in headless
  BY <1>1
<1>9. logger.columns # None =>
        /\ \/ logger.path \in headless'
           \/ files'[logger.path].header = logger.columns
        /\ logger.columns = snap.module
        /\ logger.module = logger.columns
  <2>1. CASE new
    BY <1>1, <1>8, <1>14, <2>1
  <2>2. CASE ~new
    <3> SUFFICES ASSUME logger.columns # None
                 PROVE  /\ \/ logger.path \in headless'
                           \/ files'[logger.path].header = logger.columns
                        /\ logger.columns = snap.module
                        /\ logger.module = logger.columns
      OBVIOUS
    <3>1. logger = recorder[taken] /\ logger.module = snap.module /\ taken # 0
      BY <1>1, <1>2, <2>2
    <3>2. /\ logger.path \in headless \/ files[logger.path].header = logger.columns
          /\ logger.module = logger.columns
      BY <3>1 DEF RowInv, HeaderInFile
    <3> QED
      BY <1>8, <1>13, <2>2, <3>1, <3>2
  <2> QED
    BY <2>1, <2>2
<1>10. FreshUntilTaken'
  <2> SUFFICES ASSUME NEW r \in Recordings, r > last \/ (r = csv /\ r # taken)
               PROVE  recorder'[r].columns = None
    BY <1>4 DEF FreshUntilTaken
  <2>1. r # taken
    BY <1>2, LiveLogAssumption DEF Recordings, RowInv, RecordTyped, TypeOK
  <2> QED
    BY <1>6, <2>1 DEF RowInv, FreshUntilTaken
<1>11. HeaderInFile'
  BY <1>4, <1>7, <1>9 DEF HeaderInFile
<1>12. RowsUnderOwnHeader'
  <2> SUFFICES ASSUME NEW f \in Paths \ headless'
               PROVE  files'[f].row \in {None, files'[f].header}
    BY DEF RowsUnderOwnHeader
  <2>1. f \notin headless => files[f].row \in {None, files[f].header}
    BY DEF RowInv, RowsUnderOwnHeader
  <2>2. CASE f # logger.path
    BY <1>8, <1>15, <2>1, <2>2
  <2>3. CASE f = logger.path /\ writes
    BY <1>1, <1>8, <1>9, <2>3
  <2>4. CASE f = logger.path /\ ~writes
    <3>1. CASE new
      BY <1>8, <1>14, <2>4, <3>1
    <3>2. CASE ~new
      BY <1>8, <1>13, <2>1, <2>4, <3>2
    <3> QED
      BY <3>1, <3>2
  <2> QED
    BY <2>2, <2>3, <2>4
<1> QED
  BY <1>6, <1>10, <1>11, <1>12 DEF RowInv

LEMMA RowStep ==
  ASSUME RowInv, [Next]_vars
  PROVE  RowInv'
<1>1. RecordTyped /\ RecordTyped'
  BY RecordTypedStep DEF RowInv
<1>2. CASE Record
  BY <1>2, RecordUnderHeader
<1>3. CASE StartCsv
  <2>1. /\ last \in 0 .. MaxRecordings /\ last' = last + 1 /\ last' \in Recordings
        /\ recorder'[last'].columns = None
        /\ \A r \in Recordings \ {last'} : recorder'[r] = recorder[r]
    BY <1>1, <1>3, StartCsvTyped
  <2>2. csv' = last' /\ UNCHANGED <<taken, files, headless>> /\ taken \in 0 .. last
    BY <1>1, <1>3 DEF fileVars, StartCsv, RecordTyped, TypeOK
  <2>3. FreshUntilTaken'
    <3> SUFFICES ASSUME NEW r \in Recordings, r > last' \/ r = last'
                 PROVE  recorder'[r].columns = None
      BY <2>2 DEF FreshUntilTaken
    <3>1. CASE r = last'
      BY <2>1, <3>1
    <3>2. CASE r # last'
      <4>1. r > last
        BY <2>1, <3>2 DEF Recordings
      <4> QED
        BY <2>1, <3>2, <4>1 DEF RowInv, FreshUntilTaken
    <3> QED
      BY <3>1, <3>2
  <2>4. HeaderInFile'
    <3>1. taken # last' /\ (taken # 0 => taken \in Recordings)
      BY <2>1, <2>2, LiveLogAssumption DEF Recordings
    <3> QED
      BY <2>1, <2>2, <3>1 DEF RowInv, HeaderInFile
  <2> QED
    BY <1>1, <2>2, <2>3, <2>4 DEF RowInv, RowsUnderOwnHeader
<1>4. CASE StopCsv
  <2>1. csv' = 0 /\ UNCHANGED <<taken, last, recorder, files, headless>>
    BY <1>4 DEF fileVars, StopCsv
  <2>2. FreshUntilTaken'
    BY <2>1, LiveLogAssumption DEF RowInv, FreshUntilTaken, Recordings
  <2> QED
    BY <1>1, <2>1, <2>2 DEF RowInv, HeaderInFile, RowsUnderOwnHeader
<1>5. CASE TakeRecorder
  <2>1. taken' = csv /\ UNCHANGED <<csv, last, recorder, files, headless>>
    BY <1>5 DEF fileVars, TakeRecorder, recVars
  <2>2. FreshUntilTaken'
    BY <2>1 DEF RowInv, FreshUntilTaken
  <2>3. csv # 0 => csv \in Recordings
    BY <1>1 DEF RecordTyped, TypeOK
  <2>4. HeaderInFile'
    BY <2>1, <2>3 DEF RowInv, HeaderInFile, FreshUntilTaken
  <2> QED
    BY <1>1, <2>1, <2>2, <2>4 DEF RowInv, RowsUnderOwnHeader
<1>6. CASE \/ Drain \/ Progress \/ Poll \/ LookForRecorder \/ RecorderStatus \/ Note
           \/ UNCHANGED vars
  <2>1. UNCHANGED <<taken, csv, last, recorder, files, headless>>
    BY <1>6 DEF fileVars, Drain, Progress, Poll, LookForRecorder, RecorderStatus, Note,
                vars, recVars
  <2> QED
    BY <1>1, <2>1 DEF RowInv, FreshUntilTaken, HeaderInFile, RowsUnderOwnHeader
<1> QED
  BY <1>2, <1>3, <1>4, <1>5, <1>6 DEF Next, Inline

LEMMA OwedStep ==
  ASSUME RecordTyped, RowStillOwed, [Next]_vars
  PROVE  RowStillOwed'
<1>1. last \in 0 .. MaxRecordings /\ \A r \in 1 .. last : r \in Recordings
  BY LiveLogAssumption DEF RecordTyped, TypeOK, Recordings
<1>2. CASE Record
  <2>1. /\ \A r \in Recordings \ {taken} : recorder'[r] = recorder[r]
        /\ recorder'[taken].rows \in {recorder[taken].rows, recorder[taken].rows + 1}
    BY <1>2, RecordKeepsType
  <2>2. pc = "record" /\ pc' = "drain" /\ UNCHANGED <<taken, csv, last, told>>
    BY <1>2 DEF Record
  <2> SUFFICES ASSUME NEW r \in 1 .. last, r # csv
               PROVE  recorder'[r].rows \in {told[r], told[r] + 1}
    BY <2>2 DEF RowStillOwed
  <2>3. CASE r = taken
    BY <2>1, <2>2, <2>3 DEF RowStillOwed
  <2>4. CASE r # taken
    BY <1>1, <2>1, <2>4 DEF RowStillOwed
  <2> QED
    BY <2>3, <2>4
<1>3. CASE StartCsv
  <2>1. /\ last' = last + 1
        /\ \A r \in Recordings \ {last'} : recorder'[r] = recorder[r]
    BY <1>3, StartCsvTyped
  <2>2. csv = 0 /\ csv' = last' /\ UNCHANGED <<pc, taken, told>>
    BY <1>3 DEF StartCsv
  <2> SUFFICES ASSUME NEW r \in 1 .. last', r # last'
               PROVE  \/ recorder'[r].rows = told[r]
                      \/ recorder'[r].rows = told[r] + 1 /\ ~ (pc = "record" /\ taken = r)
    BY <2>2 DEF RowStillOwed
  <2>3. r \in 1 .. last /\ r # csv
    BY <1>1, <2>1, <2>2
  <2> QED
    BY <1>1, <2>1, <2>3 DEF RowStillOwed
<1>4. CASE StopCsv
  <2>1. /\ csv \in Recordings /\ csv' = 0
        /\ told' = [told EXCEPT ![csv] = recorder[csv].rows]
    BY <1>4, StopCsvTyped
  <2>2. UNCHANGED <<pc, taken, last, recorder>> /\ told \in [Recordings -> 0 .. MaxCalls]
    BY <1>4 DEF StopCsv, RecordTyped, TypeOK
  <2> SUFFICES ASSUME NEW r \in 1 .. last
               PROVE  \/ recorder[r].rows = told'[r]
                      \/ recorder[r].rows = told'[r] + 1 /\ ~ (pc = "record" /\ taken = r)
    BY <2>1, <2>2 DEF RowStillOwed
  <2>3. CASE r = csv
    BY <1>1, <2>1, <2>2, <2>3
  <2>4. CASE r # csv
    BY <1>1, <2>1, <2>2, <2>4 DEF RowStillOwed
  <2> QED
    BY <2>3, <2>4
<1>5. CASE TakeRecorder
  <2>1. pc = "take" /\ taken' = csv /\ UNCHANGED <<csv, last, recorder, told>>
    BY <1>5 DEF TakeRecorder, recVars
  <2> QED
    BY <2>1 DEF RowStillOwed
<1>6. CASE \/ Drain \/ Progress \/ Poll \/ LookForRecorder \/ RecorderStatus \/ Note
           \/ UNCHANGED vars
  <2>1. UNCHANGED <<taken, csv, last, recorder,
                    told>> /\ (pc' = "record" => pc = "record")
    BY <1>6 DEF Drain, Progress, Poll, LookForRecorder, RecorderStatus, Note, vars,
                recVars
  <2> QED
    BY <2>1 DEF RowStillOwed
<1> QED
  BY <1>2, <1>3, <1>4, <1>5, <1>6 DEF Next, Inline

-----------------------------------------------------------------------------
(***************************************************************************)
(* The state of the recording and of both logs stays within its type; the  *)
(* poller never holds a recorder that was not started.                     *)
(***************************************************************************)
THEOREM LoggerTyped == Spec => []TypeOK
<1>1. RecordTyped => TypeOK
  BY DEF RecordTyped
<1> QED
  BY RecordStart, RecordTypedStep, <1>1, PTL DEF Spec

(***************************************************************************)
(* CsvLogger.log never writes a row under the header of another module,    *)
(* also in a file that a second recording continues, unless the last       *)
(* header of that very file was refused: whatever else the disk refuses.   *)
(***************************************************************************)
THEOREM RowsStandUnderHeaders == Spec => []RowsUnderOwnHeader
<1>1. RowInv => RowsUnderOwnHeader
  BY DEF RowInv
<1> QED
  BY RecordStart, RowStep, <1>1, PTL DEF Spec

(***************************************************************************)
(* stop_csv reports all rows of its recording but one at most, the row of  *)
(* the round that had taken the recorder before.                           *)
(***************************************************************************)
THEOREM StoppedRecordingIsOver == Spec => []StoppedRecordingEnds
<1>1. RecordTyped /\ RowStillOwed => StoppedRecordingEnds
  <2> SUFFICES ASSUME RecordTyped, RowStillOwed, NEW r \in 1 .. last, r # csv
               PROVE  recorder[r].rows - told[r] \in {0, 1}
    BY DEF StoppedRecordingEnds
  <2>1. r \in Recordings
    BY LiveLogAssumption DEF RecordTyped, TypeOK, Recordings
  <2>2. told[r] \in Int /\ recorder[r].rows \in Int
    BY <2>1, LiveLogAssumption DEF RecordTyped, TypeOK, Loggers
  <2> QED
    BY <2>2 DEF RowStillOwed
<1>2. RecordTyped /\ RowStillOwed /\ [Next]_vars => RecordTyped' /\ RowStillOwed'
  BY RecordTypedStep, OwedStep
<1> QED
  BY RecordStart, <1>1, <1>2, PTL DEF Spec

=============================================================================
