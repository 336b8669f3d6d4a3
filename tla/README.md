# discovery2-diag: verification project

TLA+ models of the parts of discovery2-diag whose behaviour depends on the
order of events: the K-line sessions and the requests on them, the fault scan,
the dashboard server that shares one wire between browsers, a poller and the
scan, the data sources and logs behind it, the contribution client and its
endpoint, the mapping tools, and the ESP32 node. TLC checks the models on small
instances; TLAPS proves their safety properties for every instance.
`PROJECT.json` maps every definition to the lines it stands for, lists the runs,
and lists what is hard to test in this code ("hazards") with the properties that
watch it.

## 1. Inventory of the system

All paths are relative to the repository; `d2diag` is `src/d2diag`.

| component | state | operations | interacts with | hard behaviour | what makes it correct |
|---|---|---|---|---|---|
| transport (`transport/*`) | port handle, buffers | open, close, send, receive, break | K-line layer | disappearing port, noise | closes when told |
| K-line layer (`kline/*`) | receive buffer | fast/slow init, request, burst, frame scan | transport, KWP2000 | echo, late replies, glitches | a frame returned is a frame sent; retries bounded |
| KWP2000 (`kwp2000/*`) | none | one method per service, pending and negative replies | K-line, sessions | burst search, pending, retries | the reply belongs to the request |
| ECU session (`session.py`, `td5`, `slabs`, `airbag`, `bcu`) | open transport, ECU-side link and session | open, establish, release, reads, writes | KWP2000; other modules on the same wire | quiet periods, attempts, exceptions at each step | init only after silence; link and session torn down |
| fault scan (`faultscan.py`) | rows so far | read_all | three sessions | one module failing | every module one row; every module released |
| data sources (`web/sources.py`) | session handle, last signals, faults, counters | poll, command, disconnect | sessions, server callbacks | lost contact, throttle, grace, aborted connection | one session; no stale data as fresh |
| fuel computer (`web/sources.py`) | last time, totals | update, pause, save | Td5 source | gaps | no gap is integrated beyond the cap |
| dashboard server (`web/server.py`) | queue, active module, mode, latest, stop, CSV | enqueue, drain, select, mode, scan, poll loop, stop | HTTP threads, sources, scan | threads against one wire, timeouts, aborts | one session at a time; commands in order, once |
| loggers (`web/logger.py`) | columns, file, counters | log, rotate | poller, HTTP threads | stop/log race | rectangular file per module |
| sniffer (`web/sniffer.py`, `sniff/*`) | LID store | ingest, snapshot | own thread | sessions that begin unheard | an answer is shown under its module |
| signal store (`signals`) | file, cache | load, upsert | HTTP threads, SLABS source | read-modify-write of a file | a saved field stays |
| community (`community`, `server/endpoint.py`) | consent, outbox; database | consent, contribute, flush | HTTP threads, network | offline, duplicates, crash | nothing lost or sent without consent |
| mapping tools (`sniff/automap.py`, `tools/diffmap.py`, `map_inputs.py`, `map_gui.py`) | baseline, mask, resting levels, labelled readings | baseline, watch, label, solve, save | SLABS session, signal store | noise, lost identifiers, page handlers against the reading loop | what is offered rested before it moved; the saved field decodes what it was made from |
| ESP32 node (`esp32/kline_node`) | session flags, timers, spill file | log tick, recovery, excursion, bridge, handlers | K-line, Influx, HTTP | re-entrant handlers, reboot | bus silent in recovery; spill delivered |
| decoders, menus, documents | tables | pure functions | all | none | tables right |

## 2. Plan

Done:

1. `EcuSession`, `FaultScan`, with `FaultScan_proofs` for both.
2. `CommandService` (abstract) and `DiagServer` that implements it, with
   `DiagServer_proofs`.
3. `KLine`: strict and burst requests against damaged, late and pending replies,
   over the serial adapter and over the ESP32 bridge, with `KLine_proofs`.
4. `BoundedOutbox` (abstract) and `Community` that implements it, with
   `Community_proofs`.
5. `LiveSources` and `LiveLog`: the memory of the sources and what the poll loop
   writes down, with `LiveSources_proofs` and `LiveLog_proofs`.
6. `FieldSearch`, `SignalStore`, `Mapping`, `InputMapper`, `Sniffer` and their
   composition `BusTools`, with `BusTools_proofs`.
7. `KlineNode`: loop, recovery, excursion, bridge, pages and spill file, with
   `KlineNode_proofs`.

Left, in this order:

1. The BCU as a further kind of session.
2. The frame codec (`kline/frame.py`) and the security key (`td5/keygen.py`) as
   operators against a reference definition.
3. The type of the contribution client for any number of threads.
4. Real time for the quiet periods of the sessions: how long a silence was, and
   not only that there was one.

## 3. Modules

### EcuSession
The object that one thread drives. `phase` is the place in `establish` or
`release` where that thread stands, `try` the loop variable of the attempts,
`ports` the objects that hold an open transport. The ECUs are external. Each
exchange ends with `ok`, with a protocol error the code catches, or with
another exception that leaves `establish`. What an ECU may still hold is kept
as a debt of the tester: `linkDue` (an init went out, no 82 since) and
`sessDue` (a 10 went out, no 20 since); an attempt to send counts as sent,
because the code cannot do more. `Heard` says who receives a frame: Td5 and
SLABS frames carry no address after the init and reach every such module, the
Airbag's carry its own. `settled` says that a whole wait has passed since the
last frame.

Three kinds of module differ as their classes do: `Unlocking` (Td5: 10 A0 and
SecurityAccess after the init, a failed init tolerated, 20 on release),
`Confirming` (SLABS: init must succeed, then a best-effort 1A 8A) and
`SlowInit` (Airbag: no 82 first, 5-baud init, 10 81).

| action | code |
|---|---|
| `Open` | `EcuSession.open` |
| `BeginEstablish`, `Settle` | `_establish`, up to `sleep(idle)` |
| `SendInit`, `StartSession`, `Unlock`, `Quiet` | one turn of the attempt loop, `Td5.connect`, `Airbag.establish` |
| `Confirm` | `Slabs._confirm_session` |
| `SleepRaises` | the injected sleep raises `ConnectAborted` |
| `EndSession`, `StopCommunication`, `Close` | `release` |

### FaultScan
`faultscan._live_report`: `scanAt` is the module it is at, `report` the rows.
The three blocks of the function are the same code with other classes, so
`ScanOrder` is a constant; it may not begin with a slow-init module, whose
first init has no silence of its own (`ScanAssumption`; the code begins with
TD5). `Scan` repeats scans for ever.

### CommandService
What a browser is promised: commands run one at a time, each once, in order of
acceptance; the answer is the result of that command once it has run, or a
timeout. A command whose browser gave up still runs.

### DiagServer
HTTP threads (`Submit`, `Answer`), the main thread (`Stop`) and the poller. The
poller's actions follow `_poll_loop`: `TakeCommand` .. `RunScan` are
`_drain_commands`; `BeginPoll`, `PollMock`, `OpenSource`, `Connect`, `Adopt`,
`Abandon`, `ReadSource`, `Lose` are the `poll` of the sources; `Wait` is the
pause. A step is one exchange or one sleep, so a command can arrive between
any two frames. The sleep of a connection is `ConnectSleep`: it raises when a
command is queued, returns early when the server stops, and otherwise lasts.
`overdue` is a history variable (inits sent while a command waited).
`Abandon` drops the object of a failed connection. That object is in a cycle of
exception, traceback and frame (`last = exc`, `session.py` 181 and 203), so
reference counting does not close its transport; the garbage collector does,
sooner or later. `lingering` holds the tabs of such objects.
`DiagServer` extends `FaultScan`, so that the scan and the sources use the same
wire, ports and debts; `Service == INSTANCE CommandService` maps `stage` and
`told` to themselves.

### KLine
One request at a time: `KLine.request` (frames with a valid checksum, echo,
retries), `KLine.converse` (one burst) and what `KWP2000` makes of the reply.
`pc` is the place inside the request, `rx` the receive buffer, `ecu` what the
control unit has taken and still owes. A frame is whole, legible (its service
byte can be found though its checksum is wrong) or shredded, which is chosen
when it is put on the wire; a frame is not cut in two. `cable` is the transport.
Over the serial adapter the tester reads the wire itself, and the pulse of an
init may leave a glitch in its buffer. Over the bridge (`transport/esp_transport.py`)
a frame is a command line to the node, which sends it, listens, and answers with
the burst it heard; `_cmd` takes whatever line comes next as that answer, so a
line that comes after `_cmd` gave up, or a PONG left from `open()`, answers the next
command. `asked` holds the lines the node has yet to answer, `relay` and `uart`
the one it is at and what it has heard. A request is `clean` when nothing but
PONGs was outstanding as it began, from the control unit or from the node.
Inits are of three kinds: `strict` (`fast_init`, read like a strict request),
`functional` (`fast_init_tolerant`, whose frame begins with C1, the byte that its
answer is searched for; the search begins behind the echo) and `slow`.

| action | code |
|---|---|
| `Begin`, `FlushInput`, `Send` | `KLine.request`, `converse`, `fast_init`, `fast_init_tolerant`, `slow_init` up to the write |
| `ReadEcho`, `ReadReply`, `Timeout` | `read_frame` inside `request`; pending replies of `KWP2000.request` |
| `ExtractResponse`, `FindStart` | `_extract_response`; the search for C1 in the burst of an init |
| `Pulse` | `SerialTransport.fast_init_low`, and that of the bridge, which only marks the next line |
| `SendLine`, `LineTimesOut` | `EspTransport.send` and `_cmd` |
| `NodeTransmits`, `NodeAnswers` | the node's bridge, as `EspTransport` uses it |
| `EcuPending`, `EcuReplies`, `EcuStaysSilent` | external |

### Community, BoundedOutbox
The contribution client on the dashboard's HTTP threads, its configuration file
and the endpoint. `heap` holds the list objects: `_flush` works on the list it
took while `_enqueue` may put another in its place. `disk` is the file, `Crash`
kills the program, also inside `write_text`. `known` and `rows` are the
endpoint's tables; a request or its answer may be lost. `sender` is the install
id in the payload. An install id is the run and the thread that made it:
`install_id` looks (`FindNoId`) and stores (`InstallId`) in two steps, at each of
its three callers. `BoundedOutbox` says what is promised: order, only the oldest
given up, nothing else lost but with the whole file. What waits there is a set
with the relation "accepted before": the client's list of a flush and the list
on disk differ in the readings already at the endpoint, and neither is the
promise. `Outbox` maps the readings on disk that have no row to that set, and
their order on disk to that relation (`Ahead`).

| action | code |
|---|---|
| `FindNoId`, `InstallId` | `install_id` |
| `GetState`, `SetConsent`, `Register` | `state`, `set_consent`, `_register` |
| `Contribute`, `PostReading`, `Enqueue` | `contribute`, `_post`, `_enqueue` |
| `BeginFlush`, `PostOldest`, `PopOldest`, `EndFlush` | `_flush` |
| `AddContribution`, `StoreInstall` | `server/endpoint.py` |

### LiveSources
What the two live sources keep from one poll, session and tab to the next:
the throttle, the grace and the rotation of SLABS, the fault cadence of both,
the clock of the fuel computer. Clocks are ages, each up to the threshold the
code compares it with. `list` says of each source whether its fault list was
read since the last acknowledged clear. Commands take bus time (`OnTheWire`):
`ClearFaults`, `ReadBlock`, `OutputTest`, `Actuate`, `ModuleBleed`. `Switch` is
a change of tab with its `disconnect`, `SetFaultWatch` the inline command. How a
connection is made and aborted is in `DiagServer`, so here it succeeds or fails.

### LiveLog
The poller's round against `start_csv` and `stop_csv` on HTTP threads: `Drain`,
`Progress` (the phases a connecting source reports), `Poll`, `LookForRecorder`
and `RecorderStatus` (the two looks at `_csv`), `Note` (connection log and
`SnapshotLogger.log`), `TakeRecorder`, `Record` (`CsvLogger.log` with its
rotation, column lock, header and row). The disk may refuse any line
(`MayFail`); the poll loop swallows the error, and the memory of what was written
is set before the line is. The logger's memory and the file are therefore two
variables each, and `headless` holds the files whose last header was refused.

### FieldSearch, SignalStore, Mapping, InputMapper, Sniffer, BusTools
`FieldSearch` has the pure part: noise mask and resting levels of a series of
blocks, the search for the bit or byte that tells labelled readings apart
(`automap`), the field that comes of it. A byte is the set of its one bits.
`SignalStore` is the file of fields with writers that read, edit and replace it
(`upsert_field`, `remove_field`); `Mapping` is `diffmap`, the labels of
`map_gui` and the dashboard's `POST /signal` on that store. `InputMapper` is the
three tools that watch for moving bits; in `map_gui` a block is read without the
lock and taken in under it (`GuiRead`, then `GuiBaseline` or `GuiWatch`), with
the page's handlers between the two. `Sniffer` is the feed thread, the store of
the last answers and the page's snapshot. `BusTools` composes them: one tool has
the adapter, and the saving of fields is followed with the adapter at rest,
which loses nothing because what is saved depends on the readings through their
labels alone.

### KlineNode
The node's `loop`: `LoopInBridge`, `FlushSpill`, then once a second `Recover`,
`Establish`, a cycle (`BeginCycle`, `CycleRead`, `CycleMissed`, `CyclePost`) or
an excursion (`BeginExcursion`, `Excursion`). The pages (`HandleScan`,
`HandleLogOff`, ...) run wherever the sketch calls `server.handleClient`, also
between two reads and during the silence of an excursion; `BridgeHandle` and
`OtaStarts` run from the loop only. `open` is what the modules still hold, `bus`
a history of what was sent since the last teardown. A point is the second it
carries, which is how the database tells points apart: `made` is the second of the
last one, `NextSeconds` the same or the next, since the second is read after the
heartbeat, the flush and the reads of the tick that the pace is kept by (ino 362
against 444-449). `InfluxPost` writes all lines, a first part of them, or none,
and is heard or not. `owed` is a history: the seconds of the points whose cycle
ended, but for those a full file dropped. `Reboot` loses the RAM and keeps the
file; `QuietEnds` and `HostGoesQuiet` are time.

## 4. Runs

| run | instance | what it shows |
|---|---|---|
| `scan` | TD5, SLABS, Airbag; 3, 2, 2 attempts | teardown before every close, silence before every init, one row per module, the scan ends |
| `server` | tabs TD5, SLABS in live and mock mode; scan of TD5 and Airbag; 2 attempts; 2 commands of any kind, at any time | one session object in use at a time, held sessions released, stale links cleared before the next fast init, silence before inits, a waiting command stops a connection after one more init at most, signals under the right label, service as promised, every queued command runs |
| `server_leak` | as `server` | **violation**: a connection that fails or is aborted drops its object without `release()` |
| `kline` | both transports; two services with one service byte, three kinds of init, 1 retry, 1 pending, 2 requests, 3 frames in the buffer of the adapter and 2 in the node's, 1 PONG outstanding | an answer belongs to its request, an init is never answered by its own echo, every request ends |
| `sources` | both sources, cadences of 2 and 3 polls, grace 3 | the absence is not counted as driving, a silent SLABS loses its session, the list from before a clear goes |
| `livelog` | two tabs, two recordings, a disk that may refuse any line | rows under their own header unless it was refused, a stopped recording ends, both logs are current unless their last line was refused |
| `livelog_header` | as `livelog`, refused headers only | **violation**: a refused header is never written again, and rows stand without one or under that of another module |
| `livelog_poller` | as `livelog` | **violation**: a `stop_csv` between the two looks at `_csv` ends the poller thread |
| `community` | one handler at a time, four readings of which the endpoint refuses one, an outbox of 2, a crash | nothing accepted is lost silently, contributors are known, the client implements `BoundedOutbox` |
| `community_threads` | two handlers | **violation**: two threads on one outbox lose an accepted reading |
| `bus_tools` | two identifiers, two bits a byte, baselines of 2 blocks, readings of 2 labels, three writers, three bus modules of which two have a signature | what is offered had rested, a sniffed answer is under its module, a proposed field fits its readings, a saved field stays |
| `kline_node` | points in 2 seconds, a file of 2, 2 pages, one reboot | no second with a point is lost, an init of the recovery follows teardown and silence, a recovery ends in a session or in the request to cycle the key |

Each violation is a finding in `PROJECT.json`, with the line of the repository
that says otherwise.

Bounds of the sessions and the server. Two attempts have a first and a last one,
three also one in between; the code makes six (TD5) or three. Two commands are
enough for a command that interrupts another's consequence: switch then switch
back, switch then scan, write behind a switch, timeout of the first while the
second runs. The scan of the server run leaves out SLABS, which the `scan` run
and the tabs cover. `MaxCmds` bounds the commands of one history.

Bounds of the others. `KLine`: two requests are needed for a late answer to meet
the next request; one retry is a first and a last sending; `MaxWire` 3 holds an
echo, a late reply and the reply; of the bridge 2, since the node drops what
came before it sends; one outstanding PONG shifts every answer by one.
`Community`: an outbox of 2 is empty, partly
full and full, with a third reading that pushes one out; `MaxCopies` 2 tells one
row from a duplicate. `LiveSources`: a unit is 0.5 s and the periods are
shortened (30 s of faults to 3 polls, a grace of 3), so that a connection can
outlast the throttle, and a bleed the fault period, as in the program.
`LiveLog`: `MaxTurns` 1 allows one rotation, two calls one row before and one
after it, and two recordings may share a file; that a row after a return to an
earlier tab stands under its header too is shown by the theorem only.
`livelog_header` has three calls. `BusTools`: two blocks
make a bit volatile or not; `MaxWrites` 2 is what an overlap takes; a label of
`map_gui` is two edits of one save. `KlineNode`: a file of 2 with chunks of 1 is
partly sent, full, and drained; a third point, of a second that had one, meets
the cap.

The deadlock check is off where the program may rest or the bounds are used up:
`server` after `Stop`; `community`, `kline`, `livelog`, `bus_tools`, `kline_node`
when no further request, reading, recording, save or page is allowed.

Fairness. `ScanSpec` and `DiagServer!Spec` assume weak fairness of the scan and
of the poller as a whole: each is one thread, every read in it has a timeout and
every sleep an end, so a step that is possible is taken. Nothing is assumed of
the browsers, of the ECUs' answers, or of `Stop`. `KLine` assumes it of the
tester, whose reads return with a frame or at their deadline, and not of the
control unit. `LiveSources` assumes it of the poll; `KlineNode` of the loop and
of time, and of no page, host, car or uplink.

### Limits of the properties

- Silence. Real time is not in the models of the sessions: every sleep of the code
  counts as a whole wait, 0.3 s like 28 s. So `InitAfterSilence` and
  `QuietBeforeInit` say that nothing is sent between a sleep and the next init,
  and not that the sleep was long enough. It is not, by the repository's own
  account, for the first init of SLABS, which goes out 0.3 s after our own 82
  where `session.py` 145-149 and `kline-protocol.md` 381-386 ask for 25-28 s.
  `QuietBeforeInit` and `WaitingCommandAborts` hold while the server is not
  stopping: `_connect_sleep` gives up its wait on `_stop`.
- Ports. `OnePortInUse` is about objects in use. The object of an abandoned
  connection may keep its transport open until the garbage collector comes, and
  the next poll or scan then opens a second one: `lingering` shows that state, and
  no property excludes it, because the code does not.
- Start. `Init` has a clean wire. What a first init does on a live link is checked
  after an abandoned connection (`StaleLinkCleared`), which is about the fast
  inits: the Airbag's slow init is not preceded by an 82. A link left by an
  earlier process is not.
- The Airbag's session. `airbag.py` 57 starts a session with `10 81`, `release`
  sends 82 only, and `session.py` 31-32 says that there is no session to close.
  `ClosedPortOwesNoTd5Session` is about the TD5's session.
- Rows of the scan. `OneRowPerModule` takes `close()` not to fail: the row is
  appended before `release()` (`faultscan.py` 74-78), and if that raised, a second
  row would follow.
- The poller. `CommandsRun` is about a poller that lives. Its death by the two
  looks at `_csv` is in `LiveLog` (`livelog_poller`) and left out of `DiagServer`.
- Answers. `AnswerIsOwn` and `InitIsHeard` are about requests and inits begun
  when nothing was owed. An answer that comes after the tester gave up can be
  taken for that of the next request to the same service, and over the bridge a
  late line shifts every answer by one, because neither replies nor lines carry a
  number; the models have both. Frames are not cut in two.
- Pending replies. `KWP2000.request` says that it waits for a pending reply
  (`kwp2000.py` 86-87, and `kline-protocol.md` 310). The tolerant mode does not wait
  at all, and in strict mode a pending reply that follows a damaged echo is taken
  for the echo (`kline.py` 236), after which the time runs out and the request is
  sent again. Both are in the model; no property promises otherwise.
- The outbox. `NothingIsLost` counts what a torn file or a full outbox loses as
  given up (`dropped`). `ImplementsOutbox` maps the outbox to a set: a reading that
  is stored twice after a lost answer is not seen.
- Two handlers. `community` has one handler at a time. Two of them lose a reading
  (`community_threads`), and two that both find no install id make one each, though
  `install_id` says "generated once and persisted" (`community/__init__.py` 93): a
  client may then take itself for registered under an id that the endpoint has
  never seen. TLC finds that too as a violation of `ContributorIsKnown` when
  `MCCommunityThreads.cfg` is given that invariant.
- The sources. `AbsenceIsNotCounted` is about tabs: a lost contact counts up to
  the cap, since `poll`'s error path (`sources.py` 420-427) does not call `pause()`,
  whose docstring names the reconnect. `ClearedListGoes` is satisfied by a read
  that fails, which leaves the old list for another 30 s.
- The logs. `RowsUnderOwnHeader` and `JournalsAreCurrent` except what the disk
  refused last. A refused header is a finding (`livelog_header`). A refused line of
  the journal is not written later either, until the fault list changes again or
  the interval has passed: the memory is set before the write (`logger.py` 43-46,
  58), though the docstring has a line "always immediately when the set of fault
  codes changes". The connection log does the same (`server.py` 500-503).
- The mapping tools. A frame that was read before Re-baseline or Clear changes and
  taken in after it is counted as of the new baseline, and `ChangedBitsRested` is
  about the baseline in force. `SniffedIsAttributed` excepts sessions whose init the
  feed did not recognise and modules without a signature. `AcceptedFieldIsKept`
  excepts overlapping rewrites (`lapped`), which do lose a field.
- The node. `RecoveryInitAfterSilence` is about the inits of the recovery. An
  excursion's SLABS init follows at once the frames of a page served in its silence
  (`handleScan` inside `busQuiet`), and the excursion goes on sending when a page
  has entered bridge mode in the middle of it. The comment at ino 104-108 says that
  `td5Establish` sends an 82 "before EVERY attempt" and that silence does not clear
  a link; the code sends one teardown and then a "PURE init (no 82 - keep the
  silence intact)" (ino 451-459), which is what is modelled. `SecondsAreKept` is
  about seconds: of two points of one second the database keeps one. A line that
  the database refuses blocks the rest of the file for ever; nothing promises that
  the file drains.

## 5. Proofs

Everything below holds for every set of modules and tabs, every scan order, and
every number of attempts and commands; in the other modules for every value of their
constants. It rests on the named assumptions of the modules
(`SessionAssumption`, `ScanAssumption`, `ServerAssumption`,
`CommunityAssumption`, ...), which TLC evaluates in the runs.

Every invariant and every action property of the passing runs has its theorem.
Those of the contribution client have a further hypothesis, which their paragraph
explains.

`FaultScan_proofs` begins with the lemmas about the session object, for any caller:
which phases a step leads from and to (`EstablishPhases`, `ReleasePhases`), that
it keeps the types (`SessionStepTyped`), and what the ECUs may still hold at
each phase (`SessionDebts`, `LinkDebts`): release has sent 20 and 82 by the time
it closes, and the 82 that begins a fast establish has cleared what earlier
objects left.

The scan: `ScanSpec` implies `[]ScanTypeOK`, `[]ClosedPortOwesNoLink`,
`[]ClosedPortOwesNoTd5Session`, `[]InitAfterSilence` and `[]OneRowPerModule`.
None of them is inductive. `ScanInv` adds where the running method stands: the
only open transport is that of the running object (`ObjectOwnsPort`), which is
the one of `ScanOrder[scanAt]` (`ObjectOfScan`); by the time it closes, 82 and
20 have gone out (`ReleasedBeforeClose`); an opened module has no row before
its release begins, and has one once its object is closed (`RowAtItsPlace`);
the wire is silent when an Airbag is opened (`SilentStart`).

`DiagServer_proofs`: `Spec` implies `[]TypeOK`, `[]OnePortInUse`,
`[]StaleLinkCleared`, `[]QuietBeforeInit`, `[]SignalsLabelled`,
`[]WaitingCommandAborts`, `HeldSessionReleased` and `ServesCommands`.
`ServerInv` has seven parts, each kept by a lemma with one case per action:

- `TypeOK`; a mode switch keeps it only because the poller is at a command;
- `PlaceInv`: only the active source of the live mode can hold a session, and
  the method of another object runs only where the poller connects or scans,
  when that source holds nothing. `OnePortInUse` follows;
- `Debts`: `SessionDebts` and `LinkDebts` over all callers, also those that
  abandon a connection. `StaleLinkCleared` follows, and with `PlaceInv`
  `HeldSessionReleased`;
- `Quietness`: until the server stops, the wire is silent wherever an init is about
  to go out, and where the scan opens an Airbag, which waits for nothing itself:
  the modules before it have their rows (`RowsSoFar`), so the scan is past its
  first one, and the pause after that module was whole. `QuietBeforeInit` follows;
- `Labels`: the snapshot carries the active module and the mode, and a poll
  ends with the tab it began with;
- `Patience`: an init that goes out while a command waits is the last one;
- `QueueOrder`: the queue holds the queued commands in increasing order and at
  most one is running, so the head is the next in order of acceptance
  (`HeadIsNext`). With it every step is a step of `CommandService` or a stutter
  (`ServiceStep`).

`LiveSources_proofs`: `Spec` implies `[]AbsenceIsNotCounted` and `[]TypeOK`.
The first needs that the fuel clock stands still from the moment the tab is left
until the TD5 is read again (`Paused`), through every poll, loss and command in
between. The second needs that a session in use has not used up its grace
(`Grace`), and that an age stays within its threshold (`AgedByStep`).

`LiveLog_proofs`: `Spec` implies `[]JournalsAreCurrent`. Between two notes the
connection log may already be about the tab that is being connected: the
invariant says that its last line is about that tab or about the last
transition (`LinesOfTab`), and about the last transition wherever no source is
connecting (`LineOfTransition`), or that it was refused; `Note` then closes the
gap in both branches. `Remembered` says that the journal's last line has the
faults the logger remembers, or was refused.
`[]RowsUnderOwnHeader`, whatever the disk refuses: `HeaderInFile` says that the
header of the recorder in use is the last one in its file, or was refused;
`FreshUntilTaken`, that a recorder the poller has not taken has written nothing,
so that two recordings in one second cannot disturb each other's header.
`[]StoppedRecordingEnds` from `RowStillOwed`: a stopped recording has at most the row
of the round that holds its recorder. `[]TypeOK` counts the rows (`RowsCounted`).

`KLine_proofs`: `Spec` implies `[]AnswerIsOwn`, `[]InitIsHeard` and `[]TypeOK`,
which bounds the retries and the pending replies, and no buffer. The
invariant of the first is `OnlyMine`: in a request that began with
nothing outstanding, all that the control unit, the node and the wire hold is of
this request, from one of its attempts, once the buffer has been emptied; before
that, the buffer may hold anything. `NodeListens` says that the node collects
frames for the line it has sent only. For `InitIsHeard`, `EchoInv` says that in the
burst of an init begun with nothing owed the tester's own frame comes first if it
comes at all (`EchoLeads`), because nothing can reach the buffer between the flush
and the send and the node drops what came before; the search behind the echo
then meets frames of the control unit only. A reply is the first frame in the buffer that passes a test
(`PositivePlace`, `NegativePlace`), and numbers have a first (`LeastNumber`), which
the library proves from the well-foundedness of `<`.

`Community_proofs`: with one handler at a time (`Cardinality(Threads) = 1`), `Spec`
implies `[]ContributorIsKnown`. `CommunityInv` says what each handler holds (`CallInv`), that all lists,
in memory and on disk, have contributed readings only (`ListInv`), that only
those have rows (`RowInv`), that a post under way carries the id the client has now,
and that a handler which found no id still finds none when it stores its own
(`IdInv`), and the property with its client side (`KnownInv`). `FreshIsThere`
shows by counting that the model has enough list objects.

Under the same hypothesis `Spec` implies `[]NothingIsLost`, `ImplementsOutbox` and
`[]TypeOK`. It is that of the run, and needed: `community_threads` shows two
handlers losing a reading, and two that make an install id each leave the client
registered under an id it no longer has.
`Books` types the ids, the file and the fates of the readings. `OneHandler` says
where an accepted reading is: between flushes the file holds what the client
holds; during one, what the file holds and the flushed list does not has a row at
the endpoint already, so a crash may lose the list. For the refinement, `OrderInv`
adds that the list of a flush is the file's without a first part that is at the
endpoint (`LeftOf`), that no reading is in the file twice, and that one given up is
not in it. Every step then maps to a step of `BoundedOutbox` or a stutter; the
case that takes work is `EnqueueRefines`, where the list is cut to its newest
`MaxOutbox` and the reading given up is or is not at the endpoint.

`BusTools_proofs`: `Spec` implies `[]SniffedIsAttributed`, from the invariant that
the module of a noticed session is the one on the bus (`RightModule`) and was so
for every answer kept (`RightSlots`); `[]AcceptedFieldIsKept`, which is
inductive: an edit drops no row but those it concerns; `[]ChangedBitsRested`,
`[]MappedFieldFitsSamples` and `[]TypeOK`. A bit that a mapper offers had rested
because the resting levels it is compared with are those of the bits that all
blocks of the baseline agree on (`Measured`), of an identifier whose blocks are
all there (`Counted`), whatever the page's handlers did between a block's reading
and its use. A proposed field fits the readings (`SolvedFits`) because the search
takes a place that fits, if there is one. That it then has a first place to take
(`EarliestPlace`) rests on the least of a set of numbers, used for the four
numbers by which places are compared. `MappingInv` also types the store, whose
writers replay edits on rows they read earlier (`JobsTyped`).

`KlineNode_proofs`: `Spec` implies `[]SecondsAreKept`,
`[]RecoveryInitAfterSilence` and `[]TypeOK`. `Settling`: from the teardown of a
recovery on, with the logger on and the host away, no cycle, excursion or session
is under way, and the silence after the teardown lasts or is over; where a page
has stopped the logger or the host has come, the way back begins the recovery
anew, with a teardown. `PointsInv`: a second owed is in the database or behind the
offset of the file (`Unsent`), and a point is posted only with the second it was
read in; a POST moves the offset only past a chunk that is all in the database, and
a reboot, which forgets the offset, makes more of the file unsent and none less.

Only model-checked. Liveness under fairness is out of the prover's reach:
`ScanEnds`, `CommandsRun`, `RequestEnds`, `SilenceEndsSession`, `ClearedListGoes`
and `RecoverySettles`. The four violations (`server_leak`, `community_threads`, `livelog_header`,
`livelog_poller`) are TLC's counterexamples. No definition of
the models is recursive, so nothing was left for want of induction over data.

## 6. Not modelled

Bytes of frames, checksums, timing of the init pulse, the contents of replies,
HTTP routing, the admin password, SSE, shutdown of the host, the mock report of
the scan and the mock sources. Real time is counted in `LiveSources` only; a
sleep elsewhere is one step. The transports are taken to close when told; of
their code `KLine` has what is sent and received, not the search for a port.

- `bcu`: not reachable from the dashboard's sources; planned.
- The two sides of the bridge together: `KLine` has the host's side against any
  node, and in `KlineNode` a command of the host and its answer are one step.
- Decoders, fault tables, menus, documents, the calibration and the library of
  `sniff`: pure functions and tables; numeric fields (a linear fit over floats)
  and the decoding of values are left out of `FieldSearch`.
- The cache of `load_signals`, the totals of the fuel computer and their file,
  the formatting of CSV rows, the engine note and error texts of the connection
  log. `LiveLog` is the live mode: the mock sources log no transitions.
- Of the endpoint the admin page and its token.
- Of the node the fault-edge points, the fuel computer, the raw capture, the
  heartbeat, OTA beyond its first step, the display pages, a failing file
  system, and a clock that NTP sets back.
