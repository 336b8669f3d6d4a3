------------------------------ MODULE FaultScan ------------------------------
(***************************************************************************)
(* "Read all fault codes" (faultscan.read_all, live mode): the modules of  *)
(* ScanOrder one after the other on the shared wire, each with a session   *)
(* object of its own that is released whatever happens, one report row per *)
(* module.  Sleeps are plain time.sleep: nothing interrupts them.          *)
(***************************************************************************)
EXTENDS EcuSession, Sequences

CONSTANT ScanOrder  \* the modules read, in order

ASSUME ScanAssumption ==
  /\ ScanOrder \in Seq(Modules)
  /\ ScanOrder # <<>>
  /\ ScanOrder[1] \notin SlowInit

VARIABLES
  scanAt,  \* index in ScanOrder; 0 between scans, Len + 1 when returning
  report   \* the rows so far

scanVars == <<scanAt, report>>

Row == [module : Modules, status : {"read", "error"}]

busVars == <<sessionVars, scanVars>>

ScanInit ==
  /\ SessionInit
  /\ scanAt = 0
  /\ report = <<>>

Scanning == scanAt \in DOMAIN ScanOrder

RowDone == Len(report) >= scanAt

AddRow(status) ==
  report' = Append(report, [module |-> ScanOrder[scanAt], status |-> status])

-----------------------------------------------------------------------------
(***************************************************************************)
(* The port is resolved once; without a cable every module gets an error   *)
(* row and nothing is opened.                                              *)
(***************************************************************************)
BeginScan ==
  /\ scanAt = 0
  /\ phase = "none"
  /\ \/ /\ scanAt' = 1
        /\ report' = <<>>
     \/ /\ scanAt' = Len(ScanOrder) + 1
        /\ report' = [k \in DOMAIN ScanOrder |->
                        [module |-> ScanOrder[k], status |-> "error"]]
  /\ UNCHANGED sessionVars

(***************************************************************************)
(* open() of the next module, or its exception.                            *)
(***************************************************************************)
ScanOpen ==
  /\ Scanning
  /\ ~RowDone
  /\ phase = "none"
  /\ \/ /\ Open(ScanOrder[scanAt])
        /\ UNCHANGED scanVars
     \/ /\ AddRow("error")
        /\ UNCHANGED <<sessionVars, scanAt>>

ScanEstablish ==
  /\ Scanning
  /\ Exchange \/ Settle(TRUE) \/ Quiet(TRUE) \/ Confirm
  /\ UNCHANGED scanVars

(***************************************************************************)
(* establish() raised: finally releases the object.                        *)
(***************************************************************************)
ScanFailedCloses ==  \* mutant: close() in place of release()
  /\ Scanning
  /\ phase = "failed"
  /\ phase' = "closing"
  /\ UNCHANGED <<cur, try, ports, linkDue, sessDue, settled, scanVars>>

ScanFailed ==
  /\ Scanning
  /\ phase = "failed"
  /\ phase' = "ending"
  /\ UNCHANGED <<cur, try, ports, linkDue, sessDue, settled, scanVars>>

(***************************************************************************)
(* read_faults() answers, which adds the row, or raises; either way        *)
(* finally releases.                                                       *)
(***************************************************************************)
ScanReadTwice ==  \* mutant: the row is added before the faults are decoded
  /\ Scanning
  /\ phase = "up"
  /\ phase' = "ending"
  /\ settled' = FALSE
  /\ \/ AddRow("read")
     \/ LET m == ScanOrder[scanAt] IN
          report' = report \o <<[module |-> m, status |-> "read"],
                               [module |-> m, status |-> "error"]>>
  /\ UNCHANGED <<cur, try, ports, linkDue, sessDue, scanAt>>

ScanRead ==
  /\ Scanning
  /\ phase = "up"
  /\ phase' = "ending"
  /\ settled' = FALSE
  /\ AddRow("read") \/ UNCHANGED report
  /\ UNCHANGED <<cur, try, ports, linkDue, sessDue, scanAt>>

(***************************************************************************)
(* The finally clause; after it an exception still under way becomes the   *)
(* module's error row.                                                     *)
(***************************************************************************)
ScanRelease ==
  /\ Scanning
  /\ ReleaseStep
  /\ UNCHANGED scanVars

ScanClose ==
  /\ Scanning
  /\ Close
  /\ IF RowDone THEN UNCHANGED report ELSE AddRow("error")
  /\ UNCHANGED scanAt

(***************************************************************************)
(* On to the next module, after a pause between modules.                   *)
(***************************************************************************)
NextModule ==
  /\ Scanning
  /\ RowDone
  /\ phase = "none"
  /\ scanAt' = scanAt + 1
  /\ settled' = (settled \/ scanAt < Len(ScanOrder))
  /\ UNCHANGED <<cur, phase, try, ports, linkDue, sessDue, report>>

ScanStep ==
  \/ ScanOpen \/ ScanEstablish \/ ScanFailed \/ ScanRead \/ ScanRelease
  \/ ScanClose \/ NextModule

(***************************************************************************)
(* The report is returned.                                                 *)
(***************************************************************************)
ScanReturn ==
  /\ scanAt = Len(ScanOrder) + 1
  /\ scanAt' = 0
  /\ report' = <<>>
  /\ UNCHANGED sessionVars

-----------------------------------------------------------------------------
(***************************************************************************)
(* Scans on their own, one after the other.  WF: the scan runs on a thread *)
(* that is scheduled, every read has a timeout and every sleep an end.     *)
(***************************************************************************)
Scan == BeginScan \/ ScanStep \/ ScanReturn

ScanSpec == ScanInit /\ [][Scan]_busVars /\ WF_busVars(Scan)

-----------------------------------------------------------------------------
(***************************************************************************)
(* The types of the scan and of the session object it drives.              *)
(***************************************************************************)
ScanTypeOK ==
  /\ SessionTypeOK
  /\ scanAt \in 0 .. Len(ScanOrder) + 1
  /\ report \in Seq(Row)

(***************************************************************************)
(* "Always end a module with release()": whatever failed, no transport is  *)
(* closed while its module may still hold the link our init opened.        *)
(***************************************************************************)
ClosedPortOwesNoLink == linkDue \subseteq ports

(***************************************************************************)
(* A diagnostic session of Td5 never outlives its transport.  (That of the *)
(* Airbag does: session.py:31-32 says it has none to close, airbag.py:57   *)
(* starts one.)                                                            *)
(***************************************************************************)
ClosedPortOwesNoTd5Session == sessDue \cap Unlocking \subseteq ports

(***************************************************************************)
(* Every init, first or retried, goes out on a wire that has been silent   *)
(* for a whole wait: the module needs the pause to release its link, and   *)
(* anything sent during it starts the wait again (session.py, _establish). *)
(* Every sleep of the code counts as a whole wait, the 0.3 s between the   *)
(* 82 of SLABS and its first init like the 28 s between its attempts,      *)
(* which are what the sniffs show that it needs (session.py 145-149).      *)
(***************************************************************************)
InitAfterSilence == phase = "init" => settled

(***************************************************************************)
(* A module that fails, at whatever step, costs its own row only: the rows *)
(* follow ScanOrder, one per module tried.                                 *)
(***************************************************************************)
OneRowPerModule ==
  /\ \A k \in DOMAIN report : report[k].module = ScanOrder[k]
  /\ Scanning => Len(report) \in {scanAt - 1, scanAt}
  /\ scanAt = Len(ScanOrder) + 1 => Len(report) = Len(ScanOrder)

(***************************************************************************)
(* A scan that starts returns its report, however the modules answer.      *)
(***************************************************************************)
ScanEnds == scanAt = 1 ~> scanAt = Len(ScanOrder) + 1

=============================================================================
