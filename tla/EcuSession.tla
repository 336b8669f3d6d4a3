----------------------------- MODULE EcuSession -----------------------------
(***************************************************************************)
(* The tester's session object for one module of the car (EcuSession and   *)
(* its subclasses Td5, Slabs and Airbag), talking to ECUs that share one   *)
(* K-line wire.                                                            *)
(*                                                                         *)
(* One thread drives the object, so its state is the place where the       *)
(* running call stands (phase), the attempt it is at (try) and the         *)
(* transports that are open (ports).  The ECUs are external: every         *)
(* exchange ends in one of three ways the code tells apart, and what they  *)
(* may still hold is recorded as what the tester owes them.                *)
(***************************************************************************)
EXTENDS Integers, FiniteSets

CONSTANTS
  Modules,    \* every module the tester can open
  NoModule,   \* no session object is in use
  Unlocking,  \* Td5: establish runs 10 A0 and SecurityAccess after the init
  Confirming, \* Slabs: establish asks 1A 8A after the init
  SlowInit,   \* Airbag: 5-baud init, 10 81, addressed frames
  Attempts    \* attempts of one establish, per module

ASSUME SessionAssumption ==
  /\ NoModule \notin Modules
  /\ Modules = Unlocking \cup Confirming \cup SlowInit
  /\ Unlocking \cap Confirming = {}
  /\ Unlocking \cap SlowInit = {}
  /\ Confirming \cap SlowInit = {}
  /\ Attempts \in [Modules -> Nat \ {0}]

VARIABLES
  cur,      \* module of the session object whose method is running
  phase,    \* where that method stands
  try,      \* attempts of the running establish that have failed
  ports,    \* modules whose session object in use has an open transport
  linkDue,  \* modules sent an init and since then no 82 (a try counts as sent)
  sessDue,  \* modules sent a 10 and since then no 20: may hold a session
  settled   \* the wire has been silent for a whole wait since the last frame

sessionVars == <<cur, phase, try, ports, linkDue, sessDue, settled>>

(***************************************************************************)
(* What an exchange comes to: a positive reply, a protocol error           *)
(* (KLineError, KWP2000Error, ValueError), or any other exception, such as *)
(* the serial port disappearing.                                           *)
(***************************************************************************)
Outcomes == {"ok", "error", "raise"}

Sleeping == {"settle", "quiet", "confirm"}

Phases == {"none", "opened", "init", "session", "unlock", "up", "failed",
           "ending", "stopping", "closing"} \cup Sleeping

(***************************************************************************)
(* Only Td5 declares a diagnostic session to close (_has_session).         *)
(***************************************************************************)
EndsSessionUnset(m) == FALSE \* mutant: _has_session left at its default

EndsSession(m) == m \in Unlocking

(***************************************************************************)
(* The modules that hear a session frame sent by m's object.  Airbag       *)
(* frames carry its address, all others are unaddressed.                   *)
(***************************************************************************)
Heard(m) == IF m \in SlowInit THEN {m} ELSE Modules \ SlowInit

SessionInit ==
  /\ cur = NoModule
  /\ phase = "none"
  /\ try = 0
  /\ ports = {}
  /\ linkDue = {}
  /\ sessDue = {}
  /\ settled = FALSE

-----------------------------------------------------------------------------
(***************************************************************************)
(* open(): the object gets its transport.                                  *)
(***************************************************************************)
Open(m) ==
  /\ phase = "none"
  /\ cur' = m
  /\ phase' = "opened"
  /\ try' = 0
  /\ ports' = ports \cup {m}
  /\ UNCHANGED <<linkDue, sessDue, settled>>

(***************************************************************************)
(* _establish starts with one best-effort 82 and then goes silent; the     *)
(* Airbag object goes straight to its slow init.                           *)
(***************************************************************************)
BeginWithoutStop ==  \* mutant: no 82 before the silence
  /\ phase = "opened"
  /\ phase' = IF cur \in SlowInit THEN "init" ELSE "settle"
  /\ UNCHANGED <<cur, try, ports, linkDue, sessDue, settled>>

BeginEstablish ==
  /\ phase = "opened"
  /\ \/ /\ cur \in SlowInit
        /\ phase' = "init"
        /\ UNCHANGED <<linkDue, settled>>
     \/ /\ cur \notin SlowInit
        /\ phase' = "settle"
        /\ linkDue' = linkDue \ Heard(cur)
        /\ settled' = FALSE
  /\ UNCHANGED <<cur, try, ports, sessDue>>

(***************************************************************************)
(* sleep(idle) returns.  whole = FALSE when the injected sleep returned    *)
(* before its time.                                                        *)
(***************************************************************************)
Settle(whole) ==
  /\ phase = "settle"
  /\ phase' = "init"
  /\ settled' = whole
  /\ UNCHANGED <<cur, try, ports, linkDue, sessDue>>

(***************************************************************************)
(* StartCommunication.  After a protocol error Td5 tries its session       *)
(* anyway, the others go quiet; any other exception leaves establish.      *)
(***************************************************************************)
AfterInit(out) ==
  CASE out = "raise" -> "failed"
    [] cur \in Unlocking -> "session"
    [] out = "error" -> "quiet"
    [] cur \in Confirming -> "confirm"
    [] OTHER -> "session"

SendInit(out) ==
  /\ phase = "init"
  /\ phase' = AfterInit(out)
  /\ linkDue' = linkDue \cup {cur}
  /\ settled' = FALSE
  /\ UNCHANGED <<cur, try, ports, sessDue>>

(***************************************************************************)
(* StartDiagnosticSession (10 A0, or 10 81 for the Airbag).                *)
(***************************************************************************)
StartSession(out) ==
  /\ phase = "session"
  /\ phase' = CASE out = "raise" -> "failed"
                [] out = "error" -> "quiet"
                [] OTHER -> IF cur \in Unlocking THEN "unlock" ELSE "up"
  /\ sessDue' = sessDue \cup {cur}
  /\ settled' = FALSE
  /\ UNCHANGED <<cur, try, ports, linkDue>>

(***************************************************************************)
(* SecurityAccess: 27 01, then 27 02 with the key.                         *)
(***************************************************************************)
Unlock(out) ==
  /\ phase = "unlock"
  /\ phase' = CASE out = "raise" -> "failed"
                [] out = "error" -> "quiet"
                [] OTHER -> "up"
  /\ settled' = FALSE
  /\ UNCHANGED <<cur, try, ports, linkDue, sessDue>>

(***************************************************************************)
(* sleep(retry_sleep) returns: the next attempt, or KWP2000Error after the *)
(* last one.                                                               *)
(***************************************************************************)
QuietThenStop(whole) ==  \* mutant: an 82 before every attempt
  /\ phase = "quiet"
  /\ settled' = FALSE
  /\ linkDue' = linkDue \ Heard(cur)
  /\ try' = try + 1
  /\ phase' = IF try + 1 < Attempts[cur] THEN "init" ELSE "failed"
  /\ UNCHANGED <<cur, ports, sessDue>>

QuietForever(whole) ==  \* mutant: the attempts are not counted
  /\ phase = "quiet"
  /\ settled' = whole
  /\ phase' = "init"
  /\ UNCHANGED <<cur, try, ports, linkDue, sessDue>>

Quiet(whole) ==
  /\ phase = "quiet"
  /\ settled' = whole
  /\ try' = try + 1
  /\ phase' = IF try + 1 < Attempts[cur] THEN "init" ELSE "failed"
  /\ UNCHANGED <<cur, ports, linkDue, sessDue>>

(***************************************************************************)
(* _confirm_session: a short sleep, then 1A 8A, whose outcome is only      *)
(* reported.                                                               *)
(***************************************************************************)
Confirm ==
  /\ phase = "confirm"
  /\ phase' = "up"
  /\ settled' = FALSE
  /\ UNCHANGED <<cur, try, ports, linkDue, sessDue>>

(***************************************************************************)
(* The injected sleep raises: the exception leaves establish.              *)
(***************************************************************************)
SleepRaises ==
  /\ phase \in Sleeping
  /\ phase' = "failed"
  /\ UNCHANGED <<cur, try, ports, linkDue, sessDue, settled>>

-----------------------------------------------------------------------------
(***************************************************************************)
(* release(): 20 if the module has a session, then 82, then close().  The  *)
(* replies are not looked at, and no exception stops the sequence.         *)
(***************************************************************************)
EndSession ==
  /\ phase = "ending"
  /\ phase' = "stopping"
  /\ IF EndsSession(cur)
     THEN /\ sessDue' = sessDue \ Heard(cur)
          /\ settled' = FALSE
     ELSE UNCHANGED <<sessDue, settled>>
  /\ UNCHANGED <<cur, try, ports, linkDue>>

StopCommunication ==
  /\ phase = "stopping"
  /\ phase' = "closing"
  /\ linkDue' = linkDue \ Heard(cur)
  /\ settled' = FALSE
  /\ UNCHANGED <<cur, try, ports, sessDue>>

CloseKeepsObject ==  \* mutant: the closed object stays in use
  /\ phase = "closing"
  /\ phase' = "none"
  /\ ports' = ports \ {cur}
  /\ try' = 0
  /\ UNCHANGED <<cur, linkDue, sessDue, settled>>

Close ==
  /\ phase = "closing"
  /\ phase' = "none"
  /\ cur' = NoModule
  /\ ports' = ports \ {cur}
  /\ try' = 0
  /\ UNCHANGED <<linkDue, sessDue, settled>>

(***************************************************************************)
(* The steps of establish up to its next sleep, and those of release.      *)
(***************************************************************************)
Exchange ==
  \/ BeginEstablish
  \/ \E out \in Outcomes : SendInit(out) \/ StartSession(out) \/ Unlock(out)

ReleaseStep == EndSession \/ StopCommunication

SessionTypeOK ==
  /\ cur \in Modules \cup {NoModule}
  /\ phase \in Phases
  /\ try \in Nat
  /\ ports \subseteq Modules
  /\ linkDue \subseteq Modules
  /\ sessDue \subseteq Modules
  /\ settled \in BOOLEAN
  /\ (cur = NoModule) <=> (phase = "none")

=============================================================================
