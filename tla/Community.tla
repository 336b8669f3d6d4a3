------------------------------ MODULE Community ------------------------------
(***************************************************************************)
(* The opt-in contribution client and the endpoint it posts to.  The       *)
(* handlers run on the threads of the dashboard's HTTP server, without a   *)
(* lock around the shared configuration; a post takes up to 8 s.  The      *)
(* outbox is a Python list that several threads may hold: heap gives every *)
(* list object its value.                                                  *)
(***************************************************************************)
EXTENDS Naturals, FiniteSets, SequencesExt

CONSTANTS
  Threads,     \* HTTP threads that serve /community/... at the same time
  Readings,    \* what the user may contribute, each once
  Rejected,    \* the readings the endpoint's validation refuses
  NoReading,
  NoInstall,   \* install_id is missing
  MaxOutbox,   \* _MAX_OUTBOX
  MaxCrashes,  \* bound: restarts of the program
  MaxCopies    \* bound: copies of one reading that are told apart

ASSUME CommunityAssumption ==
  /\ IsFiniteSet(Threads)
  /\ Rejected \subseteq Readings
  /\ NoReading \notin Readings
  /\ NoInstall \notin (0 .. MaxCrashes) \X Threads
  /\ MaxOutbox \in Nat \ {0}
  /\ MaxCrashes \in Nat
  /\ MaxCopies \in Nat \ {0}

VARIABLES
  consent,     \* _cfg["consent"]: never chosen, yes or no
  registered,  \* _cfg["registered"]
  install,     \* _cfg["install_id"]
  box,         \* _cfg["outbox"]: a list object, 0 while the key is missing
  heap,        \* list object -> its value
  call,        \* thread -> where its handler is, its reading, the list it holds
  disk,        \* the configuration file
  rows,        \* the endpoint's contributions: reading -> number of rows
  known,       \* the endpoint's table of installs
  sender,      \* reading -> the install_id in its payload
  asked,       \* readings the user contributed
  acked,       \* readings whose contribute() returned
  dropped,     \* readings the cap pushed out or a torn file lost
  crashes

memVars == <<consent, registered, install, box, heap>>
endpointVars == <<rows, known>>
vars == <<memVars, call, disk, endpointVars, sender, asked, acked, dropped, crashes>>

(***************************************************************************)
(* A random id is told apart by the run and the thread it is made in: a    *)
(* thread makes one in a run at most, for the key is never removed.        *)
(***************************************************************************)
Installs == (0 .. MaxCrashes) \X Threads
NewId(t) == <<crashes, t>>

ListIds == 1 .. Cardinality(Threads) + 1
Idle == [pc |-> "idle", rec |-> NoReading, list |-> 0]
BlankFile == [consent |-> "unset", registered |-> FALSE, install |-> NoInstall,
              outbox |-> <<>>]

Value(id) == IF id = 0 THEN <<>> ELSE heap[id]
FreshList == CHOOSE id \in ListIds :
               id # box /\ \A t \in Threads : id # call[t].list

(***************************************************************************)
(* The database and its tables are made when they do not exist: what was   *)
(* stored outlives the endpoint, and every connection sees all of it.      *)
(***************************************************************************)
EndpointInit ==
  /\ rows = [r \in Readings |-> 0]
  /\ known = {}

Init ==
  /\ consent = "unset"
  /\ registered = FALSE
  /\ install = NoInstall
  /\ box = 0
  /\ heap = [id \in ListIds |-> <<>>]
  /\ call = [t \in Threads |-> Idle]
  /\ disk = BlankFile
  /\ EndpointInit
  /\ sender = [r \in Readings |-> NoInstall]
  /\ asked = {}
  /\ acked = {}
  /\ dropped = {}
  /\ crashes = 0

Save ==
  disk' = [consent |-> consent', registered |-> registered',
           install |-> install',
           outbox |-> IF box' = 0 THEN <<>> ELSE heap'[box']]

Return(t) == call' = [call EXCEPT ![t] = Idle]
Acknowledge(t) == acked' = acked \union ({call[t].rec} \ {NoReading})
GoTo(t, pc) == call' = [call EXCEPT ![t].pc = pc]

-----------------------------------------------------------------------------
(***************************************************************************)
(* The endpoint: a refused payload stores nothing; an accepted one touches *)
(* the install and adds a row in one transaction.  There is no key that    *)
(* would tell a repeated reading from a new one.                           *)
(***************************************************************************)
Accepted(r) == r \notin Rejected  \* no personal key, an install id, a module

StoreInstall(id) == known' = known \union {id}

AddRowOnly(r) ==  \* mutant: the install is touched by /register only
  IF Accepted(r)
    THEN /\ rows' = [rows EXCEPT ![r] = IF @ < MaxCopies THEN @ + 1 ELSE @]
         /\ UNCHANGED known
    ELSE UNCHANGED endpointVars

AddContribution(r) ==
  IF Accepted(r)
    THEN /\ rows' = [rows EXCEPT ![r] = IF @ < MaxCopies THEN @ + 1 ELSE @]
         /\ StoreInstall(sender[r])
    ELSE UNCHANGED endpointVars

(***************************************************************************)
(* _post of reading r: the request may be lost, or its answer.             *)
(***************************************************************************)
PostContribution(r, reached) ==
  IF reached THEN AddContribution(r) ELSE UNCHANGED endpointVars

PostOk(r, reached, answered) == reached /\ answered /\ Accepted(r)

-----------------------------------------------------------------------------
(***************************************************************************)
(* install_id(): looks, and when there is no id yet, makes one and stores  *)
(* and saves it without looking again.  It is called for the page's state, *)
(* to register, and for the payload of a contribution; between the look    *)
(* and the store another thread may store an id of its own.                *)
(***************************************************************************)
Making == {"state", "enrol", "contribute"}

FindNoId(t) ==
  /\ install = NoInstall
  /\ \/ call[t] = Idle /\ GoTo(t, "state")
     \/ call[t] = Idle /\ consent = "yes" /\ GoTo(t, "contribute")
     \/ call[t].pc = "register" /\ GoTo(t, "enrol")
  /\ UNCHANGED <<memVars, disk, endpointVars, sender, asked, acked, dropped, crashes>>

InstallId(t) ==
  IF call[t].pc \in Making THEN install' = NewId(t)
  ELSE install # NoInstall /\ UNCHANGED install

GetState(t) ==
  /\ call[t].pc = "state"
  /\ InstallId(t)
  /\ Return(t)
  /\ UNCHANGED <<consent, registered, box, heap, endpointVars, sender,
                 asked, acked, dropped, crashes>>
  /\ Save

(***************************************************************************)
(* The payload: named fields of the reading and nothing else of it, and    *)
(* the install's own id; so it passes the endpoint's check of personal     *)
(* keys and ids, and is refused when it names no module.                   *)
(***************************************************************************)
Payload(r) == sender' = [sender EXCEPT ![r] = install']

(***************************************************************************)
(* set_consent: the choice is saved; an opt-in registers, then flushes.    *)
(***************************************************************************)
SetConsent(t) ==
  /\ call[t] = Idle
  /\ \E choice \in {"yes", "no"} :
       /\ consent' = choice
       /\ GoTo(t, IF choice = "yes" THEN "register" ELSE "idle")
  /\ UNCHANGED <<registered, install, box, heap, endpointVars, sender, asked, acked, dropped, crashes>>
  /\ Save

Register(t) ==
  /\ call[t].pc \in {"register", "enrol"}
  /\ InstallId(t)
  /\ \E reached, answered \in BOOLEAN :
       /\ IF reached THEN StoreInstall(install') /\ UNCHANGED rows
                     ELSE UNCHANGED endpointVars
       /\ registered' = (registered \/ (reached /\ answered))
       /\ IF reached /\ answered THEN GoTo(t, "flush") ELSE Return(t)
  /\ UNCHANGED <<consent, box, heap, sender, asked, acked, dropped, crashes>>
  /\ Save

(***************************************************************************)
(* contribute: refused without consent, else sent at once; a failed post   *)
(* queues the reading, whatever made it fail.                              *)
(***************************************************************************)
Contribute(t) ==
  /\ (call[t] = Idle /\ consent = "yes") \/ call[t].pc = "contribute"
  /\ InstallId(t)
  /\ \E r \in Readings \ asked :
       /\ call' = [call EXCEPT ![t].pc = "post", ![t].rec = r]
       /\ asked' = asked \union {r}
       /\ Payload(r)
  /\ UNCHANGED <<consent, registered, box, heap, endpointVars, acked, dropped, crashes>>
  /\ IF call[t].pc = "contribute" THEN Save ELSE UNCHANGED disk

PostReading(t) ==
  /\ call[t].pc = "post"
  /\ \E reached, answered \in BOOLEAN :
       /\ PostContribution(call[t].rec, reached)
       /\ IF PostOk(call[t].rec, reached, answered)
            THEN registered' = TRUE /\ GoTo(t, "flush")
            ELSE UNCHANGED registered /\ GoTo(t, "enqueue")
  /\ UNCHANGED <<consent, install, box, heap, disk, sender, asked, acked, dropped, crashes>>

(***************************************************************************)
(* _enqueue: `get("outbox") or []` makes a new list when the present one   *)
(* is empty; the reading is appended in place, and a list over the cap is  *)
(* replaced by a new one of its newest readings.                           *)
(***************************************************************************)
Newest(queue) == SubSeq(queue, Len(queue) - MaxOutbox + 1, Len(queue))

EnqueueUncapped(t) ==  \* mutant: the outbox grows without bound
  /\ call[t].pc = "enqueue"
  /\ LET list == IF Value(box) = <<>> THEN FreshList ELSE box
     IN /\ box' = list
        /\ heap' = [heap EXCEPT ![list] = Append(Value(box), call[t].rec)]
  /\ Acknowledge(t)
  /\ Return(t)
  /\ UNCHANGED <<consent, registered, install, endpointVars, sender, asked, dropped, crashes>>
  /\ Save

Enqueue(t) ==
  /\ call[t].pc = "enqueue"
  /\ LET queue == Append(Value(box), call[t].rec)
         list == IF Value(box) = <<>> THEN FreshList ELSE box
     IN IF Len(queue) > MaxOutbox
          THEN /\ box' = FreshList
               /\ heap' = [heap EXCEPT ![list] = queue, ![FreshList] = Newest(queue)]
               /\ dropped' = dropped \union (ToSet(queue) \ ToSet(Newest(queue)))
          ELSE /\ box' = list
               /\ heap' = [heap EXCEPT ![list] = queue]
               /\ UNCHANGED dropped
  /\ Acknowledge(t)
  /\ Return(t)
  /\ UNCHANGED <<consent, registered, install, endpointVars, sender, asked, crashes>>
  /\ Save

(***************************************************************************)
(* _flush: takes the list, posts its head until one fails; pop(0) removes  *)
(* whatever is at the head when the answer comes.  The list is written     *)
(* back and saved at the end only.                                         *)
(***************************************************************************)
BeginFlush(t) ==
  /\ call[t].pc = "flush"
  /\ LET id == IF Value(box) = <<>> THEN FreshList ELSE box
     IN /\ call' = [call EXCEPT ![t].pc = "flushing", ![t].list = id]
        /\ heap' = [heap EXCEPT ![id] = Value(box)]
  /\ UNCHANGED <<consent, registered, install, box, disk, endpointVars, sender, asked, acked, dropped, crashes>>

PostAndForget(t) ==  \* mutant: a failed reading is popped too
  /\ call[t].pc = "flushing"
  /\ heap[call[t].list] # <<>>
  /\ \E reached \in BOOLEAN : PostContribution(Head(heap[call[t].list]), reached)
  /\ GoTo(t, "pop")
  /\ UNCHANGED <<memVars, disk, sender, asked, acked, dropped, crashes>>

PostNewest(t) ==  \* mutant: the newest queued reading goes first
  /\ call[t].pc = "flushing"
  /\ heap[call[t].list] # <<>>
  /\ LET r == Last(heap[call[t].list])
     IN \E reached, answered \in BOOLEAN :
          /\ PostContribution(r, reached)
          /\ GoTo(t, IF PostOk(r, reached, answered) THEN "pop" ELSE "flushed")
  /\ UNCHANGED <<memVars, disk, sender, asked, acked, dropped, crashes>>

PostOldest(t) ==
  /\ call[t].pc = "flushing"
  /\ heap[call[t].list] # <<>>
  /\ LET r == Head(heap[call[t].list])
     IN \E reached, answered \in BOOLEAN :
          /\ PostContribution(r, reached)
          /\ GoTo(t, IF PostOk(r, reached, answered) THEN "pop" ELSE "flushed")
  /\ UNCHANGED <<memVars, disk, sender, asked, acked, dropped, crashes>>

(***************************************************************************)
(* Another thread may have emptied the list meanwhile: IndexError ends the *)
(* handler.                                                                *)
(***************************************************************************)
PopOldest(t) ==
  /\ call[t].pc = "pop"
  /\ IF heap[call[t].list] = <<>>
       THEN Return(t) /\ UNCHANGED heap
       ELSE /\ heap' = [heap EXCEPT ![call[t].list] = Tail(@)]
            /\ GoTo(t, "flushing")
  /\ UNCHANGED <<consent, registered, install, box, disk, endpointVars, sender, asked, acked, dropped, crashes>>

EndFlush(t) ==
  /\ \/ call[t].pc = "flushed"
     \/ call[t].pc = "flushing" /\ heap[call[t].list] = <<>>
  /\ box' = call[t].list
  /\ Acknowledge(t)
  /\ Return(t)
  /\ UNCHANGED <<consent, registered, install, heap, endpointVars, sender, asked, dropped, crashes>>
  /\ Save

(***************************************************************************)
(* The program is killed and started again.  A handler may have been       *)
(* inside write_text, which truncates the file first: an unreadable file   *)
(* is loaded as an empty configuration.                                    *)
(***************************************************************************)
Crash ==
  /\ crashes < MaxCrashes
  /\ crashes' = crashes + 1
  /\ disk' \in {disk, BlankFile}
  /\ dropped' = IF disk' = disk THEN dropped
                ELSE dropped \union {r \in ToSet(disk.outbox) : rows[r] = 0}
  /\ consent' = disk'.consent
  /\ registered' = disk'.registered
  /\ install' = disk'.install
  /\ box' = IF disk'.outbox = <<>> THEN 0 ELSE 1
  /\ heap' = [id \in ListIds |-> IF id = 1 THEN disk'.outbox ELSE <<>>]
  /\ call' = [t \in Threads |-> Idle]
  /\ UNCHANGED <<endpointVars, sender, asked, acked>>

Handler(t) ==
  \/ FindNoId(t) \/ GetState(t) \/ SetConsent(t) \/ Register(t)
  \/ Contribute(t) \/ PostReading(t) \/ Enqueue(t)
  \/ BeginFlush(t) \/ PostOldest(t) \/ PopOldest(t) \/ EndFlush(t)

Next == (\E t \in Threads : Handler(t)) \/ Crash

Spec == Init /\ [][Next]_vars

-----------------------------------------------------------------------------
TypeOK ==
  /\ consent \in {"unset", "yes", "no"}
  /\ registered \in BOOLEAN
  /\ install \in Installs \union {NoInstall}
  /\ box \in ListIds \union {0}
  /\ heap \in [ListIds -> Seq(Readings)]
  /\ call \in [Threads ->
       [pc : {"idle", "state", "register", "enrol", "contribute", "post",
              "enqueue", "flush", "flushing", "pop", "flushed"},
        rec : Readings \union {NoReading}, list : ListIds \union {0}]]
  /\ disk \in [consent : {"unset", "yes", "no"}, registered : BOOLEAN,
               install : Installs \union {NoInstall},
               outbox : BoundedSeq(Readings, MaxOutbox)]
  /\ rows \in [Readings -> 0 .. MaxCopies]
  /\ known \in SUBSET Installs
  /\ sender \in [Readings -> Installs \union {NoInstall}]
  /\ asked \in SUBSET Readings
  /\ acked \in SUBSET asked
  /\ dropped \in SUBSET asked
  /\ crashes \in 0 .. MaxCrashes

(***************************************************************************)
(* "nothing is lost" (contribute's docstring): a reading the user got an   *)
(* answer for is at the endpoint, or in the saved outbox for a later call, *)
(* or was given up by the cap or with the whole file.                      *)
(***************************************************************************)
NothingIsLost ==
  \A r \in acked : rows[r] > 0 \/ r \in ToSet(disk.outbox) \/ r \in dropped

(* stats(): the installs that contributed. *)
Contributing == {sender[r] : r \in {x \in Readings : rows[x] > 0}}

(***************************************************************************)
(* The endpoint counts unique installs apart from contributing ones: every *)
(* contributing install is among the installs, and so is a client that     *)
(* believes it is registered, also when its registration failed offline    *)
(* and only a contribution got through, after restarts, and when a torn    *)
(* configuration gave the program a new id.                                *)
(***************************************************************************)
ContributorIsKnown ==
  /\ Contributing \subseteq known
  /\ registered => install \in known
  /\ disk.registered => disk.install \in known

(***************************************************************************)
(* With one handler at a time the client and its file behave as the        *)
(* bounded outbox: order kept, only the oldest given up, across lost       *)
(* answers (sent again) and crashes between a post and the save.           *)
(***************************************************************************)
Undelivered(queue) == {r \in ToSet(queue) : rows[r] = 0}
Ahead(queue, a, b) ==
  \E i, j \in DOMAIN queue : i < j /\ queue[i] = a /\ queue[j] = b
Older(queue) ==
  {p \in Undelivered(queue) \X Undelivered(queue) : Ahead(queue, p[1], p[2])}

Outbox == INSTANCE BoundedOutbox WITH
  waiting <- Undelivered(disk.outbox),
  before <- Older(disk.outbox),
  received <- {r \in Readings : rows[r] > 0},
  lost <- {r \in dropped : rows[r] = 0}

ImplementsOutbox == Outbox!Spec

=============================================================================
