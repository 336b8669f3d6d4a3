---------------------------- MODULE Community_proofs ----------------------------
(***************************************************************************)
(* One handler at a time, for any readings, any number of restarts and any *)
(* size of the outbox: contributors are known installs, no acknowledged    *)
(* reading is lost, and the client is the bounded outbox.                  *)
(***************************************************************************)
EXTENDS Community, FiniteSetTheorems, SequenceTheorems, TLAPS

Alone == Cardinality(Threads) = 1

LEMMA OnlyThread ==
  ASSUME Alone, NEW t \in Threads
  PROVE  \A u \in Threads : u = t
<1>1. PICK x : Threads = {x}
  BY CommunityAssumption, FS_Singleton DEF Alone
<1> QED BY <1>1

Ids == Installs \cup {NoInstall}
Places == {"idle", "state", "register", "enrol", "contribute", "post", "enqueue",
           "flush", "flushing", "pop", "flushed"}
Calls == [pc : Places, rec : Readings \cup {NoReading}, list : ListIds \cup {0}]

Holding(c) == c.pc \in {"flushing", "pop", "flushed"}

(***************************************************************************)
(* A handler has a reading of its own and, while it flushes, a list; every *)
(* list holds readings that were contributed.                              *)
(***************************************************************************)
CallInv ==
  /\ call \in [Threads -> Calls]
  /\ \A t \in Threads :
       /\ call[t].pc \in {"post", "enqueue"} => call[t].rec \in asked
       /\ Holding(call[t]) => call[t].list \in ListIds
       /\ ~Holding(call[t]) => call[t].list = 0

ListInv ==
  /\ box \in ListIds \cup {0}
  /\ heap \in [ListIds -> Seq(asked)]
  /\ disk.outbox \in Seq(asked)

(***************************************************************************)
(* The endpoint has rows of contributed readings only.                     *)
(***************************************************************************)
RowInv ==
  /\ asked \subseteq Readings
  /\ rows \in [Readings -> Nat]
  /\ sender \in [Readings -> Ids]
  /\ \A r \in Readings \ asked : rows[r] = 0
  /\ crashes \in 0 .. MaxCrashes

(***************************************************************************)
(* A post under way carries the id the client has now, and a handler that  *)
(* found no id still finds none when it stores its own: with one handler   *)
(* the id changes only with a restart, which ends it, or when there is     *)
(* none.                                                                   *)
(***************************************************************************)
IdsAgree ==
  \A t \in Threads :
    /\ call[t].pc = "post" => install # NoInstall /\ sender[call[t].rec] = install
    /\ call[t].pc \in Making => install = NoInstall

IdInv ==
  /\ install \in Ids /\ disk.install \in Ids
  /\ registered \in BOOLEAN /\ disk.registered \in BOOLEAN
  /\ IdsAgree

KnownInv ==
  /\ \A r \in Readings : rows[r] > 0 => sender[r] \in known
  /\ registered => install \in known /\ install # NoInstall
  /\ disk.registered => disk.install \in known /\ disk.install # NoInstall

CommunityInv == CallInv /\ ListInv /\ RowInv /\ IdInv /\ KnownInv

LEMMA ThreadsAreCounted ==
  /\ Cardinality(Threads) \in Nat
  /\ 1 \in ListIds /\ ListIds \subseteq Nat \ {0}
<1>1. Cardinality(Threads) \in Nat
  BY CommunityAssumption, FS_CardinalityType
<1> QED BY <1>1 DEF ListIds

LEMMA CommunityStart == Init => CommunityInv
<1> SUFFICES ASSUME Init PROVE CommunityInv
  OBVIOUS
<1> USE DEF Init
<1>1. CallInv
  BY DEF CallInv, Calls, Places, Idle, Holding
<1>2. ListInv
  BY EmptySeq DEF ListInv, BlankFile
<1>3. RowInv
  BY CommunityAssumption DEF RowInv, EndpointInit, Ids
<1>4. IdInv
  BY DEF IdInv, IdsAgree, Ids, BlankFile, Idle, Making
<1>5. KnownInv
  BY DEF KnownInv, EndpointInit, BlankFile
<1> QED BY <1>1, <1>2, <1>3, <1>4, <1>5 DEF CommunityInv

-----------------------------------------------------------------------------
(***************************************************************************)
(* There is always a list object to take: one more than the handlers, and  *)
(* a handler that takes one holds none.                                    *)
(***************************************************************************)
LEMMA FreshIsThere ==
  ASSUME CallInv, NEW t \in Threads, ~Holding(call[t])
  PROVE  FreshList \in ListIds /\ FreshList # box
<1> DEFINE Others == Threads \ {t}
           Held == {call[u].list : u \in Others}
           Used == Held \cup {box}
<1>1. IsFiniteSet(Others) /\ Cardinality(Others) = Cardinality(Threads) - 1
  BY CommunityAssumption, FS_RemoveElement
<1>2. IsFiniteSet(Held) /\ Cardinality(Held) <= Cardinality(Others)
  <2> DEFINE listOf == [u \in Others |-> call[u].list]
  <2>1. listOf \in Surjection(Others, Held)
    BY DEF Surjection
  <2> HIDE DEF listOf, Held, Others
  <2> QED BY <1>1, <2>1, FS_Surjection
<1>3. IsFiniteSet(Used) /\ Cardinality(Used) <= Cardinality(Held) + 1
  <2>1. Cardinality(Held) \in Nat
    BY <1>2, FS_CardinalityType
  <2>2. /\ IsFiniteSet(Used)
        /\ Cardinality(Used) = IF box \in Held THEN Cardinality(Held)
                                            ELSE Cardinality(Held) + 1
    <3> HIDE DEF Held
    <3> QED BY <1>2, FS_AddElement
  <2> HIDE DEF Used, Held
  <2> QED BY <2>1, <2>2
<1>4. Cardinality(Used) <= Cardinality(Threads)
  <2>1. /\ Cardinality(Held) \in Nat /\ Cardinality(Used) \in Nat
        /\ Cardinality(Others) \in Nat /\ Cardinality(Threads) \in Nat
    BY <1>1, <1>2, <1>3, ThreadsAreCounted, FS_CardinalityType
  <2> QED BY <1>1, <1>2, <1>3, <2>1
<1>5. IsFiniteSet(ListIds) /\ Cardinality(ListIds) = Cardinality(Threads) + 1
  BY ThreadsAreCounted, FS_Interval DEF ListIds
<1>6. \E id \in ListIds : id \notin Used
  <2>1. SUFFICES ASSUME ListIds \subseteq Used PROVE FALSE
    OBVIOUS
  <2>2. Cardinality(ListIds) <= Cardinality(Used)
    BY <2>1, <1>3, FS_Subset
  <2> QED BY <2>2, <1>3, <1>4, <1>5, ThreadsAreCounted, FS_CardinalityType
<1>7. PICK id \in ListIds : id \notin Used
  BY <1>6
<1>8. call[t].list = 0
  BY DEF CallInv
<1>9. id # box /\ \A u \in Threads : id # call[u].list
  BY <1>7, <1>8, ThreadsAreCounted
<1> HIDE DEF Used
<1> QED BY <1>9 DEF FreshList

LEMMA ValueTyped ==
  ASSUME ListInv
  PROVE  Value(box) \in Seq(asked)
  BY EmptySeq DEF ListInv, Value

LEMMA SavedTyped ==
  ASSUME Save, box' \in ListIds \cup {0}, heap' \in [ListIds -> Seq(asked')]
  PROVE  ListInv'
<1>1. disk'.outbox = IF box' = 0 THEN <<>> ELSE heap'[box']
  BY DEF Save
<1>2. disk'.outbox \in Seq(asked')
  BY <1>1, EmptySeq
<1> QED BY <1>2 DEF ListInv

LEMMA NewestTyped ==
  ASSUME NEW queue \in Seq(asked), Len(queue) > MaxOutbox
  PROVE  Newest(queue) \in Seq(asked)
<1>1. Len(queue) \in Nat /\ MaxOutbox \in Nat \ {0}
  BY CommunityAssumption, LenProperties
<1>2. \A i \in (Len(queue) - MaxOutbox + 1) .. Len(queue) : queue[i] \in asked
  BY <1>1, ElementOfSeq
<1> QED BY <1>1, <1>2, SubSeqProperties DEF Newest

-----------------------------------------------------------------------------
(***************************************************************************)
(* How a handler moves: it keeps its reading and its list, or it returns.  *)
(***************************************************************************)
LEMMA Advances ==
  ASSUME CallInv, UNCHANGED asked, NEW t \in Threads, NEW pc \in Places, GoTo(t, pc),
         pc \in {"post", "enqueue"} => call[t].rec \in asked,
         pc \in {"flushing", "pop", "flushed"} <=> Holding(call[t])
  PROVE  CallInv'
<1>1. call' = [call EXCEPT ![t] = [call[t] EXCEPT !.pc = pc]]
  BY DEF GoTo
<1>2. call[t] \in Calls /\ call \in [Threads -> Calls]
  BY DEF CallInv
<1>3. [call[t] EXCEPT !.pc = pc] \in Calls
  BY <1>2 DEF Calls
<1>4. call' \in [Threads -> Calls]
  BY <1>1, <1>2, <1>3
<1>5. /\ call'[t].pc = pc /\ call'[t].rec = call[t].rec
      /\ call'[t].list = call[t].list
  BY <1>1, <1>2 DEF Calls
<1>6. \A u \in Threads \ {t} : call'[u] = call[u]
  BY <1>1, <1>2
<1>7. ASSUME NEW u \in Threads
      PROVE  /\ call'[u].pc \in {"post", "enqueue"} => call'[u].rec \in asked'
             /\ Holding(call'[u]) => call'[u].list \in ListIds
             /\ ~Holding(call'[u]) => call'[u].list = 0
  <2>1. CASE u = t
    BY <1>5, <2>1 DEF CallInv, Holding
  <2>2. CASE u # t
    BY <1>6, <2>2 DEF CallInv
  <2> QED BY <2>1, <2>2
<1> QED BY <1>4, <1>7 DEF CallInv

LEMMA Returns ==
  ASSUME CallInv, UNCHANGED asked, NEW t \in Threads, Return(t)
  PROVE  CallInv'
<1>1. call \in [Threads -> Calls] /\ Idle \in Calls
  BY DEF CallInv, Idle, Calls, Places
<1>2. call' = [call EXCEPT ![t] = Idle]
  BY DEF Return
<1>3. call' \in [Threads -> Calls]
  BY <1>1, <1>2
<1>4. ASSUME NEW u \in Threads
      PROVE  /\ call'[u].pc \in {"post", "enqueue"} => call'[u].rec \in asked'
             /\ Holding(call'[u]) => call'[u].list \in ListIds
             /\ ~Holding(call'[u]) => call'[u].list = 0
  <2>1. CASE u = t
    BY <1>1, <1>2, <2>1 DEF Idle, Holding
  <2>2. CASE u # t
    BY <1>1, <1>2, <2>2 DEF CallInv
  <2> QED BY <2>1, <2>2
<1> QED BY <1>3, <1>4 DEF CallInv

LEMMA TakesUp ==
  ASSUME CallInv, NEW t \in Threads, NEW r \in Readings, r \in asked',
         asked \subseteq asked', ~Holding(call[t]),
         call' = [call EXCEPT ![t].pc = "post", ![t].rec = r]
  PROVE  CallInv'
<1>1. call \in [Threads -> Calls] /\ call[t] \in Calls
  BY DEF CallInv
<1>2. /\ call' \in [Threads -> Calls]
      /\ call'[t].pc = "post" /\ call'[t].rec = r /\ call'[t].list = call[t].list
  BY <1>1 DEF Calls, Places
<1>3. \A u \in Threads \ {t} : call'[u] = call[u]
  BY <1>1
<1>4. ASSUME NEW u \in Threads
      PROVE  /\ call'[u].pc \in {"post", "enqueue"} => call'[u].rec \in asked'
             /\ Holding(call'[u]) => call'[u].list \in ListIds
             /\ ~Holding(call'[u]) => call'[u].list = 0
  <2>1. CASE u = t
    BY <1>2, <2>1 DEF CallInv, Holding
  <2>2. CASE u # t
    BY <1>3, <2>2 DEF CallInv
  <2> QED BY <2>1, <2>2
<1> QED BY <1>2, <1>4 DEF CallInv

LEMMA TakesList ==
  ASSUME CallInv, UNCHANGED asked, NEW t \in Threads, NEW id \in ListIds,
         call' = [call EXCEPT ![t].pc = "flushing", ![t].list = id]
  PROVE  CallInv'
<1>1. call \in [Threads -> Calls] /\ call[t] \in Calls
  BY DEF CallInv
<1>2. /\ call' \in [Threads -> Calls]
      /\ call'[t].pc = "flushing" /\ call'[t].list = id
  BY <1>1 DEF Calls, Places
<1>3. \A u \in Threads \ {t} : call'[u] = call[u]
  BY <1>1
<1>4. ASSUME NEW u \in Threads
      PROVE  /\ call'[u].pc \in {"post", "enqueue"} => call'[u].rec \in asked'
             /\ Holding(call'[u]) => call'[u].list \in ListIds
             /\ ~Holding(call'[u]) => call'[u].list = 0
  <2>1. CASE u = t
    BY <1>2, <2>1 DEF Holding
  <2>2. CASE u # t
    BY <1>3, <2>2 DEF CallInv
  <2> QED BY <2>1, <2>2
<1> QED BY <1>2, <1>4 DEF CallInv

-----------------------------------------------------------------------------
(***************************************************************************)
(* A post that reached the endpoint: a row for a contributed reading, and  *)
(* its install is known; nobody is forgotten.                              *)
(***************************************************************************)
LEMMA PostStores ==
  ASSUME RowInv, KnownInv, NEW r \in asked, NEW reached \in BOOLEAN,
         PostContribution(r, reached), UNCHANGED <<asked, sender, crashes>>
  PROVE  /\ RowInv'
         /\ known \subseteq known'
         /\ \A x \in Readings : rows'[x] > 0 => sender'[x] \in known'
         /\ reached /\ Accepted(r) => sender[r] \in known'
<1>1. r \in Readings /\ rows \in [Readings -> Nat] /\ MaxCopies \in Nat
  BY CommunityAssumption DEF RowInv
<1>2. CASE reached /\ Accepted(r)
  <2>1. /\ rows' = [rows EXCEPT ![r] = IF @ < MaxCopies THEN @ + 1 ELSE @]
        /\ known' = known \cup {sender[r]}
    BY <1>2 DEF PostContribution, AddContribution, StoreInstall
  <2>2. rows' \in [Readings -> Nat]
    BY <1>1, <2>1
  <2>3. \A x \in Readings \ {r} : rows'[x] = rows[x]
    BY <1>1, <2>1
  <2>4. RowInv'
    BY <2>2, <2>3, <1>1 DEF RowInv
  <2>5. ASSUME NEW x \in Readings, rows'[x] > 0 PROVE sender'[x] \in known'
    <3>1. CASE x = r
      BY <2>1, <3>1
    <3>2. CASE x # r
      BY <2>1, <2>3, <2>5, <3>2 DEF KnownInv
    <3> QED BY <3>1, <3>2
  <2> QED BY <2>1, <2>4, <2>5
<1>3. CASE ~(reached /\ Accepted(r))
  <2>1. UNCHANGED <<rows, known>>
    BY <1>3 DEF PostContribution, AddContribution, endpointVars
  <2> QED BY <1>3, <2>1 DEF RowInv, KnownInv
<1> QED BY <1>2, <1>3

(***************************************************************************)
(* An id is the thread's own in this run; a lone handler makes one only    *)
(* where there is none, so the id, once there, stays.                      *)
(***************************************************************************)
LEMMA IdMade ==
  ASSUME RowInv, IdInv, NEW t \in Threads, InstallId(t)
  PROVE  /\ install' \in Installs /\ install' # NoInstall
         /\ install # NoInstall => install' = install
<1>1. NewId(t) \in Installs /\ NoInstall \notin Installs
  BY CommunityAssumption DEF RowInv, NewId, Installs
<1> QED BY <1>1 DEF InstallId, IdInv, IdsAgree, Ids

LEMMA SavedId ==
  ASSUME Save
  PROVE  disk'.registered = registered' /\ disk'.install = install'
  BY DEF Save

LEMMA SavedIdTyped ==
  ASSUME install' \in Ids, registered' \in BOOLEAN, Save, IdsAgree'
  PROVE  IdInv'
<1>1. disk'.registered = registered' /\ disk'.install = install'
  BY SavedId
<1>2. disk'.registered \in BOOLEAN
  BY <1>1
<1> QED BY <1>1, <1>2 DEF IdInv

LEMMA SavedKnown ==
  ASSUME Save, registered' => install' \in known' /\ install' # NoInstall,
         \A r \in Readings : rows'[r] > 0 => sender'[r] \in known'
  PROVE  KnownInv'
<1>1. disk'.registered = registered' /\ disk'.install = install'
  BY SavedId
<1> QED BY <1>1 DEF KnownInv

(***************************************************************************)
(* A lone handler elsewhere than at a post or at making an id.             *)
(***************************************************************************)
LEMMA PostsKept ==
  ASSUME Alone, CallInv, NEW t \in Threads,
         NEW pc \in Places \ ({"post"} \cup Making), GoTo(t, pc) \/ Return(t)
  PROVE  IdsAgree'
<1>1. call \in [Threads -> Calls]
  BY DEF CallInv
<1>2. call'[t].pc \notin {"post"} \cup Making
  <2>1. CASE GoTo(t, pc)
    BY <1>1, <2>1 DEF GoTo, Calls
  <2>2. CASE Return(t)
    BY <1>1, <2>2 DEF Return, Idle, Making
  <2> QED BY <2>1, <2>2
<1> QED BY <1>2, OnlyThread DEF IdsAgree

-----------------------------------------------------------------------------
(***************************************************************************)
(* The handlers, one by one.                                               *)
(***************************************************************************)
LEMMA FindNoIdKeeps ==
  ASSUME Alone, CommunityInv, NEW t \in Threads, FindNoId(t)
  PROVE  CommunityInv'
<1>1. PICK pc \in Making : GoTo(t, pc)
  BY DEF FindNoId, Making
<1>2. /\ UNCHANGED <<registered, install, box, heap, disk, rows, known, sender, asked, crashes>>
      /\ install = NoInstall
  BY DEF FindNoId, memVars, endpointVars
<1>3. ~Holding(call[t]) /\ pc \in Places /\ pc \notin {"post", "enqueue", "flushing", "pop", "flushed"}
  BY DEF FindNoId, Holding, Idle, Places, Making
<1>4. CallInv'
  BY <1>1, <1>2, <1>3, Advances DEF CommunityInv
<1>5. call'[t].pc = pc
  BY <1>1 DEF GoTo, CommunityInv, CallInv, Calls
<1>6. IdsAgree'
  BY <1>2, <1>3, <1>5, OnlyThread DEF IdsAgree
<1> QED BY <1>2, <1>4, <1>6 DEF CommunityInv, ListInv, RowInv, IdInv, KnownInv

LEMMA GetStateKeeps ==
  ASSUME Alone, CommunityInv, NEW t \in Threads, GetState(t)
  PROVE  CommunityInv'
<1> USE DEF GetState
<1>1. CallInv' /\ RowInv'
  BY Returns DEF CommunityInv, RowInv, endpointVars
<1>2. ListInv'
  BY SavedTyped DEF CommunityInv, ListInv
<1>3. install' \in Ids /\ install' # NoInstall /\ (install # NoInstall => install' = install)
  BY IdMade DEF CommunityInv, Ids
<1>4. IdInv'
  <2>1. "idle" \in Places \ ({"post"} \cup Making)
    BY DEF Places, Making
  <2>2. IdsAgree'
    BY <2>1, PostsKept DEF CommunityInv
  <2> QED BY <1>3, <2>2, SavedIdTyped DEF CommunityInv, IdInv
<1>5. KnownInv'
  BY <1>3, SavedKnown DEF CommunityInv, KnownInv, endpointVars
<1> QED BY <1>1, <1>2, <1>4, <1>5 DEF CommunityInv

LEMMA SetConsentKeeps ==
  ASSUME Alone, CommunityInv, NEW t \in Threads, SetConsent(t)
  PROVE  CommunityInv'
<1> USE DEF SetConsent
<1>1. PICK pc \in {"register", "idle"} : GoTo(t, pc)
  OBVIOUS
<1>2. pc \in Places \ ({"post"} \cup Making) /\ ~Holding(call[t])
  BY DEF Places, Making, Holding, Idle
<1>3. CallInv'
  BY <1>1, <1>2, Advances DEF CommunityInv
<1>4. ListInv'
  BY SavedTyped DEF CommunityInv, ListInv
<1>5. RowInv'
  BY DEF CommunityInv, RowInv, endpointVars
<1>6. IdsAgree'
  BY <1>1, <1>2, PostsKept DEF CommunityInv
<1>7. IdInv'
  BY <1>6, SavedIdTyped DEF CommunityInv, IdInv
<1>8. KnownInv'
  BY SavedKnown DEF CommunityInv, KnownInv, endpointVars
<1> QED BY <1>3, <1>4, <1>5, <1>7, <1>8 DEF CommunityInv

LEMMA RegisterKeeps ==
  ASSUME Alone, CommunityInv, NEW t \in Threads, Register(t)
  PROVE  CommunityInv'
<1> USE DEF Register
<1>1. PICK reached \in BOOLEAN, answered \in BOOLEAN :
        /\ IF reached THEN StoreInstall(install') /\ UNCHANGED rows
                      ELSE UNCHANGED endpointVars
        /\ registered' = (registered \/ (reached /\ answered))
        /\ IF reached /\ answered THEN GoTo(t, "flush") ELSE Return(t)
  OBVIOUS
<1>2. "flush" \in Places \ ({"post"} \cup Making) /\ ~Holding(call[t])
  BY DEF Places, Making, Holding
<1>3. CallInv'
  <2>1. CASE reached /\ answered
    BY <1>1, <1>2, <2>1, Advances DEF CommunityInv
  <2>2. CASE ~(reached /\ answered)
    BY <1>1, <2>2, Returns DEF CommunityInv
  <2> QED BY <2>1, <2>2
<1>4. ListInv'
  BY SavedTyped DEF CommunityInv, ListInv
<1>5. UNCHANGED rows /\ known \subseteq known' /\ (reached => install' \in known')
  BY <1>1 DEF StoreInstall, endpointVars
<1>6. RowInv'
  BY <1>5 DEF CommunityInv, RowInv
<1>7. install' \in Ids /\ install' # NoInstall /\ (install # NoInstall => install' = install)
  BY IdMade DEF CommunityInv, Ids
<1>8. IdsAgree'
  BY <1>1, <1>2, <1>7, PostsKept DEF CommunityInv
<1>9. registered' \in BOOLEAN
  BY <1>1
<1>10. IdInv'
  BY <1>7, <1>8, <1>9, SavedIdTyped
<1>11. registered' => install' \in known' /\ install' # NoInstall
  <2>1. CASE registered
    BY <1>5, <1>7, <2>1 DEF CommunityInv, KnownInv
  <2>2. CASE ~registered
    BY <1>1, <1>5, <1>7, <2>2
  <2> QED BY <2>1, <2>2
<1>12. KnownInv'
  BY <1>5, <1>11, SavedKnown DEF CommunityInv, KnownInv
<1> QED BY <1>3, <1>4, <1>6, <1>10, <1>12 DEF CommunityInv

LEMMA ContributeKeeps ==
  ASSUME Alone, CommunityInv, NEW t \in Threads, Contribute(t)
  PROVE  CommunityInv'
<1> USE DEF Contribute
<1>1. PICK r \in Readings \ asked :
        /\ call' = [call EXCEPT ![t].pc = "post", ![t].rec = r]
        /\ asked' = asked \cup {r}
        /\ Payload(r)
  OBVIOUS
<1>2. ~Holding(call[t])
  BY DEF Holding, Idle
<1>3. CallInv'
  BY <1>1, <1>2, TakesUp DEF CommunityInv
<1>4. heap \in [ListIds -> Seq(asked')] /\ disk.outbox \in Seq(asked')
  BY <1>1 DEF CommunityInv, ListInv
<1>5. ListInv'
  <2>1. CASE call[t].pc = "contribute"
    BY <1>4, <2>1, SavedTyped DEF CommunityInv, ListInv
  <2>2. CASE call[t].pc # "contribute"
    BY <1>4, <2>2 DEF CommunityInv, ListInv
  <2> QED BY <2>1, <2>2
<1>6. install' \in Ids /\ install' # NoInstall /\ (install # NoInstall => install' = install)
  BY <1>1, IdMade DEF CommunityInv, Ids
<1>7. /\ sender' \in [Readings -> Ids] /\ sender'[r] = install'
      /\ \A x \in Readings \ {r} : sender'[x] = sender[x]
  BY <1>1, <1>6 DEF Payload, CommunityInv, RowInv
<1>8. RowInv'
  BY <1>1, <1>7 DEF CommunityInv, RowInv, endpointVars
<1>9. IdsAgree'
  <2>1. call'[t].pc = "post" /\ call'[t].rec = r
    BY <1>1 DEF CommunityInv, CallInv, Calls
  <2> QED BY <1>6, <1>7, <2>1, OnlyThread DEF IdsAgree, Making
<1>10. \A x \in Readings : rows'[x] > 0 => sender'[x] \in known'
  <2>1. UNCHANGED <<rows, known>>
    BY DEF endpointVars
  <2>2. rows[r] = 0
    BY <1>1 DEF CommunityInv, RowInv
  <2> QED BY <1>7, <2>1, <2>2 DEF CommunityInv, KnownInv
<1>11. registered' => install' \in known' /\ install' # NoInstall
  BY <1>6 DEF CommunityInv, KnownInv, endpointVars
<1>12. IdInv' /\ KnownInv'
  <2>1. CASE call[t].pc = "contribute"
    <3>1. Save
      BY <2>1
    <3>2. registered' \in BOOLEAN
      BY DEF CommunityInv, IdInv
    <3> QED BY <3>1, <3>2, <1>6, <1>9, <1>10, <1>11, SavedIdTyped, SavedKnown
  <2>2. CASE call[t].pc # "contribute"
    <3>1. UNCHANGED <<disk, registered, install, known>>
      BY <2>2 DEF InstallId, Making, Idle, endpointVars
    <3>2. IdInv'
      BY <1>9, <3>1 DEF CommunityInv, IdInv
    <3>3. KnownInv'
      BY <1>10, <3>1 DEF CommunityInv, KnownInv
    <3> QED BY <3>2, <3>3
  <2> QED BY <2>1, <2>2
<1> QED BY <1>3, <1>5, <1>8, <1>12 DEF CommunityInv

LEMMA PostReadingKeeps ==
  ASSUME Alone, CommunityInv, NEW t \in Threads, PostReading(t)
  PROVE  CommunityInv'
<1> USE DEF PostReading
<1>1. PICK reached \in BOOLEAN, answered \in BOOLEAN :
        /\ PostContribution(call[t].rec, reached)
        /\ IF PostOk(call[t].rec, reached, answered)
           THEN registered' = TRUE /\ GoTo(t, "flush")
           ELSE UNCHANGED registered /\ GoTo(t, "enqueue")
  OBVIOUS
<1>2. call[t].rec \in asked /\ install # NoInstall /\ sender[call[t].rec] = install
  BY DEF CommunityInv, CallInv, IdInv, IdsAgree
<1>3. PICK pc \in {"flush", "enqueue"} : GoTo(t, pc)
  BY <1>1
<1>4. pc \in Places \ ({"post"} \cup Making) /\ ~Holding(call[t])
  BY DEF Places, Making, Holding
<1>5. CallInv'
  BY <1>2, <1>3, <1>4, Advances DEF CommunityInv
<1>6. ListInv'
  BY DEF CommunityInv, ListInv
<1>7. /\ RowInv' /\ known \subseteq known'
      /\ \A x \in Readings : rows'[x] > 0 => sender'[x] \in known'
      /\ reached /\ Accepted(call[t].rec) => install \in known'
  BY <1>1, <1>2, PostStores DEF CommunityInv
<1>8. registered' \in BOOLEAN
  BY <1>1 DEF CommunityInv, IdInv
<1>9. IdsAgree'
  BY <1>3, <1>4, PostsKept DEF CommunityInv
<1>10. IdInv'
  BY <1>8, <1>9 DEF CommunityInv, IdInv
<1>11. registered' => install' \in known' /\ install' # NoInstall
  <2>1. CASE PostOk(call[t].rec, reached, answered)
    BY <1>2, <1>7, <2>1 DEF PostOk
  <2>2. CASE ~PostOk(call[t].rec, reached, answered)
    BY <1>1, <1>7, <2>2 DEF CommunityInv, KnownInv
  <2> QED BY <2>1, <2>2
<1>12. KnownInv'
  BY <1>7, <1>11 DEF CommunityInv, KnownInv
<1> QED BY <1>5, <1>6, <1>7, <1>10, <1>12 DEF CommunityInv

(***************************************************************************)
(* The steps that touch neither the endpoint nor the id.                   *)
(***************************************************************************)
LEMMA LocalKeeps ==
  ASSUME Alone, CommunityInv, NEW t \in Threads, NEW pc \in Places \ ({"post"} \cup Making),
         GoTo(t, pc) \/ Return(t),
         UNCHANGED <<registered, install, endpointVars, sender, asked, crashes>>,
         Save \/ UNCHANGED disk
  PROVE  RowInv' /\ IdInv' /\ KnownInv'
<1>1. RowInv'
  BY DEF CommunityInv, RowInv, endpointVars
<1>2. IdsAgree'
  BY PostsKept DEF CommunityInv
<1>3. IdInv'
  <2>1. CASE Save
    BY <1>2, <2>1, SavedIdTyped DEF CommunityInv, IdInv
  <2>2. CASE UNCHANGED disk
    BY <1>2, <2>2 DEF CommunityInv, IdInv
  <2> QED BY <2>1, <2>2
<1>4. KnownInv'
  <2>1. CASE Save
    BY <2>1, SavedKnown DEF CommunityInv, KnownInv, endpointVars
  <2>2. CASE UNCHANGED disk
    BY <2>2 DEF CommunityInv, KnownInv, endpointVars
  <2> QED BY <2>1, <2>2
<1> QED BY <1>1, <1>3, <1>4

LEMMA EnqueueKeeps ==
  ASSUME Alone, CommunityInv, NEW t \in Threads, Enqueue(t)
  PROVE  CommunityInv'
<1> DEFINE queue == Append(Value(box), call[t].rec)
           target == IF Value(box) = <<>> THEN FreshList ELSE box
<1>1. Value(box) \in Seq(asked) /\ call[t].rec \in asked
  BY ValueTyped DEF CommunityInv, CallInv, Enqueue
<1>2. queue \in Seq(asked)
  BY <1>1, AppendProperties
<1>3. FreshList \in ListIds
  BY FreshIsThere DEF Enqueue, Holding, CommunityInv
<1>4. target \in ListIds
  BY <1>3 DEF CommunityInv, ListInv, Value
<1>5. box' \in ListIds \cup {0} /\ heap' \in [ListIds -> Seq(asked)]
  <2>1. CASE Len(queue) > MaxOutbox
    <3>1. Newest(queue) \in Seq(asked)
      BY <1>2, <2>1, NewestTyped
    <3>2. /\ box' = FreshList
          /\ heap' = [heap EXCEPT ![target] = queue, ![FreshList] = Newest(queue)]
      BY <2>1 DEF Enqueue
    <3> HIDE DEF queue, target
    <3> QED BY <1>2, <1>3, <3>1, <3>2 DEF CommunityInv, ListInv
  <2>2. CASE ~(Len(queue) > MaxOutbox)
    <3>1. box' = target /\ heap' = [heap EXCEPT ![target] = queue]
      BY <2>2 DEF Enqueue
    <3> HIDE DEF queue, target
    <3> QED BY <1>2, <1>4, <3>1 DEF CommunityInv, ListInv
  <2> QED BY <2>1, <2>2
<1>6. ListInv'
  BY <1>5, SavedTyped DEF Enqueue
<1>7. CallInv'
  BY Returns DEF Enqueue, CommunityInv
<1>8. RowInv' /\ IdInv' /\ KnownInv'
  <2>1. "idle" \in Places \ ({"post"} \cup Making)
    BY DEF Places, Making
  <2> QED BY <2>1, LocalKeeps DEF Enqueue
<1> QED BY <1>6, <1>7, <1>8 DEF CommunityInv

LEMMA BeginFlushKeeps ==
  ASSUME Alone, CommunityInv, NEW t \in Threads, BeginFlush(t)
  PROVE  CommunityInv'
<1> DEFINE id == IF Value(box) = <<>> THEN FreshList ELSE box
<1>1. Value(box) \in Seq(asked)
  BY ValueTyped DEF CommunityInv
<1>2. FreshList \in ListIds
  BY FreshIsThere DEF BeginFlush, Holding, CommunityInv
<1>3. id \in ListIds
  BY <1>2 DEF CommunityInv, ListInv, Value
<1>4. /\ call' = [call EXCEPT ![t].pc = "flushing", ![t].list = id]
      /\ heap' = [heap EXCEPT ![id] = Value(box)]
  BY DEF BeginFlush
<1>5. UNCHANGED <<registered, install, box, disk, endpointVars, sender, asked, crashes>>
  BY DEF BeginFlush
<1> HIDE DEF id
<1>6. CallInv'
  BY <1>3, <1>4, <1>5, TakesList DEF CommunityInv
<1>7. ListInv'
  BY <1>1, <1>4, <1>5 DEF CommunityInv, ListInv
<1>8. RowInv' /\ KnownInv'
  BY <1>5 DEF CommunityInv, RowInv, KnownInv, endpointVars
<1>9. IdInv'
  <2>1. call'[t].pc = "flushing"
    BY <1>4 DEF CommunityInv, CallInv, Calls
  <2>2. IdsAgree'
    BY <2>1, OnlyThread DEF IdsAgree, Making
  <2> QED BY <1>5, <2>2 DEF CommunityInv, IdInv
<1> QED BY <1>6, <1>7, <1>8, <1>9 DEF CommunityInv

LEMMA PostOldestKeeps ==
  ASSUME Alone, CommunityInv, NEW t \in Threads, PostOldest(t)
  PROVE  CommunityInv'
<1> USE DEF PostOldest
<1> DEFINE r == Head(heap[call[t].list])
<1>1. PICK reached \in BOOLEAN, answered \in BOOLEAN :
        /\ PostContribution(r, reached)
        /\ GoTo(t, IF PostOk(r, reached, answered) THEN "pop" ELSE "flushed")
  OBVIOUS
<1>2. heap[call[t].list] \in Seq(asked) /\ Holding(call[t])
  BY DEF CommunityInv, CallInv, ListInv, Holding
<1>3. r \in asked
  BY <1>2, HeadTailProperties
<1>4. UNCHANGED <<asked, sender, crashes, registered, install, box, heap, disk>>
  BY DEF memVars
<1>5. PICK pc \in {"pop", "flushed"} : GoTo(t, pc)
  BY <1>1
<1>6. pc \in Places \ ({"post"} \cup Making)
  BY DEF Places, Making
<1> HIDE DEF r
<1>7. CallInv'
  BY <1>2, <1>4, <1>5, <1>6, Advances DEF CommunityInv
<1>8. ListInv'
  BY <1>4 DEF CommunityInv, ListInv
<1>9. /\ RowInv' /\ known \subseteq known'
      /\ \A x \in Readings : rows'[x] > 0 => sender'[x] \in known'
  BY <1>1, <1>3, <1>4, PostStores DEF CommunityInv
<1>10. IdsAgree'
  BY <1>4, <1>5, <1>6, PostsKept DEF CommunityInv
<1>11. IdInv' /\ KnownInv'
  BY <1>4, <1>9, <1>10 DEF CommunityInv, IdInv, KnownInv
<1> QED BY <1>7, <1>8, <1>9, <1>11 DEF CommunityInv

LEMMA PopOldestKeeps ==
  ASSUME Alone, CommunityInv, NEW t \in Threads, PopOldest(t)
  PROVE  CommunityInv'
<1> USE DEF PopOldest
<1>1. heap[call[t].list] \in Seq(asked) /\ Holding(call[t])
  BY DEF CommunityInv, CallInv, ListInv, Holding
<1>2. "flushing" \in Places \ ({"post"} \cup Making)
  BY DEF Places, Making
<1>3. GoTo(t, "flushing") \/ Return(t)
  OBVIOUS
<1>4. CallInv'
  BY <1>1, <1>2, <1>3, Advances, Returns DEF CommunityInv
<1>5. ListInv'
  <2>1. CASE UNCHANGED heap
    BY <2>1 DEF CommunityInv, ListInv
  <2>2. CASE heap[call[t].list] # <<>> /\ heap' = [heap EXCEPT ![call[t].list] = Tail(@)]
    <3>1. Tail(heap[call[t].list]) \in Seq(asked)
      BY <1>1, <2>2, HeadTailProperties
    <3> QED BY <2>2, <3>1 DEF CommunityInv, ListInv
  <2> QED BY <2>1, <2>2
<1>6. RowInv' /\ IdInv' /\ KnownInv'
  BY <1>2, <1>3, LocalKeeps
<1> QED BY <1>4, <1>5, <1>6 DEF CommunityInv

LEMMA EndFlushKeeps ==
  ASSUME Alone, CommunityInv, NEW t \in Threads, EndFlush(t)
  PROVE  CommunityInv'
<1> USE DEF EndFlush
<1>1. call[t].list \in ListIds
  BY DEF CommunityInv, CallInv, Holding
<1>2. CallInv'
  BY Returns DEF CommunityInv
<1>3. ListInv'
  BY <1>1, SavedTyped DEF CommunityInv, ListInv
<1>4. RowInv' /\ IdInv' /\ KnownInv'
  <2>1. "idle" \in Places \ ({"post"} \cup Making)
    BY DEF Places, Making
  <2> QED BY <2>1, LocalKeeps
<1> QED BY <1>2, <1>3, <1>4 DEF CommunityInv

(***************************************************************************)
(* A restart reads back what the file kept, or nothing.                    *)
(***************************************************************************)
LEMMA CrashKeeps ==
  ASSUME Alone, CommunityInv, Crash
  PROVE  CommunityInv'
<1>1. disk' = disk \/ disk' = BlankFile
  BY DEF Crash
<1>2. disk'.outbox \in Seq(asked)
  <2>1. CASE disk' = disk
    BY <2>1 DEF CommunityInv, ListInv
  <2>2. CASE disk' = BlankFile
    BY <2>2, EmptySeq DEF BlankFile
  <2> QED BY <1>1, <2>1, <2>2
<1>3. /\ disk'.install \in Ids /\ disk'.registered \in BOOLEAN
      /\ disk'.registered => disk'.install \in known /\ disk'.install # NoInstall
  <2>1. CASE disk' = disk
    BY <2>1 DEF CommunityInv, IdInv, KnownInv
  <2>2. CASE disk' = BlankFile
    BY <2>2 DEF BlankFile, Ids
  <2> QED BY <1>1, <2>1, <2>2
<1> USE DEF Crash
<1>4. CallInv'
  BY DEF CallInv, Calls, Places, Idle, Holding
<1>5. box' \in ListIds \cup {0}
  BY ThreadsAreCounted
<1>6. heap' \in [ListIds -> Seq(asked)]
  BY <1>2, EmptySeq
<1>7. ListInv'
  BY <1>2, <1>5, <1>6 DEF ListInv
<1>8. RowInv'
  BY CommunityAssumption DEF CommunityInv, RowInv, endpointVars
<1>9. IdInv'
  BY <1>3 DEF IdInv, IdsAgree, Idle, Making
<1>10. KnownInv'
  BY <1>3 DEF CommunityInv, KnownInv, endpointVars
<1> QED BY <1>4, <1>7, <1>8, <1>9, <1>10 DEF CommunityInv

LEMMA CommunityStep ==
  ASSUME Alone, CommunityInv, [Next]_vars
  PROVE  CommunityInv'
<1>1. CASE \E t \in Threads : Handler(t)
  <2>1. PICK t \in Threads : Handler(t)
    BY <1>1
  <2>2. CASE FindNoId(t) \/ GetState(t) \/ SetConsent(t) \/ Register(t) \/ Contribute(t)
    BY <2>2, FindNoIdKeeps, GetStateKeeps, SetConsentKeeps, RegisterKeeps, ContributeKeeps
  <2>3. CASE PostReading(t) \/ Enqueue(t)
    BY <2>3, PostReadingKeeps, EnqueueKeeps
  <2>4. CASE BeginFlush(t) \/ PostOldest(t) \/ PopOldest(t) \/ EndFlush(t)
    BY <2>4, BeginFlushKeeps, PostOldestKeeps, PopOldestKeeps, EndFlushKeeps
  <2> QED BY <2>1, <2>2, <2>3, <2>4 DEF Handler
<1>2. CASE Crash
  BY <1>2, CrashKeeps
<1>3. CASE UNCHANGED vars
  BY <1>3 DEF vars, memVars, endpointVars, CommunityInv, CallInv, ListInv, RowInv,
              IdInv, IdsAgree, KnownInv
<1> QED BY <1>1, <1>2, <1>3 DEF Next

(***************************************************************************)
(* Every install with a stored contribution is among the known installs,   *)
(* and so is a client that takes itself for registered, with one handler   *)
(* at a time, whatever posts are lost and whenever the program is          *)
(* restarted.  Two handlers that find no id at once each make one, and the *)
(* client can then be registered under an id it no longer has.             *)
(***************************************************************************)
THEOREM ContributorsAreKnown ==
  ASSUME Cardinality(Threads) = 1
  PROVE  Spec => []ContributorIsKnown
<1>1. Alone
  BY DEF Alone
<1>2. CommunityInv => ContributorIsKnown
  BY DEF CommunityInv, KnownInv, ContributorIsKnown, Contributing
<1>3. CommunityInv /\ [Next]_vars => CommunityInv'
  BY <1>1, CommunityStep
<1> QED BY CommunityStart, <1>2, <1>3, PTL DEF Spec

-----------------------------------------------------------------------------
(***************************************************************************)
(* The bookkeeping of the client and the endpoint: a contributed reading   *)
(* carries an id, the endpoint knows ids only, and only contributed        *)
(* readings are acknowledged or given up.                                  *)
(***************************************************************************)
ConsentValues == {"unset", "yes", "no"}
Files == [consent : ConsentValues, registered : BOOLEAN, install : Ids,
          outbox : Seq(asked)]

IdsTyped ==
  /\ crashes \in 0 .. MaxCrashes
  /\ install \in Ids
  /\ sender \in [Readings -> Ids]
  /\ \A r \in asked : sender[r] # NoInstall
  /\ known \subseteq Installs

FileTyped ==
  /\ consent \in ConsentValues
  /\ disk \in Files

FatesTyped ==
  /\ rows \in [Readings -> 0 .. MaxCopies]
  /\ \A t \in Threads : call[t].rec \in asked \cup {NoReading}
  /\ acked \subseteq asked /\ dropped \subseteq asked

Books == IdsTyped /\ FileTyped /\ FatesTyped

LEMMA BooksStart == Init => Books
<1> SUFFICES ASSUME Init PROVE Books
  OBVIOUS
<1> USE DEF Init
<1>1. IdsTyped
  BY CommunityAssumption DEF IdsTyped, Ids, EndpointInit
<1>2. FileTyped
  BY EmptySeq DEF FileTyped, BlankFile, Files, ConsentValues, Ids
<1>3. FatesTyped
  BY CommunityAssumption DEF FatesTyped, EndpointInit, Idle
<1> QED BY <1>1, <1>2, <1>3 DEF Books

LEMMA FileWritten ==
  ASSUME Save, consent' \in ConsentValues, registered' \in BOOLEAN,
         install' \in Ids, ListInv'
  PROVE  FileTyped'
<1>1. disk'.outbox \in Seq(asked')
  BY DEF ListInv
<1>2. disk' = [consent |-> consent', registered |-> registered',
               install |-> install', outbox |-> disk'.outbox]
  BY DEF Save
<1>3. disk' \in Files'
  BY <1>1, <1>2 DEF Files
<1> QED BY <1>3 DEF FileTyped

(* The ids are left alone, and so is the file or it is written anew. *)
LEMMA IdsKept ==
  ASSUME IdsTyped, UNCHANGED <<install, sender, asked, crashes>>,
         known' \subseteq Installs
  PROVE  IdsTyped'
  BY DEF IdsTyped, Ids

LEMMA FileKept ==
  ASSUME IdsTyped, FileTyped, IdInv, UNCHANGED <<registered, install, asked, crashes>>,
         consent' \in ConsentValues,
         UNCHANGED disk \/ (Save /\ ListInv')
  PROVE  FileTyped'
<1>1. CASE UNCHANGED disk
  BY <1>1 DEF FileTyped, Files, Ids
<1>2. CASE Save /\ ListInv'
  <2>1. install' \in Ids
    BY DEF IdsTyped, Ids
  <2>2. registered' \in BOOLEAN
    BY DEF IdInv
  <2> QED BY <1>2, <2>1, <2>2, FileWritten
<1> QED BY <1>1, <1>2

(* What a post does to the rows and to the table of installs. *)
LEMMA PostCounts ==
  ASSUME IdsTyped, FatesTyped, RowInv, NEW r \in asked, NEW reached \in BOOLEAN,
         PostContribution(r, reached)
  PROVE  /\ rows' \in [Readings -> 0 .. MaxCopies]
         /\ \A x \in Readings : rows[x] > 0 => rows'[x] > 0
         /\ reached /\ Accepted(r) => rows'[r] > 0
         /\ known' \subseteq Installs
<1>1. r \in Readings /\ MaxCopies \in Nat \ {0}
  BY CommunityAssumption DEF RowInv
<1>2. CASE reached /\ Accepted(r)
  <2>1. /\ rows' = [rows EXCEPT ![r] = IF @ < MaxCopies THEN @ + 1 ELSE @]
        /\ known' = known \cup {sender[r]}
    BY <1>2 DEF PostContribution, AddContribution, StoreInstall
  <2>2. sender[r] \in Installs
    BY <1>1 DEF IdsTyped, Ids
  <2>3. rows[r] \in 0 .. MaxCopies
    BY <1>1 DEF FatesTyped
  <2>4. (IF rows[r] < MaxCopies THEN rows[r] + 1 ELSE rows[r]) \in 1 .. MaxCopies
    BY <1>1, <2>3
  <2>5. /\ rows'[r] \in 1 .. MaxCopies /\ rows' \in [Readings -> 0 .. MaxCopies]
        /\ \A x \in Readings \ {r} : rows'[x] = rows[x]
    BY <1>1, <2>1, <2>4 DEF FatesTyped
  <2>6. ASSUME NEW x \in Readings, rows[x] > 0 PROVE rows'[x] > 0
    <3>1. CASE x = r
      BY <2>5, <3>1
    <3>2. CASE x # r
      BY <2>5, <2>6, <3>2
    <3> QED BY <3>1, <3>2
  <2>7. rows'[r] > 0
    BY <2>5
  <2> QED BY <2>1, <2>2, <2>5, <2>6, <2>7 DEF IdsTyped
<1>3. CASE ~(reached /\ Accepted(r))
  <2>1. UNCHANGED <<rows, known>>
    BY <1>3 DEF PostContribution, AddContribution, endpointVars
  <2> QED BY <1>3, <2>1 DEF FatesTyped, IdsTyped
<1> QED BY <1>2, <1>3

(* A handler that goes on or returns keeps its reading or lets it go. *)
LEMMA FatesKept ==
  ASSUME CallInv, FatesTyped, NEW t \in Threads, NEW pc \in Places,
         GoTo(t, pc) \/ Return(t), UNCHANGED asked,
         rows' \in [Readings -> 0 .. MaxCopies],
         dropped' \subseteq asked,
         acked' = acked \/ Acknowledge(t)
  PROVE  FatesTyped'
<1>1. call \in [Threads -> Calls]
  BY DEF CallInv
<1>2. ASSUME NEW u \in Threads PROVE call'[u].rec \in asked \cup {NoReading}
  <2>1. CASE u = t /\ GoTo(t, pc)
    <3>1. call'[u].rec = call[u].rec
      BY <1>1, <2>1 DEF GoTo, Calls
    <3> QED BY <3>1 DEF FatesTyped
  <2>2. CASE u = t /\ Return(t)
    BY <1>1, <2>2 DEF Return, Idle
  <2>3. CASE u # t
    <3>1. call'[u] = call[u]
      BY <1>1, <2>3 DEF GoTo, Return
    <3> QED BY <3>1 DEF FatesTyped
  <2> QED BY <2>1, <2>2, <2>3
<1>3. acked' \subseteq asked
  BY DEF Acknowledge, FatesTyped
<1> QED BY <1>2, <1>3 DEF FatesTyped

-----------------------------------------------------------------------------
LEMMA FindNoIdBooks ==
  ASSUME CommunityInv, CommunityInv', Books, NEW t \in Threads, FindNoId(t)
  PROVE  Books'
<1>1. PICK pc \in Making : GoTo(t, pc)
  BY DEF FindNoId, Making
<1>2. pc \in Places
  BY DEF Places, Making
<1>3. UNCHANGED <<memVars, disk, endpointVars, sender, asked, acked, dropped, crashes>>
  BY DEF FindNoId
<1>4. FatesTyped'
  BY <1>1, <1>2, <1>3, FatesKept DEF Books, CommunityInv, FatesTyped, endpointVars
<1> QED BY <1>3, <1>4 DEF Books, IdsTyped, FileTyped, Files, memVars, endpointVars

LEMMA GetStateBooks ==
  ASSUME CommunityInv, CommunityInv', Books, NEW t \in Threads, GetState(t)
  PROVE  Books'
<1> USE DEF GetState
<1>1. install' \in Installs
  BY IdMade DEF CommunityInv, Ids
<1>2. IdsTyped'
  BY <1>1 DEF Books, IdsTyped, Ids, endpointVars
<1>3. FileTyped'
  BY <1>1, FileWritten DEF Books, FileTyped, CommunityInv, IdInv, Ids
<1>4. FatesTyped'
  <2>1. "idle" \in Places
    BY DEF Places, Making
  <2> QED BY <2>1, FatesKept DEF Books, CommunityInv, FatesTyped, endpointVars
<1> QED BY <1>2, <1>3, <1>4 DEF Books

LEMMA SetConsentBooks ==
  ASSUME CommunityInv, CommunityInv', Books, NEW t \in Threads, SetConsent(t)
  PROVE  Books'
<1> USE DEF SetConsent
<1>1. PICK pc \in {"register", "idle"} : GoTo(t, pc)
  OBVIOUS
<1>2. pc \in Places
  BY DEF Places, Making
<1>3. IdsTyped'
  BY IdsKept DEF Books, IdsTyped, endpointVars
<1>4. FileTyped'
  <2>1. consent' \in ConsentValues
    BY DEF ConsentValues
  <2> QED BY <2>1, FileKept DEF Books, CommunityInv
<1>5. FatesTyped'
  BY <1>1, <1>2, FatesKept DEF Books, CommunityInv, FatesTyped, endpointVars
<1> QED BY <1>3, <1>4, <1>5 DEF Books

LEMMA RegisterBooks ==
  ASSUME CommunityInv, CommunityInv', Books, NEW t \in Threads, Register(t)
  PROVE  Books'
<1> USE DEF Register
<1>1. PICK reached \in BOOLEAN, answered \in BOOLEAN :
        /\ IF reached THEN StoreInstall(install') /\ UNCHANGED rows
                      ELSE UNCHANGED endpointVars
        /\ registered' = (registered \/ (reached /\ answered))
        /\ IF reached /\ answered THEN GoTo(t, "flush") ELSE Return(t)
  OBVIOUS
<1>2. install' \in Installs /\ install' # NoInstall
  BY IdMade DEF CommunityInv
<1>3. UNCHANGED rows /\ known' \subseteq Installs
  BY <1>1, <1>2 DEF Books, IdsTyped, StoreInstall, endpointVars
<1>4. IdsTyped'
  BY <1>2, <1>3 DEF Books, IdsTyped, Ids
<1>5. FileTyped'
  BY <1>2, FileWritten DEF Books, FileTyped, CommunityInv, IdInv
<1>6. FatesTyped'
  <2>1. "flush" \in Places /\ (GoTo(t, "flush") \/ Return(t))
    BY <1>1 DEF Places, Making
  <2> QED BY <2>1, <1>3, FatesKept DEF Books, CommunityInv, FatesTyped
<1> QED BY <1>4, <1>5, <1>6 DEF Books

LEMMA ContributeBooks ==
  ASSUME CommunityInv, CommunityInv', Books, NEW t \in Threads, Contribute(t)
  PROVE  Books'
<1> USE DEF Contribute
<1>1. PICK r \in Readings \ asked :
        /\ call' = [call EXCEPT ![t].pc = "post", ![t].rec = r]
        /\ asked' = asked \cup {r}
        /\ Payload(r)
  OBVIOUS
<1>2. install' \in Installs /\ install' # NoInstall
  BY IdMade DEF CommunityInv
<1>3. /\ sender' \in [Readings -> Ids] /\ sender'[r] = install'
      /\ \A x \in Readings \ {r} : sender'[x] = sender[x]
  BY <1>1, <1>2 DEF Payload, Books, IdsTyped, Ids
<1>4. IdsTyped'
  <2>1. \A x \in asked' : sender'[x] # NoInstall
    BY <1>1, <1>2, <1>3 DEF Books, IdsTyped, CommunityInv, RowInv
  <2> QED BY <2>1, <1>2, <1>3 DEF Books, IdsTyped, Ids, endpointVars
<1>5. FileTyped'
  <2>1. CASE call[t].pc = "contribute"
    BY <1>2, <2>1, FileWritten DEF Books, FileTyped, CommunityInv, IdInv
  <2>2. CASE call[t].pc # "contribute"
    <3>1. UNCHANGED disk /\ asked \subseteq asked'
      BY <1>1, <2>2
    <3>2. disk.outbox \in Seq(asked')
      BY <3>1 DEF CommunityInv, ListInv
    <3>3. disk' \in Files'
      BY <3>1, <3>2, <1>2 DEF Books, FileTyped, Files
    <3> QED BY <3>3 DEF Books, FileTyped
  <2> QED BY <2>1, <2>2
<1>6. FatesTyped'
  <2>1. call \in [Threads -> Calls]
    BY DEF CommunityInv, CallInv
  <2>2. ASSUME NEW u \in Threads PROVE call'[u].rec \in asked' \cup {NoReading}
    <3>1. CASE u = t
      BY <1>1, <2>1, <3>1 DEF Calls
    <3>2. CASE u # t
      <4>1. call'[u] = call[u]
        BY <1>1, <2>1, <3>2
      <4> QED BY <1>1, <4>1 DEF Books, FatesTyped
    <3> QED BY <3>1, <3>2
  <2> QED BY <1>1, <2>2 DEF Books, FatesTyped, endpointVars
<1> QED BY <1>4, <1>5, <1>6 DEF Books

LEMMA PostReadingBooks ==
  ASSUME CommunityInv, CommunityInv', Books, NEW t \in Threads, PostReading(t)
  PROVE  Books'
<1> USE DEF PostReading
<1>1. PICK reached \in BOOLEAN, answered \in BOOLEAN :
        /\ PostContribution(call[t].rec, reached)
        /\ IF PostOk(call[t].rec, reached, answered)
           THEN registered' = TRUE /\ GoTo(t, "flush")
           ELSE UNCHANGED registered /\ GoTo(t, "enqueue")
  OBVIOUS
<1>2. PICK pc \in {"flush", "enqueue"} : GoTo(t, pc)
  BY <1>1
<1>3. pc \in Places /\ call[t].rec \in asked
  BY DEF Places, Making, CommunityInv, CallInv
<1>4. rows' \in [Readings -> 0 .. MaxCopies] /\ known' \subseteq Installs
  BY <1>1, <1>3, PostCounts DEF Books, CommunityInv
<1>5. IdsTyped'
  BY <1>4, IdsKept DEF Books
<1>6. FileTyped'
  BY DEF Books, FileTyped, Files, Ids
<1>7. FatesTyped'
  BY <1>2, <1>3, <1>4, FatesKept DEF Books, CommunityInv, FatesTyped
<1> QED BY <1>5, <1>6, <1>7 DEF Books

LEMMA EnqueueBooks ==
  ASSUME CommunityInv, CommunityInv', Books, NEW t \in Threads, Enqueue(t)
  PROVE  Books'
<1> DEFINE queue == Append(Value(box), call[t].rec)
<1> USE DEF Enqueue
<1>1. Value(box) \in Seq(asked) /\ call[t].rec \in asked
  BY ValueTyped DEF CommunityInv, CallInv
<1>2. queue \in Seq(asked)
  BY <1>1, AppendProperties
<1>3. ToSet(queue) \subseteq asked
  <2> HIDE DEF queue
  <2> QED BY <1>2, ElementOfSeq DEF ToSet
<1>4. dropped' \subseteq asked
  BY <1>3 DEF Books, FatesTyped
<1>5. IdsTyped'
  BY IdsKept DEF Books, IdsTyped, endpointVars
<1>6. FileTyped'
  BY FileKept DEF Books, FileTyped, CommunityInv
<1>7. FatesTyped'
  <2>1. "idle" \in Places
    BY DEF Places, Making
  <2> QED BY <1>4, <2>1, FatesKept DEF Books, CommunityInv, FatesTyped, endpointVars
<1> QED BY <1>5, <1>6, <1>7 DEF Books

LEMMA PostOldestBooks ==
  ASSUME CommunityInv, CommunityInv', Books, NEW t \in Threads, PostOldest(t)
  PROVE  Books'
<1> USE DEF PostOldest
<1> DEFINE r == Head(heap[call[t].list])
<1>1. PICK reached \in BOOLEAN, answered \in BOOLEAN :
        /\ PostContribution(r, reached)
        /\ GoTo(t, IF PostOk(r, reached, answered) THEN "pop" ELSE "flushed")
  OBVIOUS
<1>2. heap[call[t].list] \in Seq(asked)
  BY DEF CommunityInv, CallInv, ListInv, Holding
<1>3. r \in asked
  BY <1>2, HeadTailProperties
<1>4. PICK pc \in {"pop", "flushed"} : GoTo(t, pc)
  BY <1>1
<1>5. pc \in Places
  BY DEF Places, Making
<1> HIDE DEF r
<1>6. rows' \in [Readings -> 0 .. MaxCopies] /\ known' \subseteq Installs
  BY <1>1, <1>3, PostCounts DEF Books, CommunityInv
<1>7. IdsTyped'
  BY <1>6, IdsKept DEF Books, memVars
<1>8. FileTyped'
  BY DEF Books, FileTyped, Files, Ids, memVars
<1>9. FatesTyped'
  BY <1>4, <1>5, <1>6, FatesKept DEF Books, CommunityInv, FatesTyped
<1> QED BY <1>7, <1>8, <1>9 DEF Books

LEMMA FlushBooks ==
  ASSUME CommunityInv, CommunityInv', Books, NEW t \in Threads,
         BeginFlush(t) \/ PopOldest(t) \/ EndFlush(t)
  PROVE  Books'
<1>1. IdsTyped'
  BY IdsKept DEF Books, IdsTyped, endpointVars, BeginFlush, PopOldest, EndFlush
<1>2. FileTyped'
  BY FileKept DEF Books, FileTyped, CommunityInv, BeginFlush, PopOldest, EndFlush
<1>3. FatesTyped'
  <2>1. CASE BeginFlush(t)
    <3>1. PICK id \in ListIds : call' = [call EXCEPT ![t].pc = "flushing", ![t].list = id]
      BY <2>1, FreshIsThere DEF BeginFlush, Holding, CommunityInv, ListInv, Value
    <3>2. call \in [Threads -> Calls]
      BY DEF CommunityInv, CallInv
    <3>3. \A u \in Threads : call'[u].rec = call[u].rec
      BY <3>1, <3>2 DEF Calls
    <3> QED BY <2>1, <3>3 DEF BeginFlush, Books, FatesTyped, endpointVars
  <2>2. CASE PopOldest(t) \/ EndFlush(t)
    <3>1. "flushing" \in Places /\ (GoTo(t, "flushing") \/ Return(t))
      BY <2>2 DEF Places, Making, PopOldest, EndFlush
    <3>2. /\ UNCHANGED <<asked, dropped, endpointVars>>
          /\ acked' = acked \/ Acknowledge(t)
      BY <2>2 DEF PopOldest, EndFlush
    <3> QED BY <3>1, <3>2, FatesKept DEF Books, CommunityInv, FatesTyped, endpointVars
  <2> QED BY <2>1, <2>2
<1> QED BY <1>1, <1>2, <1>3 DEF Books

LEMMA CrashBooks ==
  ASSUME CommunityInv, CommunityInv', Books, Crash
  PROVE  Books'
<1> USE DEF Crash
<1>1. /\ crashes \in Nat /\ crashes' = crashes + 1 /\ crashes' \in 0 .. MaxCrashes
  BY CommunityAssumption DEF Books, IdsTyped, Ids
<1>2. disk' \in Files
  <2>1. BlankFile \in Files
    BY <1>1, EmptySeq DEF BlankFile, Files, ConsentValues, Ids
  <2> QED BY <2>1 DEF Books, FileTyped
<1>3. disk' \in Files'
  BY <1>1, <1>2 DEF Files
<1>4. FileTyped'
  BY <1>2, <1>3 DEF FileTyped, Files
<1>5. IdsTyped'
  <2>1. install' \in Ids
    BY <1>3 DEF Files
  <2> QED BY <1>1, <2>1 DEF Books, IdsTyped, endpointVars
<1>6. ToSet(disk.outbox) \subseteq asked
  BY ElementOfSeq DEF CommunityInv, ListInv, ToSet
<1>7. FatesTyped'
  BY <1>6 DEF Books, FatesTyped, endpointVars, Idle
<1> QED BY <1>4, <1>5, <1>7 DEF Books

LEMMA BooksStep ==
  ASSUME CommunityInv, CommunityInv', Books, [Next]_vars
  PROVE  Books'
<1>1. CASE \E t \in Threads : Handler(t)
  <2>1. PICK t \in Threads : Handler(t)
    BY <1>1
  <2>2. CASE FindNoId(t) \/ GetState(t) \/ SetConsent(t) \/ Register(t) \/ Contribute(t)
    BY <2>2, FindNoIdBooks, GetStateBooks, SetConsentBooks, RegisterBooks, ContributeBooks
  <2>3. CASE PostReading(t) \/ Enqueue(t) \/ PostOldest(t)
    BY <2>3, PostReadingBooks, EnqueueBooks, PostOldestBooks
  <2>4. CASE BeginFlush(t) \/ PopOldest(t) \/ EndFlush(t)
    BY <2>4, FlushBooks
  <2> QED BY <2>1, <2>2, <2>3, <2>4 DEF Handler
<1>2. CASE Crash
  BY <1>2, CrashBooks
<1>3. CASE UNCHANGED vars
  BY <1>3 DEF vars, memVars, endpointVars, Books, IdsTyped, FileTyped, FatesTyped, Files, Ids
<1> QED BY <1>1, <1>2, <1>3 DEF Next

-----------------------------------------------------------------------------
(***************************************************************************)
(* One handler at a time.  Between flushes the file holds what the client  *)
(* holds; during one, what the file holds and the flushed list does not    *)
(* has a row at the endpoint, and so have the reading about to be popped   *)
(* and the reading whose handler flushes on its way to the answer.         *)
(***************************************************************************)
Stored(r) == rows[r] > 0

OwnReading(c) ==
  /\ c.pc = "register" \/ c.pc \in Making => c.rec = NoReading
  /\ (c.pc = "flush" \/ Holding(c)) /\ c.rec # NoReading => Stored(c.rec)

OwnList(c) ==
  /\ ~Holding(c) => disk.outbox = Value(box)
  /\ Holding(c) =>
       /\ Len(heap[c.list]) <= MaxOutbox
       /\ \A r \in ToSet(disk.outbox) : Stored(r) \/ r \in ToSet(heap[c.list])
  /\ c.pc = "pop" => heap[c.list] # <<>> /\ Stored(Head(heap[c.list]))

OneHandler ==
  /\ Len(disk.outbox) <= MaxOutbox
  /\ \A t \in Threads : OwnReading(call[t]) /\ OwnList(call[t])
  /\ NothingIsLost

ClientInv == CommunityInv /\ Books /\ OneHandler

LEMMA OneHandlerStart == Init => OneHandler
<1> SUFFICES ASSUME Init PROVE OneHandler
  OBVIOUS
<1>1. disk.outbox = <<>> /\ Value(box) = <<>> /\ acked = {}
  BY DEF Init, BlankFile, Value
<1>2. Len(disk.outbox) <= MaxOutbox
  BY <1>1, EmptySeq, CommunityAssumption
<1>3. \A t \in Threads : OwnReading(call[t]) /\ OwnList(call[t])
  BY <1>1 DEF Init, Idle, OwnReading, Making, OwnList, Holding
<1> QED BY <1>1, <1>2, <1>3 DEF OneHandler, NothingIsLost

(* Where a lone handler is after it moved, and nobody else is. *)
LEMMA Moved ==
  ASSUME Alone, CallInv, NEW t \in Threads, NEW pc \in Places, GoTo(t, pc)
  PROVE  \A u \in Threads : /\ call'[u].pc = pc /\ call'[u].rec = call[t].rec
                            /\ call'[u].list = call[t].list
<1>1. call \in [Threads -> Calls]
  BY DEF CallInv
<1>2. call'[t].pc = pc /\ call'[t].rec = call[t].rec /\ call'[t].list = call[t].list
  BY <1>1 DEF GoTo, Calls
<1> QED BY <1>2, OnlyThread

LEMMA CameBack ==
  ASSUME Alone, CallInv, NEW t \in Threads, Return(t)
  PROVE  \A u \in Threads : call'[u] = Idle
<1>1. call'[t] = Idle
  BY DEF Return, CallInv
<1> QED BY <1>1, OnlyThread

(***************************************************************************)
(* The two ways a lone handler ends in between flushes: with the file in   *)
(* step with the client, and nothing acknowledged lost.                    *)
(***************************************************************************)
LEMMA InStep ==
  ASSUME Len(disk'.outbox) <= MaxOutbox, disk'.outbox = Value(box)',
         \A u \in Threads : OwnReading(call[u])' /\ ~Holding(call[u])',
         NothingIsLost'
  PROVE  OneHandler'
<1>1. ASSUME NEW u \in Threads PROVE OwnList(call[u])'
  BY DEF OwnList, Holding
<1> QED BY <1>1 DEF OneHandler

LEMMA SavedOutbox ==
  ASSUME Save
  PROVE  disk'.outbox = Value(box)'
  BY DEF Save, Value

(* A step that leaves the list, its file and the endpoint alone. *)
LEMMA SameOutbox ==
  ASSUME Alone, CallInv, OneHandler, NEW t \in Threads, ~Holding(call[t]),
         UNCHANGED <<box, heap, rows, acked, dropped>>,
         UNCHANGED disk \/ Save,
         \A u \in Threads : OwnReading(call[u])' /\ ~Holding(call[u])'
  PROVE  OneHandler'
<1>1. disk.outbox = Value(box) /\ Value(box)' = Value(box)
  BY DEF OneHandler, OwnList, Value
<1>2. disk'.outbox = disk.outbox
  BY <1>1, SavedOutbox
<1>3. NothingIsLost'
  BY <1>2 DEF OneHandler, NothingIsLost
<1> QED BY <1>1, <1>2, <1>3, InStep DEF OneHandler

-----------------------------------------------------------------------------
LEMMA FindNoIdLoses ==
  ASSUME Alone, ClientInv, NEW t \in Threads, FindNoId(t)
  PROVE  OneHandler'
<1>1. PICK pc \in Making : GoTo(t, pc)
  BY DEF FindNoId, Making
<1>2. pc \in Places /\ ~Holding(call[t]) /\ pc \notin {"flush", "flushing", "pop", "flushed"}
  BY DEF Places, FindNoId, Idle, Holding, Making
<1>3. call[t].rec = NoReading
  BY DEF FindNoId, Idle, ClientInv, OneHandler, OwnReading, Making
<1>4. \A u \in Threads : call'[u].pc = pc /\ call'[u].rec = NoReading
  BY <1>1, <1>2, <1>3, Moved DEF ClientInv, CommunityInv
<1>5. \A u \in Threads : OwnReading(call[u])' /\ ~Holding(call[u])'
  BY <1>2, <1>4 DEF OwnReading, Making, Holding
<1>6. UNCHANGED <<box, heap, rows, acked, dropped, disk>>
  BY DEF FindNoId, memVars, endpointVars
<1> QED BY <1>2, <1>5, <1>6, SameOutbox DEF ClientInv, CommunityInv

LEMMA GetStateLoses ==
  ASSUME Alone, ClientInv, NEW t \in Threads, GetState(t)
  PROVE  OneHandler'
<1>1. \A u \in Threads : call'[u] = Idle
  BY CameBack DEF GetState, ClientInv, CommunityInv
<1>2. \A u \in Threads : OwnReading(call[u])' /\ ~Holding(call[u])'
  BY <1>1 DEF Idle, OwnReading, Holding, Making
<1>3. ~Holding(call[t])
  BY DEF GetState, Holding
<1> QED BY <1>2, <1>3, SameOutbox DEF GetState, endpointVars, ClientInv, CommunityInv

LEMMA SetConsentLoses ==
  ASSUME Alone, ClientInv, NEW t \in Threads, SetConsent(t)
  PROVE  OneHandler'
<1>1. PICK pc \in {"register", "idle"} : GoTo(t, pc)
  BY DEF SetConsent
<1>2. pc \in Places /\ call[t].rec = NoReading /\ ~Holding(call[t])
  BY DEF Places, Making, SetConsent, Idle, Holding
<1>3. \A u \in Threads : OwnReading(call[u])' /\ ~Holding(call[u])'
  BY <1>1, <1>2, Moved DEF OwnReading, Making, Holding, ClientInv, CommunityInv
<1> QED BY <1>2, <1>3, SameOutbox DEF SetConsent, endpointVars, ClientInv, CommunityInv

LEMMA RegisterLoses ==
  ASSUME Alone, ClientInv, NEW t \in Threads, Register(t)
  PROVE  OneHandler'
<1>1. GoTo(t, "flush") \/ Return(t)
  BY DEF Register
<1>2. ~Holding(call[t]) /\ call[t].rec = NoReading /\ "flush" \in Places
  BY DEF Register, Holding, Places, ClientInv, OneHandler, OwnReading, Making
<1>3. \A u \in Threads : OwnReading(call[u])' /\ ~Holding(call[u])'
  <2>1. CASE GoTo(t, "flush")
    BY <1>2, <2>1, Moved DEF OwnReading, Making, Holding, ClientInv, CommunityInv
  <2>2. CASE Return(t)
    BY <2>2, CameBack DEF OwnReading, Making, Holding, Idle, ClientInv, CommunityInv
  <2> QED BY <1>1, <2>1, <2>2
<1>4. UNCHANGED rows
  BY DEF Register, endpointVars
<1> QED BY <1>2, <1>3, <1>4, SameOutbox DEF Register, ClientInv, CommunityInv

LEMMA ContributeLoses ==
  ASSUME Alone, ClientInv, NEW t \in Threads, Contribute(t)
  PROVE  OneHandler'
<1>1. PICK r \in Readings \ asked : call' = [call EXCEPT ![t].pc = "post", ![t].rec = r]
  BY DEF Contribute
<1>2. call'[t].pc = "post"
  BY <1>1 DEF ClientInv, CommunityInv, CallInv, Calls
<1>3. \A u \in Threads : OwnReading(call[u])' /\ ~Holding(call[u])'
  BY <1>2, OnlyThread DEF OwnReading, Making, Holding
<1>4. ~Holding(call[t])
  BY DEF Contribute, Idle, Holding
<1>5. Save \/ UNCHANGED disk
  BY DEF Contribute
<1> QED BY <1>3, <1>4, <1>5, SameOutbox DEF Contribute, endpointVars, ClientInv, CommunityInv

LEMMA PostReadingLoses ==
  ASSUME Alone, ClientInv, NEW t \in Threads, PostReading(t)
  PROVE  OneHandler'
<1> USE DEF PostReading
<1>1. PICK reached \in BOOLEAN, answered \in BOOLEAN :
        /\ PostContribution(call[t].rec, reached)
        /\ IF PostOk(call[t].rec, reached, answered)
           THEN registered' = TRUE /\ GoTo(t, "flush")
           ELSE UNCHANGED registered /\ GoTo(t, "enqueue")
  OBVIOUS
<1>2. call[t].rec \in asked /\ ~Holding(call[t])
  BY DEF ClientInv, CommunityInv, CallInv, Holding
<1>3. /\ \A x \in Readings : rows[x] > 0 => rows'[x] > 0
      /\ reached /\ Accepted(call[t].rec) => rows'[call[t].rec] > 0
  BY <1>1, <1>2, PostCounts DEF ClientInv, Books, CommunityInv
<1>4. "flush" \in Places /\ "enqueue" \in Places
  BY DEF Places, Making
<1>5. \A u \in Threads : OwnReading(call[u])' /\ ~Holding(call[u])'
  <2>1. CASE PostOk(call[t].rec, reached, answered)
    <3>1. GoTo(t, "flush") /\ rows'[call[t].rec] > 0
      BY <1>1, <1>3, <2>1 DEF PostOk
    <3> QED BY <3>1, <1>4, Moved
            DEF OwnReading, Making, Holding, Stored, ClientInv, CommunityInv
  <2>2. CASE ~PostOk(call[t].rec, reached, answered)
    BY <1>1, <1>4, <2>2, Moved DEF OwnReading, Making, Holding, ClientInv, CommunityInv
  <2> QED BY <2>1, <2>2
<1>6. disk'.outbox = Value(box)' /\ UNCHANGED disk
  BY <1>2 DEF ClientInv, OneHandler, OwnList, Value
<1>7. NothingIsLost'
  BY <1>3, <1>6
     DEF ClientInv, OneHandler, NothingIsLost, Books, FatesTyped, CommunityInv, RowInv
<1> QED BY <1>5, <1>6, <1>7, InStep DEF ClientInv, OneHandler

LEMMA Members ==
  ASSUME NEW queue \in Seq(asked), NEW r
  PROVE  /\ ToSet(Append(queue, r)) = ToSet(queue) \cup {r}
         /\ Len(Append(queue, r)) = Len(queue) + 1
<1>1. r \in asked \cup {r} /\ queue \in Seq(asked \cup {r})
  OBVIOUS
<1>2. /\ Len(Append(queue, r)) = Len(queue) + 1 /\ Len(queue) \in Nat
      /\ \A i \in 1 .. Len(queue) : Append(queue, r)[i] = queue[i]
      /\ Append(queue, r)[Len(queue) + 1] = r
      /\ DOMAIN queue = 1 .. Len(queue)
      /\ DOMAIN Append(queue, r) = 1 .. Len(queue) + 1
  BY <1>1, AppendProperties, LenProperties
<1>3. ToSet(Append(queue, r)) \subseteq ToSet(queue) \cup {r}
  <2>1. ASSUME NEW i \in 1 .. Len(queue) + 1
        PROVE  Append(queue, r)[i] \in ToSet(queue) \cup {r}
    <3>1. CASE i = Len(queue) + 1
      BY <1>2, <3>1
    <3>2. CASE i # Len(queue) + 1
      <4>1. i \in 1 .. Len(queue)
        BY <1>2, <3>2
      <4> QED BY <1>2, <4>1 DEF ToSet
    <3> QED BY <3>1, <3>2
  <2> QED BY <1>2, <2>1 DEF ToSet
<1>4. ToSet(queue) \cup {r} \subseteq ToSet(Append(queue, r))
  <2>1. \A i \in 1 .. Len(queue) : i \in 1 .. Len(queue) + 1
    BY <1>2
  <2>2. Len(queue) + 1 \in 1 .. Len(queue) + 1
    BY <1>2
  <2> QED BY <1>2, <2>1, <2>2 DEF ToSet
<1> QED BY <1>2, <1>3, <1>4

LEMMA NewestLength ==
  ASSUME NEW queue \in Seq(asked), Len(queue) > MaxOutbox
  PROVE  Len(Newest(queue)) = MaxOutbox
<1> DEFINE m == Len(queue) - MaxOutbox + 1
           n == Len(queue)
<1>1. n \in Nat /\ MaxOutbox \in Nat \ {0} /\ m \in Nat \ {0} /\ m <= n + 1
  BY CommunityAssumption, LenProperties
<1>2. \A i \in m .. n : queue[i] \in asked
  BY <1>1, ElementOfSeq
<1>3. m \in Int /\ n \in Int /\ n - m + 1 = MaxOutbox
  BY <1>1
<1>4. Newest(queue) = SubSeq(queue, m, n)
  BY DEF Newest
<1> HIDE DEF m, n
<1>5. Len(SubSeq(queue, m, n)) = IF m <= n THEN n - m + 1 ELSE 0
  BY <1>2, <1>3, SubSeqProperties
<1>6. m <= n
  BY <1>1, <1>3
<1> QED BY <1>3, <1>4, <1>5, <1>6

(***************************************************************************)
(* What an enqueue writes: the queue with the reading at its end, without  *)
(* its oldest when it is over the cap.                                     *)
(***************************************************************************)
LEMMA EnqueueWrites ==
  ASSUME Alone, ClientInv, NEW t \in Threads, Enqueue(t),
         NEW queue, queue = Append(disk.outbox, call[t].rec)
  PROVE  /\ disk.outbox \in Seq(asked) /\ call[t].rec \in asked
         /\ queue \in Seq(asked)
         /\ IF Len(queue) > MaxOutbox
            THEN /\ disk'.outbox = Newest(queue)
                 /\ dropped' = dropped \cup (ToSet(queue) \ ToSet(Newest(queue)))
            ELSE disk'.outbox = queue /\ UNCHANGED dropped
<1> DEFINE target == IF Value(box) = <<>> THEN FreshList ELSE box
<1>1. /\ Value(box) \in Seq(asked) /\ call[t].rec \in asked
      /\ ~Holding(call[t]) /\ disk.outbox = Value(box)
  BY ValueTyped DEF ClientInv, CommunityInv, CallInv, Enqueue, Holding, OneHandler, OwnList
<1>2. queue \in Seq(asked) /\ queue = Append(Value(box), call[t].rec)
  BY <1>1, AppendProperties
<1>3. FreshList \in ListIds \ {0}
  BY <1>1, FreshIsThere, ThreadsAreCounted DEF ClientInv, CommunityInv
<1>4. target \in ListIds \ {0} /\ heap \in [ListIds -> Seq(asked)]
  BY <1>3, ThreadsAreCounted DEF ClientInv, CommunityInv, ListInv, Value
<1>5. disk'.outbox = Value(box)'
  BY SavedOutbox DEF Enqueue
<1>6. CASE Len(queue) > MaxOutbox
  <2>1. /\ box' = FreshList
        /\ heap' = [heap EXCEPT ![target] = queue, ![FreshList] = Newest(queue)]
        /\ dropped' = dropped \cup (ToSet(queue) \ ToSet(Newest(queue)))
    BY <1>2, <1>6 DEF Enqueue
  <2> HIDE DEF target
  <2>2. Value(box)' = Newest(queue)
    BY <1>3, <1>4, <2>1 DEF Value
  <2> QED BY <1>1, <1>2, <1>5, <1>6, <2>1, <2>2
<1>7. CASE ~(Len(queue) > MaxOutbox)
  <2>1. box' = target /\ heap' = [heap EXCEPT ![target] = queue] /\ UNCHANGED dropped
    BY <1>2, <1>7 DEF Enqueue
  <2> HIDE DEF target
  <2>2. Value(box)' = queue
    BY <1>4, <2>1 DEF Value
  <2> QED BY <1>1, <1>2, <1>5, <1>7, <2>1, <2>2
<1> QED BY <1>6, <1>7

LEMMA EnqueueLoses ==
  ASSUME Alone, ClientInv, NEW t \in Threads, Enqueue(t)
  PROVE  OneHandler'
<1>1. PICK queue : queue = Append(disk.outbox, call[t].rec)
  OBVIOUS
<1>2. queue \in Seq(asked) /\ ToSet(queue) = ToSet(disk.outbox) \cup {call[t].rec}
  BY <1>1, EnqueueWrites, Members
<1>3. UNCHANGED <<rows, asked>>
  BY DEF Enqueue, endpointVars
<1>4. disk'.outbox = Value(box)'
  BY SavedOutbox DEF Enqueue
<1>5. Len(queue) \in Nat
  BY <1>2, LenProperties
<1>6. /\ Len(disk'.outbox) <= MaxOutbox
      /\ \A r \in ToSet(queue) : r \in ToSet(disk'.outbox) \/ r \in dropped'
      /\ dropped \subseteq dropped'
  <2>1. IF Len(queue) > MaxOutbox
        THEN /\ disk'.outbox = Newest(queue)
             /\ dropped' = dropped \cup (ToSet(queue) \ ToSet(Newest(queue)))
        ELSE disk'.outbox = queue /\ UNCHANGED dropped
    BY <1>1, EnqueueWrites
  <2>2. CASE Len(queue) > MaxOutbox
    <3>1. Len(Newest(queue)) = MaxOutbox
      BY <1>2, <2>2, NewestLength
    <3> QED BY <2>1, <2>2, <3>1, CommunityAssumption
  <2>3. CASE ~(Len(queue) > MaxOutbox)
    BY <1>5, <2>1, <2>3, CommunityAssumption
  <2> QED BY <2>2, <2>3
<1>7. NothingIsLost'
  <2>1. acked' \subseteq acked \cup {call[t].rec}
    BY DEF Enqueue, Acknowledge
  <2> QED BY <1>2, <1>3, <1>6, <2>1 DEF ClientInv, OneHandler, NothingIsLost
<1>8. \A u \in Threads : OwnReading(call[u])' /\ ~Holding(call[u])'
  BY CameBack DEF Enqueue, OwnReading, Making, Holding, Idle, ClientInv, CommunityInv
<1> QED BY <1>4, <1>6, <1>7, <1>8, InStep

-----------------------------------------------------------------------------
(***************************************************************************)
(* The steps of a flush: the file is not written before the end, and what  *)
(* leaves the list has a row.                                              *)
(***************************************************************************)
LEMMA Flushing ==
  ASSUME OneHandler, UNCHANGED <<disk, acked, dropped>>,
         \A x \in asked : Stored(x) => Stored(x)',
         acked \subseteq asked,
         \A u \in Threads : OwnReading(call[u])' /\ OwnList(call[u])'
  PROVE  OneHandler'
<1>1. NothingIsLost'
  BY DEF OneHandler, NothingIsLost, Stored
<1> QED BY <1>1 DEF OneHandler

LEMMA BeginFlushLoses ==
  ASSUME Alone, ClientInv, NEW t \in Threads, BeginFlush(t)
  PROVE  OneHandler'
<1> DEFINE id == IF Value(box) = <<>> THEN FreshList ELSE box
<1>1. /\ call' = [call EXCEPT ![t].pc = "flushing", ![t].list = id]
      /\ heap' = [heap EXCEPT ![id] = Value(box)]
      /\ UNCHANGED <<disk, endpointVars, acked, dropped>>
  BY DEF BeginFlush
<1>2. ~Holding(call[t]) /\ disk.outbox = Value(box)
  BY DEF BeginFlush, Holding, ClientInv, OneHandler, OwnList
<1>3. id \in ListIds
  BY <1>2, FreshIsThere DEF ClientInv, CommunityInv, ListInv, Value
<1> HIDE DEF id
<1>4. call'[t].pc = "flushing" /\ call'[t].rec = call[t].rec /\ call'[t].list = id
  BY <1>1 DEF ClientInv, CommunityInv, CallInv, Calls
<1>5. heap'[id] = disk.outbox
  BY <1>1, <1>2, <1>3 DEF ClientInv, CommunityInv, ListInv
<1>6. OwnReading(call[t])'
  BY <1>1, <1>4 DEF BeginFlush, ClientInv, OneHandler, OwnReading, Making, Stored, endpointVars
<1>7. OwnList(call[t])'
  BY <1>1, <1>4, <1>5 DEF ClientInv, OneHandler, OwnList, Holding
<1>8. \A u \in Threads : OwnReading(call[u])' /\ OwnList(call[u])'
  BY <1>6, <1>7, OnlyThread
<1>9. \A x \in asked : Stored(x) => Stored(x)'
  BY <1>1 DEF Stored, endpointVars
<1> QED BY <1>1, <1>8, <1>9, Flushing DEF ClientInv, Books, FatesTyped

LEMMA PostOldestLoses ==
  ASSUME Alone, ClientInv, NEW t \in Threads, PostOldest(t)
  PROVE  OneHandler'
<1> USE DEF PostOldest
<1> DEFINE queue == heap[call[t].list]
           r == Head(queue)
<1>1. PICK reached \in BOOLEAN, answered \in BOOLEAN :
        /\ PostContribution(r, reached)
        /\ GoTo(t, IF PostOk(r, reached, answered) THEN "pop" ELSE "flushed")
  OBVIOUS
<1>2. queue \in Seq(asked) /\ queue # <<>> /\ Holding(call[t])
  BY DEF ClientInv, CommunityInv, CallInv, ListInv, Holding
<1>3. r \in asked /\ asked \subseteq Readings
  BY <1>2, HeadTailProperties DEF ClientInv, CommunityInv, RowInv
<1>4. UNCHANGED <<disk, acked, dropped, heap, box>>
  BY DEF memVars
<1>5. /\ \A x \in Readings : rows[x] > 0 => rows'[x] > 0
      /\ reached /\ Accepted(r) => rows'[r] > 0
  <2> HIDE DEF r, queue
  <2> QED BY <1>1, <1>3, PostCounts DEF ClientInv, Books, CommunityInv
<1>6. PICK pc \in {"pop", "flushed"} :
         GoTo(t, pc) /\ (pc = "pop" => PostOk(r, reached, answered))
  BY <1>1
<1>7. pc = "pop" => rows'[r] > 0
  BY <1>5, <1>6 DEF PostOk
<1>8. call'[t].pc = pc /\ call'[t].rec = call[t].rec /\ call'[t].list = call[t].list
  BY <1>6, Moved DEF Places, Making, ClientInv, CommunityInv
<1>9. OwnReading(call[t])'
  <2>1. call[t].rec # NoReading => rows[call[t].rec] > 0 /\ call[t].rec \in asked
    BY <1>2 DEF ClientInv, OneHandler, OwnReading, Making, Stored, Books, FatesTyped
  <2> QED BY <1>3, <1>5, <1>8, <2>1 DEF OwnReading, Making, Stored
<1>10. OwnList(call[t])'
  <2>1. Holding(call[t])' /\ heap'[call'[t].list] = queue
    BY <1>4, <1>8 DEF Holding
  <2>2. Len(queue) <= MaxOutbox
    BY <1>2 DEF ClientInv, OneHandler, OwnList
  <2>3. \A x \in ToSet(disk.outbox) : rows'[x] > 0 \/ x \in ToSet(queue)
    <3>1. ToSet(disk.outbox) \subseteq asked
      BY ElementOfSeq DEF ClientInv, CommunityInv, ListInv, ToSet
    <3> QED BY <1>2, <1>3, <1>5, <3>1 DEF ClientInv, OneHandler, OwnList, Stored
  <2>4. pc = "pop" => queue # <<>> /\ rows'[Head(queue)] > 0
    BY <1>2, <1>7
  <2> HIDE DEF queue
  <2> QED BY <1>4, <1>8, <2>1, <2>2, <2>3, <2>4 DEF OwnList, Stored
<1>11. \A u \in Threads : OwnReading(call[u])' /\ OwnList(call[u])'
  BY <1>9, <1>10, OnlyThread
<1>12. \A x \in asked : Stored(x) => Stored(x)'
  BY <1>3, <1>5 DEF Stored
<1> QED BY <1>4, <1>11, <1>12, Flushing DEF ClientInv, Books, FatesTyped

LEMMA TailMembers ==
  ASSUME NEW queue \in Seq(asked), queue # <<>>
  PROVE  /\ ToSet(queue) \subseteq {Head(queue)} \cup ToSet(Tail(queue))
         /\ Len(Tail(queue)) <= Len(queue) /\ Tail(queue) \in Seq(asked)
<1>1. /\ Tail(queue) \in Seq(asked) /\ Len(queue) \in Nat \ {0}
      /\ Len(Tail(queue)) = Len(queue) - 1
      /\ \A i \in 1 .. Len(Tail(queue)) : Tail(queue)[i] = queue[i + 1]
      /\ Head(queue) = queue[1]
      /\ DOMAIN queue = 1 .. Len(queue)
      /\ DOMAIN Tail(queue) = 1 .. Len(Tail(queue))
  BY HeadTailProperties, LenProperties, EmptySeq
<1>2. ASSUME NEW i \in 1 .. Len(queue)
      PROVE  queue[i] \in {Head(queue)} \cup ToSet(Tail(queue))
  <2>1. CASE i = 1
    BY <1>1, <2>1
  <2>2. CASE i # 1
    <3>1. i - 1 \in 1 .. Len(Tail(queue)) /\ (i - 1) + 1 = i
      BY <1>1, <2>2
    <3>2. Tail(queue)[i - 1] = queue[i]
      BY <1>1, <3>1
    <3> QED BY <1>1, <3>1, <3>2 DEF ToSet
  <2> QED BY <2>1, <2>2
<1>3. ToSet(queue) \subseteq {Head(queue)} \cup ToSet(Tail(queue))
  BY <1>1, <1>2 DEF ToSet
<1> QED BY <1>1, <1>3

LEMMA PopOldestLoses ==
  ASSUME Alone, ClientInv, NEW t \in Threads, PopOldest(t)
  PROVE  OneHandler'
<1> DEFINE id == call[t].list
           queue == heap[id]
<1>1. /\ Holding(call[t]) /\ id \in ListIds /\ heap \in [ListIds -> Seq(asked)]
      /\ queue # <<>> /\ Stored(Head(queue)) /\ Len(queue) <= MaxOutbox
      /\ \A r \in ToSet(disk.outbox) : Stored(r) \/ r \in ToSet(queue)
  BY DEF PopOldest, Holding, ClientInv, CommunityInv, CallInv, ListInv,
         OneHandler, OwnList
<1>2. /\ heap' = [heap EXCEPT ![id] = Tail(queue)] /\ GoTo(t, "flushing")
      /\ UNCHANGED <<disk, rows, acked, dropped>>
  BY <1>1 DEF PopOldest, endpointVars
<1>3. call'[t].pc = "flushing" /\ call'[t].rec = call[t].rec /\ call'[t].list = id
  BY <1>2, Moved DEF Places, Making, ClientInv, CommunityInv
<1> HIDE DEF id
<1>4. heap'[id] = Tail(queue) /\ queue \in Seq(asked)
  BY <1>1, <1>2
<1> HIDE DEF queue
<1>5. /\ ToSet(queue) \subseteq {Head(queue)} \cup ToSet(Tail(queue))
      /\ Len(Tail(queue)) <= Len(queue) /\ Tail(queue) \in Seq(asked)
  BY <1>1, <1>4, TailMembers
<1>6. Len(Tail(queue)) <= MaxOutbox
  BY <1>1, <1>4, <1>5, LenProperties, CommunityAssumption
<1>7. OwnReading(call[t])'
  BY <1>1, <1>2, <1>3 DEF ClientInv, OneHandler, OwnReading, Making, Stored
<1>8. OwnList(call[t])'
  BY <1>1, <1>2, <1>3, <1>4, <1>5, <1>6 DEF OwnList, Holding, Stored
<1>9. \A u \in Threads : OwnReading(call[u])' /\ OwnList(call[u])'
  BY <1>7, <1>8, OnlyThread
<1>10. \A x \in asked : Stored(x) => Stored(x)'
  BY <1>2 DEF Stored
<1> QED BY <1>2, <1>9, <1>10, Flushing DEF ClientInv, Books, FatesTyped

LEMMA EndFlushLoses ==
  ASSUME Alone, ClientInv, NEW t \in Threads, EndFlush(t)
  PROVE  OneHandler'
<1>1. /\ Holding(call[t]) /\ call[t].list \in ListIds \ {0}
      /\ Len(heap[call[t].list]) <= MaxOutbox
      /\ \A r \in ToSet(disk.outbox) : Stored(r) \/ r \in ToSet(heap[call[t].list])
      /\ call[t].rec # NoReading => Stored(call[t].rec)
  BY ThreadsAreCounted DEF EndFlush, Holding, ClientInv, CommunityInv, CallInv,
     OneHandler, OwnList, OwnReading
<1>2. box' = call[t].list /\ UNCHANGED <<heap, rows, dropped>>
  BY DEF EndFlush, endpointVars
<1>3. disk'.outbox = Value(box)' /\ disk'.outbox = heap[call[t].list]
  BY <1>1, <1>2, SavedOutbox DEF EndFlush, Value
<1>4. NothingIsLost'
  <2>1. acked' \subseteq acked \cup ({call[t].rec} \ {NoReading})
    BY DEF EndFlush, Acknowledge
  <2> QED BY <1>1, <1>2, <1>3, <2>1
          DEF ClientInv, OneHandler, NothingIsLost, Stored
<1>5. \A u \in Threads : OwnReading(call[u])' /\ ~Holding(call[u])'
  BY CameBack DEF EndFlush, OwnReading, Making, Holding, Idle, ClientInv, CommunityInv
<1> QED BY <1>1, <1>3, <1>4, <1>5, InStep

(***************************************************************************)
(* A restart: the handlers are gone, the client starts from its file; what *)
(* a torn file held is given up.                                           *)
(***************************************************************************)
LEMMA CrashLoses ==
  ASSUME Alone, ClientInv, Crash
  PROVE  OneHandler'
<1>1. disk' = disk \/ disk' = BlankFile
  BY DEF Crash
<1>2. 1 \in ListIds /\ 1 # 0
  BY ThreadsAreCounted
<1>3. disk'.outbox = Value(box)'
  BY <1>2 DEF Crash, Value
<1>4. Len(disk'.outbox) <= MaxOutbox
  <2>1. CASE disk' = disk
    BY <2>1 DEF ClientInv, OneHandler
  <2>2. CASE disk' = BlankFile
    BY <2>2, EmptySeq, CommunityAssumption DEF BlankFile
  <2> QED BY <1>1, <2>1, <2>2
<1>5. UNCHANGED <<rows, acked>>
  BY DEF Crash, endpointVars
<1>6. NothingIsLost'
  <2>1. CASE disk' = disk
    <3>1. UNCHANGED dropped
      BY <2>1 DEF Crash
    <3> QED BY <2>1, <3>1, <1>5 DEF ClientInv, OneHandler, NothingIsLost
  <2>2. CASE disk' # disk
    <3>1. dropped' = dropped \cup {r \in ToSet(disk.outbox) : rows[r] = 0}
      BY <2>2 DEF Crash
    <3>2. \A r \in acked : rows[r] = 0 \/ rows[r] > 0
      BY DEF ClientInv, Books, FatesTyped, CommunityInv, RowInv
    <3> QED BY <3>1, <3>2, <1>5 DEF ClientInv, OneHandler, NothingIsLost
  <2> QED BY <2>1, <2>2
<1>7. \A u \in Threads : OwnReading(call[u])' /\ ~Holding(call[u])'
  BY DEF Crash, Idle, OwnReading, Making, Holding
<1> QED BY <1>3, <1>4, <1>6, <1>7, InStep

LEMMA OneHandlerStep ==
  ASSUME Alone, ClientInv, [Next]_vars
  PROVE  OneHandler'
<1>1. CASE \E t \in Threads : Handler(t)
  <2>1. PICK t \in Threads : Handler(t)
    BY <1>1
  <2>2. CASE FindNoId(t) \/ GetState(t) \/ SetConsent(t) \/ Register(t) \/ Contribute(t)
    BY <2>2, FindNoIdLoses, GetStateLoses, SetConsentLoses, RegisterLoses, ContributeLoses
  <2>3. CASE PostReading(t) \/ Enqueue(t) \/ PostOldest(t)
    BY <2>3, PostReadingLoses, EnqueueLoses, PostOldestLoses
  <2>4. CASE BeginFlush(t) \/ PopOldest(t) \/ EndFlush(t)
    BY <2>4, BeginFlushLoses, PopOldestLoses, EndFlushLoses
  <2> QED BY <2>1, <2>2, <2>3, <2>4 DEF Handler
<1>2. CASE Crash
  BY <1>2, CrashLoses
<1>3. CASE UNCHANGED vars
  <2>1. UNCHANGED <<call, disk, box, heap, rows, acked, dropped>>
    BY <1>3 DEF vars, memVars, endpointVars
  <2> QED BY <2>1 DEF ClientInv, OneHandler, NothingIsLost, OwnReading, Making, OwnList,
                      Stored, Holding, Value
<1> QED BY <1>1, <1>2, <1>3 DEF Next

LEMMA ClientStart == Init => ClientInv
  BY CommunityStart, BooksStart, OneHandlerStart DEF ClientInv

LEMMA ClientStep ==
  ASSUME Alone, ClientInv, [Next]_vars
  PROVE  ClientInv'
<1>1. CommunityInv'
  BY CommunityStep DEF ClientInv
<1>2. Books'
  BY <1>1, BooksStep DEF ClientInv
<1> QED BY <1>1, <1>2, OneHandlerStep DEF ClientInv

-----------------------------------------------------------------------------
(***************************************************************************)
(* A reading the user got an answer for is at the endpoint, in the saved   *)
(* outbox, or was given up with a full outbox or a torn file: with one     *)
(* handler at a time, whatever posts or answers are lost and wherever in a *)
(* flush the program is killed.  Two handlers at once do lose readings.    *)
(***************************************************************************)
THEOREM ReadingsAreNotLost ==
  ASSUME Cardinality(Threads) = 1
  PROVE  Spec => []NothingIsLost
<1>1. Alone
  BY DEF Alone
<1>2. Init => ClientInv
  BY ClientStart
<1>3. ClientInv /\ [Next]_vars => ClientInv'
  BY <1>1, ClientStep
<1>4. ClientInv => NothingIsLost
  BY DEF ClientInv, OneHandler
<1> QED BY <1>2, <1>3, <1>4, PTL DEF Spec

LEMMA OutboxCapped ==
  ASSUME ListInv, RowInv, Len(disk.outbox) <= MaxOutbox
  PROVE  disk.outbox \in BoundedSeq(Readings, MaxOutbox)
<1>1. disk.outbox \in Seq(Readings) /\ Len(disk.outbox) \in 0 .. MaxOutbox
  BY LenProperties, CommunityAssumption DEF ListInv, RowInv
<1>2. disk.outbox = [i \in 1 .. Len(disk.outbox) |-> disk.outbox[i]]
      /\ \A i \in 1 .. Len(disk.outbox) : disk.outbox[i] \in Readings
  BY <1>1, LenProperties, ElementOfSeq
<1>3. disk.outbox \in [1 .. Len(disk.outbox) -> Readings]
  BY <1>1, <1>2, LenProperties
<1> QED BY <1>1, <1>3, CommunityAssumption DEF BoundedSeq, SeqOf

(***************************************************************************)
(* The client and its file keep their types, the outbox its cap, with one  *)
(* handler at a time.                                                      *)
(***************************************************************************)
THEOREM ClientTyped ==
  ASSUME Cardinality(Threads) = 1
  PROVE  Spec => []TypeOK
<1>1. Alone
  BY DEF Alone
<1>2. Init => ClientInv
  BY ClientStart
<1>3. ClientInv /\ [Next]_vars => ClientInv'
  BY <1>1, ClientStep
<1>4. ASSUME ClientInv PROVE TypeOK
  <2>1. Ids = Installs \cup {NoInstall}
    BY DEF Ids
  <2>2. /\ consent \in {"unset", "yes", "no"} /\ registered \in BOOLEAN
        /\ install \in Installs \cup {NoInstall} /\ box \in ListIds \cup {0}
    BY <1>4, <2>1 DEF ClientInv, Books, FileTyped, ConsentValues, IdsTyped,
                      CommunityInv, IdInv, ListInv
  <2>3. asked \subseteq Readings
    BY <1>4 DEF ClientInv, CommunityInv, RowInv
  <2>4. heap \in [ListIds -> Seq(Readings)]
    BY <1>4, <2>3 DEF ClientInv, CommunityInv, ListInv
  <2>5. call \in [Threads ->
          [pc : {"idle", "state", "register", "enrol", "contribute", "post",
                 "enqueue", "flush", "flushing", "pop", "flushed"},
           rec : Readings \cup {NoReading}, list : ListIds \cup {0}]]
    BY <1>4 DEF ClientInv, CommunityInv, CallInv, Calls, Places
  <2>6. disk.outbox \in BoundedSeq(Readings, MaxOutbox)
    BY <1>4, OutboxCapped DEF ClientInv, CommunityInv, OneHandler
  <2>7. disk \in [consent : {"unset", "yes", "no"}, registered : BOOLEAN,
                  install : Installs \cup {NoInstall},
                  outbox : BoundedSeq(Readings, MaxOutbox)]
    BY <1>4, <2>1, <2>6 DEF ClientInv, Books, FileTyped, Files, ConsentValues
  <2>8. rows \in [Readings -> 0 .. MaxCopies] /\ acked \subseteq asked
        /\ dropped \subseteq asked
    BY <1>4 DEF ClientInv, Books, FatesTyped
  <2>9. /\ known \subseteq Installs /\ crashes \in 0 .. MaxCrashes
        /\ sender \in [Readings -> Installs \cup {NoInstall}]
    BY <1>4, <2>1 DEF ClientInv, Books, IdsTyped
  <2> QED BY <2>2, <2>3, <2>4, <2>5, <2>7, <2>8, <2>9 DEF TypeOK
<1> QED BY <1>2, <1>3, <1>4, PTL DEF Spec

-----------------------------------------------------------------------------
(***************************************************************************)
(* The refinement: with one handler at a time the client and its file are  *)
(* the bounded outbox.  A reading is queued once, what is flushed is what  *)
(* the file holds without some of its oldest, all of these at the          *)
(* endpoint, and a reading on its way was never given up.                  *)
(***************************************************************************)
Distinct(queue) == \A i, j \in DOMAIN queue : queue[i] = queue[j] => i = j

LeftOf(queue, saved) ==
  LET gone == Len(saved) - Len(queue)
  IN /\ Len(queue) <= Len(saved)
     /\ \A i \in 1 .. Len(queue) : queue[i] = saved[i + gone]
     /\ \A i \in 1 .. gone : Stored(saved[i])

InOrder(c) ==
  /\ c.pc \in {"post", "enqueue"} => c.rec \notin ToSet(disk.outbox) \cup dropped
  /\ Holding(c) => LeftOf(heap[c.list], disk.outbox)

OrderInv ==
  /\ Distinct(disk.outbox)
  /\ \A r \in ToSet(disk.outbox) : r \notin dropped
  /\ \A t \in Threads : InOrder(call[t])

OutboxStep == [Outbox!Next]_(Outbox!outboxVars)

LEMMA OrderStart == Init => OrderInv /\ Outbox!Init
<1> SUFFICES ASSUME Init PROVE OrderInv /\ Outbox!Init
  OBVIOUS
<1>1. disk.outbox = <<>> /\ dropped = {}
  BY DEF Init, BlankFile
<1>2. DOMAIN disk.outbox = {} /\ ToSet(disk.outbox) = {}
  BY <1>1, EmptySeq, LenProperties DEF ToSet
<1>3. OrderInv
  BY <1>2 DEF OrderInv, Distinct, InOrder, Init, Idle, Holding
<1>4. Undelivered(disk.outbox) = {} /\ Older(disk.outbox) = {}
  BY <1>2 DEF Undelivered, Older
<1>5. {r \in Readings : rows[r] > 0} = {} /\ {r \in dropped : rows[r] = 0} = {}
  BY <1>1 DEF Init, EndpointInit
<1> QED BY <1>3, <1>4, <1>5 DEF Outbox!Init

LEMMA SameReadings ==
  ASSUME disk'.outbox = disk.outbox, \A x \in asked : rows'[x] = 0 <=> rows[x] = 0,
         disk.outbox \in Seq(asked)
  PROVE  /\ Undelivered(disk.outbox)' = Undelivered(disk.outbox)
         /\ Older(disk.outbox)' = Older(disk.outbox)
<1>1. ToSet(disk.outbox) \subseteq asked
  BY ElementOfSeq DEF ToSet
<1>2. Undelivered(disk.outbox)' = Undelivered(disk.outbox)
  BY <1>1 DEF Undelivered
<1>3. Older(disk.outbox)' = {p \in Undelivered(disk.outbox)' \X Undelivered(disk.outbox)' :
         \E i, j \in DOMAIN disk'.outbox :
            i < j /\ disk'.outbox[i] = p[1] /\ disk'.outbox[j] = p[2]}
  BY DEF Older, Ahead
<1> QED BY <1>2, <1>3 DEF Older, Ahead

(* The same outbox, and the same answer for every reading: a stutter. *)
LEMMA OutboxIdles ==
  ASSUME ClientInv, disk'.outbox = disk.outbox, UNCHANGED dropped,
         \A x \in Readings : rows'[x] > 0 <=> rows[x] > 0,
         rows' \in [Readings -> Nat]
  PROVE  OutboxStep
<1>1. rows \in [Readings -> Nat] /\ asked \subseteq Readings
      /\ disk.outbox \in Seq(asked) /\ dropped \subseteq asked
  BY DEF ClientInv, CommunityInv, RowInv, ListInv, Books, FatesTyped
<1>2. \A x \in Readings : rows'[x] = 0 <=> rows[x] = 0
  BY <1>1
<1>3. /\ Undelivered(disk.outbox)' = Undelivered(disk.outbox)
      /\ Older(disk.outbox)' = Older(disk.outbox)
  BY <1>1, <1>2, SameReadings
<1>4. {r \in Readings : rows[r] > 0}' = {r \in Readings : rows[r] > 0}
  OBVIOUS
<1>5. {r \in dropped : rows[r] = 0}' = {r \in dropped : rows[r] = 0}
  BY <1>1, <1>2
<1> QED BY <1>3, <1>4, <1>5 DEF OutboxStep, Outbox!outboxVars

LEMMA Quiet ==
  ASSUME ClientInv, OrderInv, disk'.outbox = disk.outbox, UNCHANGED <<rows, dropped>>,
         \A u \in Threads : InOrder(call[u])'
  PROVE  OrderInv' /\ OutboxStep
<1>1. OrderInv'
  BY DEF OrderInv
<1>2. OutboxStep
  BY OutboxIdles DEF ClientInv, CommunityInv, RowInv
<1> QED BY <1>1, <1>2

(* A step outside a flush that writes the file as it is, or not at all. *)
LEMMA QuietSave ==
  ASSUME Alone, ClientInv, OrderInv, NEW t \in Threads, ~Holding(call[t]),
         UNCHANGED <<box, heap, rows, dropped>>,
         UNCHANGED disk \/ Save,
         \A u \in Threads : ~Holding(call[u])' /\ (call[u].pc)' # "enqueue" /\
            ((call[u].pc)' = "post" => (call[u].rec)' \notin ToSet(disk.outbox) \cup dropped)
  PROVE  OrderInv' /\ OutboxStep
<1>1. disk.outbox = Value(box) /\ Value(box)' = Value(box)
  BY DEF ClientInv, OneHandler, OwnList, Value
<1>2. disk'.outbox = disk.outbox
  BY <1>1, SavedOutbox
<1>3. \A u \in Threads : InOrder(call[u])'
  BY <1>2 DEF InOrder
<1> QED BY <1>2, <1>3, Quiet

LEMMA TalkRefines ==
  ASSUME Alone, ClientInv, OrderInv, NEW t \in Threads,
         FindNoId(t) \/ GetState(t) \/ SetConsent(t) \/ Register(t)
  PROVE  OrderInv' /\ OutboxStep
<1>1. ~Holding(call[t])
  BY DEF FindNoId, GetState, SetConsent, Register, Idle, Holding
<1>2. UNCHANGED <<box, heap, rows, dropped>> /\ (UNCHANGED disk \/ Save)
  BY DEF FindNoId, GetState, SetConsent, Register, memVars, endpointVars
<1>3. \A u \in Threads : call'[u].pc \in {"idle", "register", "flush"} \cup Making
  <2>0. CASE FindNoId(t)
    <3>1. PICK pc \in Making : GoTo(t, pc)
      BY <2>0 DEF FindNoId, Making
    <3> QED BY <3>1, Moved DEF Places, Making, ClientInv, CommunityInv
  <2>1. CASE GetState(t)
    BY <2>1, CameBack DEF GetState, Idle, ClientInv, CommunityInv
  <2>2. CASE SetConsent(t)
    <3>1. PICK pc \in {"register", "idle"} : GoTo(t, pc)
      BY <2>2 DEF SetConsent
    <3> QED BY <3>1, Moved DEF Places, Making, ClientInv, CommunityInv
  <2>3. CASE Register(t)
    <3>1. GoTo(t, "flush") \/ Return(t)
      BY <2>3 DEF Register
    <3> QED BY <3>1, Moved, CameBack DEF Places, Making, Idle, ClientInv, CommunityInv
  <2> QED BY <2>0, <2>1, <2>2, <2>3
<1>4. \A u \in Threads : ~Holding(call[u])' /\ (call[u].pc)' # "enqueue" /\ (call[u].pc)' # "post"
  BY <1>3 DEF Holding, Making
<1> QED BY <1>1, <1>2, <1>4, QuietSave

LEMMA ContributeRefines ==
  ASSUME Alone, ClientInv, OrderInv, NEW t \in Threads, Contribute(t)
  PROVE  OrderInv' /\ OutboxStep
<1>1. PICK r \in Readings \ asked : call' = [call EXCEPT ![t].pc = "post", ![t].rec = r]
  BY DEF Contribute
<1>2. call'[t].pc = "post" /\ call'[t].rec = r
  BY <1>1 DEF ClientInv, CommunityInv, CallInv, Calls
<1>3. r \notin ToSet(disk.outbox) \cup dropped
  BY <1>1, ElementOfSeq DEF ClientInv, CommunityInv, ListInv, ToSet, Books, FatesTyped
<1>4. \A u \in Threads : call'[u].pc = "post" /\ call'[u].rec = r
  BY <1>2, OnlyThread
<1>5. ~Holding(call[t]) /\ (Save \/ UNCHANGED disk) /\ UNCHANGED <<box, heap, rows, dropped>>
  BY DEF Contribute, Idle, Holding, endpointVars
<1>6. \A u \in Threads : ~Holding(call[u])' /\ (call[u].pc)' # "enqueue" /\
         ((call[u].pc)' = "post" => (call[u].rec)' \notin ToSet(disk.outbox) \cup dropped)
  BY <1>3, <1>4 DEF Holding
<1> QED BY <1>5, <1>6, QuietSave

(* What a post changes: the row of its reading, if anything. *)
LEMMA PostTouches ==
  ASSUME ClientInv, NEW r \in asked, NEW reached \in BOOLEAN,
         PostContribution(r, reached)
  PROVE  /\ rows' \in [Readings -> Nat]
         /\ \A x \in Readings \ {r} : rows'[x] = rows[x]
         /\ rows'[r] > 0 \/ rows'[r] = rows[r]
         /\ rows[r] > 0 => rows'[r] > 0
<1>1. r \in Readings /\ rows \in [Readings -> Nat] /\ MaxCopies \in Nat \ {0}
  BY CommunityAssumption DEF ClientInv, CommunityInv, RowInv
<1>2. CASE reached /\ Accepted(r)
  <2>1. rows' = [rows EXCEPT ![r] = IF @ < MaxCopies THEN @ + 1 ELSE @]
    BY <1>2 DEF PostContribution, AddContribution
  <2>2. /\ (IF rows[r] < MaxCopies THEN rows[r] + 1 ELSE rows[r]) \in Nat
        /\ (IF rows[r] < MaxCopies THEN rows[r] + 1 ELSE rows[r]) > 0
    BY <1>1
  <2> QED BY <1>1, <2>1, <2>2
<1>3. CASE ~(reached /\ Accepted(r))
  <2>1. UNCHANGED rows
    BY <1>3 DEF PostContribution, AddContribution, endpointVars
  <2> QED BY <1>1, <2>1
<1> QED BY <1>2, <1>3

LEMMA PostReadingRefines ==
  ASSUME Alone, ClientInv, OrderInv, NEW t \in Threads, PostReading(t)
  PROVE  OrderInv' /\ OutboxStep
<1>0. PICK r : r = call[t].rec
  OBVIOUS
<1>1. PICK reached \in BOOLEAN : PostContribution(r, reached)
  BY <1>0 DEF PostReading, PostContribution, AddContribution, Accepted
<1>2. r \in asked /\ asked \subseteq Readings /\ r \notin ToSet(disk.outbox) /\ r \notin dropped
  BY <1>0 DEF PostReading, ClientInv, CommunityInv, CallInv, RowInv, OrderInv, InOrder
<1>3. PICK pc \in {"flush", "enqueue"} : GoTo(t, pc)
  BY DEF PostReading
<1>4. \A u \in Threads : call'[u].pc = pc /\ call'[u].rec = r
  BY <1>0, <1>3, Moved DEF Places, Making, ClientInv, CommunityInv
<1>5. UNCHANGED <<disk, dropped>>
  BY DEF PostReading
<1>6. OrderInv'
  BY <1>2, <1>4, <1>5 DEF OrderInv, InOrder, Holding
<1>7. /\ rows' \in [Readings -> Nat]
      /\ \A x \in Readings \ {r} : rows'[x] = rows[x]
      /\ rows'[r] > 0 \/ rows'[r] = rows[r]
      /\ rows[r] > 0 => rows'[r] > 0
  BY <1>1, <1>2, PostTouches
<1>8. OutboxStep
  <2>1. CASE rows'[r] = rows[r]
    <3>1. \A x \in Readings : rows'[x] > 0 <=> rows[x] > 0
      BY <1>7, <2>1
    <3> QED BY <3>1, <1>5, <1>7, OutboxIdles
  <2>2. CASE rows'[r] > 0
    <3>1. ToSet(disk.outbox) \subseteq Readings \ {r}
      BY <1>2, ElementOfSeq DEF ClientInv, CommunityInv, ListInv, ToSet
    <3>2. Undelivered(disk.outbox)' = Undelivered(disk.outbox)
      BY <1>5, <1>7, <3>1 DEF Undelivered
    <3>3. Older(disk.outbox)' = Older(disk.outbox)
      <4>1. Older(disk.outbox)' = {p \in Undelivered(disk.outbox)' \X Undelivered(disk.outbox)' :
               \E i, j \in DOMAIN disk'.outbox :
                  i < j /\ disk'.outbox[i] = p[1] /\ disk'.outbox[j] = p[2]}
        BY DEF Older, Ahead
      <4> QED BY <1>5, <3>2, <4>1 DEF Older, Ahead
    <3>4. {x \in Readings : rows[x] > 0}' = {x \in Readings : rows[x] > 0} \cup {r}
      BY <1>2, <1>7, <2>2
    <3>5. {x \in dropped : rows[x] = 0}' = {x \in dropped : rows[x] = 0}
      BY <1>2, <1>5, <1>7 DEF ClientInv, Books, FatesTyped
    <3>6. r \notin Undelivered(disk.outbox)
      BY <1>2 DEF Undelivered
    <3>7. Outbox!SendDirectly(r)
      BY <3>2, <3>3, <3>4, <3>5, <3>6 DEF Outbox!SendDirectly
    <3> QED BY <1>2, <3>7 DEF OutboxStep, Outbox!Next
  <2> QED BY <1>7, <2>1, <2>2
<1> QED BY <1>6, <1>8

LEMMA BeginFlushRefines ==
  ASSUME Alone, ClientInv, OrderInv, NEW t \in Threads, BeginFlush(t)
  PROVE  OrderInv' /\ OutboxStep
<1> DEFINE id == IF Value(box) = <<>> THEN FreshList ELSE box
<1>1. /\ call' = [call EXCEPT ![t].pc = "flushing", ![t].list = id]
      /\ heap' = [heap EXCEPT ![id] = Value(box)]
      /\ UNCHANGED <<disk, rows, dropped>>
  BY DEF BeginFlush, endpointVars
<1>2. ~Holding(call[t]) /\ disk.outbox = Value(box)
  BY DEF BeginFlush, Holding, ClientInv, OneHandler, OwnList
<1>3. id \in ListIds
  BY <1>2, FreshIsThere DEF ClientInv, CommunityInv, ListInv, Value
<1> HIDE DEF id
<1>4. call'[t].pc = "flushing" /\ call'[t].list = id
  BY <1>1 DEF ClientInv, CommunityInv, CallInv, Calls
<1>5. heap'[id] = disk.outbox
  BY <1>1, <1>2, <1>3 DEF ClientInv, CommunityInv, ListInv
<1>6. LeftOf(heap[call[t].list], disk.outbox)'
  <2>1. Len(disk.outbox) \in Nat
    BY LenProperties DEF ClientInv, CommunityInv, ListInv
  <2>2. heap'[call'[t].list] = disk'.outbox /\ disk'.outbox = disk.outbox
    BY <1>1, <1>4, <1>5
  <2> QED BY <2>1, <2>2 DEF LeftOf
<1>7. InOrder(call[t])'
  BY <1>4, <1>6 DEF InOrder
<1>8. \A u \in Threads : InOrder(call[u])'
  BY <1>7, OnlyThread
<1> QED BY <1>1, <1>8, Quiet

LEMMA PopOldestRefines ==
  ASSUME Alone, ClientInv, OrderInv, NEW t \in Threads, PopOldest(t)
  PROVE  OrderInv' /\ OutboxStep
<1> DEFINE id == call[t].list
           queue == heap[id]
           saved == disk.outbox
<1>1. /\ Holding(call[t]) /\ id \in ListIds /\ heap \in [ListIds -> Seq(asked)]
      /\ queue # <<>> /\ Stored(Head(queue)) /\ LeftOf(queue, saved)
      /\ saved \in Seq(asked)
  BY DEF PopOldest, Holding, ClientInv, CommunityInv, CallInv, ListInv,
         OneHandler, OwnList, OrderInv, InOrder
<1>2. /\ heap' = [heap EXCEPT ![id] = Tail(queue)] /\ GoTo(t, "flushing")
      /\ UNCHANGED <<disk, rows, dropped>>
  BY <1>1 DEF PopOldest, endpointVars
<1>3. call'[t].pc = "flushing" /\ call'[t].list = id
  BY <1>2, Moved DEF Places, Making, ClientInv, CommunityInv
<1> HIDE DEF id
<1>4. heap'[id] = Tail(queue) /\ queue \in Seq(asked)
  BY <1>1, <1>2
<1> HIDE DEF queue, saved
<1>5. /\ Len(queue) \in Nat \ {0} /\ Len(Tail(queue)) = Len(queue) - 1
      /\ \A i \in 1 .. Len(Tail(queue)) : Tail(queue)[i] = queue[i + 1]
      /\ Head(queue) = queue[1] /\ Len(saved) \in Nat
  BY <1>1, <1>4, HeadTailProperties, LenProperties, EmptySeq
<1>6. LeftOf(Tail(queue), saved)
  <2> DEFINE gone == Len(saved) - Len(queue)
  <2>1. /\ gone \in Nat /\ \A i \in 1 .. Len(queue) : queue[i] = saved[i + gone]
        /\ \A i \in 1 .. gone : Stored(saved[i])
    BY <1>1, <1>5 DEF LeftOf
  <2>2. Len(saved) - Len(Tail(queue)) = gone + 1 /\ Len(Tail(queue)) <= Len(saved)
    BY <1>5, <2>1
  <2> HIDE DEF gone
  <2>3. ASSUME NEW i \in 1 .. Len(Tail(queue)) PROVE Tail(queue)[i] = saved[i + (gone + 1)]
    <3>1. i + 1 \in 1 .. Len(queue) /\ (i + 1) + gone = i + (gone + 1)
      BY <1>5, <2>1
    <3> QED BY <1>5, <2>1, <3>1
  <2>4. ASSUME NEW i \in 1 .. gone + 1 PROVE Stored(saved[i])
    <3>1. CASE i \in 1 .. gone
      BY <2>1, <3>1
    <3>2. CASE i = 1 + gone
      <4>1. 1 \in 1 .. Len(queue)
        BY <1>5
      <4> QED BY <1>1, <1>5, <2>1, <3>2, <4>1
    <3> QED BY <2>1, <3>1, <3>2
  <2> QED BY <2>2, <2>3, <2>4 DEF LeftOf
<1>7. LeftOf(heap[call[t].list], disk.outbox)'
  <2>1. heap'[call'[t].list] = Tail(queue) /\ disk'.outbox = saved
    BY <1>2, <1>3, <1>4 DEF saved
  <2> QED BY <1>2, <1>6, <2>1 DEF LeftOf, Stored
<1>8. InOrder(call[t])'
  BY <1>3, <1>7 DEF InOrder
<1>9. \A u \in Threads : InOrder(call[u])'
  BY <1>8, OnlyThread
<1> QED BY <1>2, <1>9, Quiet

(***************************************************************************)
(* Two queues whose undelivered readings are the same, in the same order:  *)
(* one is the other without some of its oldest, all of them delivered.     *)
(***************************************************************************)
LEMMA LeftOfSame ==
  ASSUME NEW queue \in Seq(asked), NEW saved \in Seq(asked),
         LeftOf(queue, saved), Distinct(saved), rows \in [Readings -> Nat],
         asked \subseteq Readings
  PROVE  /\ ToSet(queue) \subseteq ToSet(saved) /\ Distinct(queue)
         /\ Undelivered(queue) = Undelivered(saved)
         /\ Older(queue) = Older(saved)
<1> DEFINE gone == Len(saved) - Len(queue)
<1>1. /\ gone \in Nat /\ Len(queue) \in Nat /\ Len(saved) = Len(queue) + gone
      /\ DOMAIN queue = 1 .. Len(queue) /\ DOMAIN saved = 1 .. Len(saved)
      /\ \A i \in 1 .. Len(queue) : queue[i] = saved[i + gone]
      /\ \A i \in 1 .. gone : Stored(saved[i])
  BY LenProperties DEF LeftOf
<1> HIDE DEF gone
<1>2. \A i \in DOMAIN queue : i + gone \in DOMAIN saved
  BY <1>1
<1>3. ToSet(queue) \subseteq ToSet(saved)
  BY <1>1, <1>2 DEF ToSet
<1>4. Distinct(queue)
  <2>1. SUFFICES ASSUME NEW i \in DOMAIN queue, NEW j \in DOMAIN queue, queue[i] = queue[j]
                 PROVE  i = j
    BY DEF Distinct
  <2>2. i + gone = j + gone
    BY <1>1, <1>2, <2>1 DEF Distinct
  <2> QED BY <1>1, <2>2
<1>5. ASSUME NEW k \in DOMAIN saved, rows[saved[k]] = 0
      PROVE  k - gone \in DOMAIN queue /\ queue[k - gone] = saved[k]
  <2>1. k \notin 1 .. gone
    BY <1>1, <1>5 DEF Stored
  <2>2. k - gone \in 1 .. Len(queue) /\ (k - gone) + gone = k
    BY <1>1, <2>1
  <2> QED BY <1>1, <2>2
<1>6. Undelivered(queue) = Undelivered(saved)
  BY <1>3, <1>5 DEF Undelivered, ToSet
<1>7. ASSUME NEW p \in Undelivered(saved) \X Undelivered(saved)
      PROVE  (\E i, j \in DOMAIN queue : i < j /\ queue[i] = p[1] /\ queue[j] = p[2])
               <=> (\E i, j \in DOMAIN saved : i < j /\ saved[i] = p[1] /\ saved[j] = p[2])
  <2>1. rows[p[1]] = 0 /\ rows[p[2]] = 0
    BY DEF Undelivered
  <2>2. ASSUME NEW i \in DOMAIN queue, NEW j \in DOMAIN queue,
               i < j, queue[i] = p[1], queue[j] = p[2]
        PROVE  \E k, l \in DOMAIN saved : k < l /\ saved[k] = p[1] /\ saved[l] = p[2]
    <3>1. i + gone < j + gone
      BY <1>1, <2>2
    <3> QED BY <1>1, <1>2, <2>2, <3>1
  <2>3. ASSUME NEW i \in DOMAIN saved, NEW j \in DOMAIN saved,
               i < j, saved[i] = p[1], saved[j] = p[2]
        PROVE  \E k, l \in DOMAIN queue : k < l /\ queue[k] = p[1] /\ queue[l] = p[2]
    <3>1. i - gone < j - gone
      BY <1>1, <2>3
    <3>2. /\ i - gone \in DOMAIN queue /\ queue[i - gone] = p[1]
          /\ j - gone \in DOMAIN queue /\ queue[j - gone] = p[2]
      BY <1>5, <2>1, <2>3
    <3> QED BY <3>1, <3>2
  <2> QED BY <2>2, <2>3
<1>8. Older(queue) = Older(saved)
  BY <1>6, <1>7 DEF Older, Ahead
<1> QED BY <1>3, <1>4, <1>6, <1>8

LEMMA EndFlushRefines ==
  ASSUME Alone, ClientInv, OrderInv, NEW t \in Threads, EndFlush(t)
  PROVE  OrderInv' /\ OutboxStep
<1> DEFINE queue == heap[call[t].list]
           saved == disk.outbox
<1>1. /\ Holding(call[t]) /\ call[t].list \in ListIds \ {0}
      /\ queue \in Seq(asked) /\ saved \in Seq(asked) /\ LeftOf(queue, saved)
  BY ThreadsAreCounted DEF EndFlush, Holding, ClientInv, CommunityInv, CallInv, ListInv,
     OrderInv, InOrder
<1>2. box' = call[t].list /\ UNCHANGED <<heap, rows, dropped>>
  BY DEF EndFlush, endpointVars
<1>3. disk'.outbox = queue
  BY <1>1, <1>2, SavedOutbox DEF EndFlush, Value
<1> HIDE DEF queue
<1>4. /\ ToSet(queue) \subseteq ToSet(saved) /\ Distinct(queue)
      /\ Undelivered(queue) = Undelivered(saved) /\ Older(queue) = Older(saved)
  BY <1>1, LeftOfSame DEF ClientInv, CommunityInv, RowInv, OrderInv
<1>5. \A u \in Threads : InOrder(call[u])'
  BY CameBack DEF EndFlush, InOrder, Holding, Idle, ClientInv, CommunityInv
<1>6. OrderInv'
  BY <1>2, <1>3, <1>4, <1>5 DEF OrderInv, Distinct
<1>7. Undelivered(disk.outbox)' = Undelivered(saved) /\ Older(disk.outbox)' = Older(saved)
  <2>1. Undelivered(disk.outbox)' = Undelivered(queue)
    BY <1>2, <1>3 DEF Undelivered
  <2>2. Older(disk.outbox)' = Older(queue)
    BY <1>2, <1>3 DEF Older, Ahead, Undelivered
  <2> QED BY <1>4, <2>1, <2>2
<1>8. OutboxStep
  BY <1>2, <1>7 DEF OutboxStep, Outbox!outboxVars
<1> QED BY <1>6, <1>8

(* The oldest reading leaves: the one at the head, if it was undelivered. *)
LEMMA HeadIsOldest ==
  ASSUME ClientInv, OrderInv, NEW t \in Threads, Holding(call[t]),
         heap[call[t].list] # <<>>,
         NEW r, r = Head(heap[call[t].list]), rows[r] = 0
  PROVE  Outbox!Oldest(r) /\ r \in ToSet(disk.outbox)
<1> DEFINE queue == heap[call[t].list]
           saved == disk.outbox
           gone == Len(saved) - Len(queue)
<1>1. queue \in Seq(asked) /\ saved \in Seq(asked) /\ LeftOf(queue, saved)
  BY DEF ClientInv, CommunityInv, CallInv, ListInv, OrderInv, InOrder
<1>2. /\ Len(queue) \in Nat \ {0} /\ r = queue[1]
      /\ Len(saved) \in Nat /\ DOMAIN saved = 1 .. Len(saved)
  BY <1>1, HeadTailProperties, LenProperties, EmptySeq
<1>3. /\ Len(queue) <= Len(saved)
      /\ \A i \in 1 .. Len(queue) : queue[i] = saved[i + gone]
      /\ \A i \in 1 .. gone : Stored(saved[i])
  BY <1>1 DEF LeftOf
<1>4. gone \in Nat /\ Len(saved) = Len(queue) + gone
  BY <1>2, <1>3
<1> HIDE DEF gone, queue
<1>5. 1 + gone \in DOMAIN saved /\ r = saved[1 + gone]
  <2>1. 1 \in 1 .. Len(queue) /\ 1 + gone \in 1 .. Len(saved)
    BY <1>2, <1>4
  <2> QED BY <1>2, <1>3, <2>1
<1>6. r \in Undelivered(saved) /\ r \in ToSet(saved)
  BY <1>5 DEF Undelivered, ToSet
<1>7. ASSUME NEW x \in Undelivered(saved), <<x, r>> \in Older(saved) PROVE FALSE
  <2>1. PICK i \in DOMAIN saved, j \in DOMAIN saved :
           i < j /\ saved[i] = x /\ saved[j] = r
    BY <1>7 DEF Older, Ahead
  <2>2. j = 1 + gone
    BY <1>5, <2>1 DEF OrderInv, Distinct
  <2>3. i \in 1 .. gone
    BY <1>2, <1>4, <2>1, <2>2
  <2>4. Stored(saved[i]) /\ rows[saved[i]] = 0
    <3>1. rows[x] = 0
      BY <1>7 DEF Undelivered
    <3>2. Stored(saved[i])
      BY <1>3, <2>3
    <3> QED BY <2>1, <3>1, <3>2
  <2>5. \A z \in asked : rows[z] \in Nat
    BY DEF ClientInv, CommunityInv, RowInv
  <2>6. saved[i] \in asked
    BY <1>1, <2>1, ElementOfSeq, LenProperties
  <2> QED BY <2>4, <2>5, <2>6 DEF Stored
<1> QED BY <1>6, <1>7 DEF Outbox!Oldest

LEMMA PostOldestRefines ==
  ASSUME Alone, ClientInv, OrderInv, NEW t \in Threads, PostOldest(t)
  PROVE  OrderInv' /\ OutboxStep
<1> DEFINE queue == heap[call[t].list]
<1>0. PICK r : r = Head(queue)
  OBVIOUS
<1>1. PICK reached \in BOOLEAN, pc \in {"pop", "flushed"} :
        PostContribution(r, reached) /\ GoTo(t, pc)
  BY <1>0 DEF PostOldest, PostContribution, AddContribution, Accepted
<1>2. queue \in Seq(asked) /\ queue # <<>> /\ Holding(call[t])
  BY DEF PostOldest, ClientInv, CommunityInv, CallInv, ListInv, Holding
<1>3. r \in asked /\ asked \subseteq Readings
  BY <1>0, <1>2, HeadTailProperties DEF ClientInv, CommunityInv, RowInv
<1>4. UNCHANGED <<disk, dropped, heap>>
  BY DEF PostOldest, memVars
<1>5. call'[t].pc = pc /\ call'[t].list = call[t].list
  BY <1>1, Moved DEF Places, Making, ClientInv, CommunityInv
<1>6. /\ rows' \in [Readings -> Nat]
      /\ \A x \in Readings \ {r} : rows'[x] = rows[x]
      /\ rows'[r] > 0 \/ rows'[r] = rows[r]
      /\ rows[r] > 0 => rows'[r] > 0
  BY <1>1, <1>3, PostTouches
<1>7. OrderInv'
  <2>1. LeftOf(queue, disk.outbox)
    BY <1>2 DEF OrderInv, InOrder
  <2>2. \A x \in asked : Stored(x) => Stored(x)'
    BY <1>3, <1>6 DEF Stored
  <2>3. \A i \in 1 .. Len(disk.outbox) : disk.outbox[i] \in asked
    BY ElementOfSeq DEF ClientInv, CommunityInv, ListInv
  <2>4. Len(queue) \in Nat /\ Len(disk.outbox) \in Nat
    BY <1>2, LenProperties DEF ClientInv, CommunityInv, ListInv
  <2>5. heap'[call'[t].list] = queue
    BY <1>4, <1>5
  <2> HIDE DEF queue
  <2>6. \A i \in 1 .. Len(disk.outbox) - Len(queue) : Stored(disk.outbox[i])'
    BY <2>1, <2>2, <2>3, <2>4, <1>4 DEF LeftOf, Stored
  <2>7. LeftOf(heap[call[t].list], disk.outbox)'
    BY <2>1, <2>5, <2>6, <1>4 DEF LeftOf, Stored
  <2>8. InOrder(call[t])'
    BY <1>5, <2>7 DEF InOrder
  <2>9. \A u \in Threads : InOrder(call[u])'
    BY <2>8, OnlyThread
  <2> QED BY <1>4, <2>9 DEF OrderInv
<1>8. OutboxStep
  <2>1. CASE rows[r] > 0 \/ rows'[r] = rows[r]
    <3>1. \A x \in Readings : rows'[x] > 0 <=> rows[x] > 0
      BY <1>6, <2>1
    <3> QED BY <3>1, <1>4, <1>6, OutboxIdles
  <2>2. CASE rows[r] = 0 /\ rows'[r] > 0
    <3> DEFINE W == Undelivered(disk.outbox)
    <3>1. Outbox!Oldest(r) /\ r \in ToSet(disk.outbox)
      BY <1>0, <1>2, <2>2, HeadIsOldest
    <3>2. r \notin dropped
      BY <3>1 DEF OrderInv
    <3>3. ToSet(disk.outbox) \subseteq Readings
      BY <1>3, ElementOfSeq DEF ClientInv, CommunityInv, ListInv, ToSet
    <3>4. Undelivered(disk.outbox)' = W \ {r}
      BY <1>4, <1>6, <2>2, <3>3 DEF Undelivered
    <3>5. Older(disk.outbox)' = Older(disk.outbox) \cap ((W \ {r}) \X (W \ {r}))
      <4>1. Older(disk.outbox)' = {p \in Undelivered(disk.outbox)' \X Undelivered(disk.outbox)' :
               \E i, j \in DOMAIN disk'.outbox :
                  i < j /\ disk'.outbox[i] = p[1] /\ disk'.outbox[j] = p[2]}
        BY DEF Older, Ahead
      <4>2. Older(disk.outbox)' = {p \in (W \ {r}) \X (W \ {r}) :
               \E i, j \in DOMAIN disk.outbox :
                  i < j /\ disk.outbox[i] = p[1] /\ disk.outbox[j] = p[2]}
        BY <1>4, <3>4, <4>1
      <4> HIDE DEF W
      <4>3. Older(disk.outbox) = {p \in W \X W :
               \E i, j \in DOMAIN disk.outbox :
                  i < j /\ disk.outbox[i] = p[1] /\ disk.outbox[j] = p[2]}
        BY DEF Older, Ahead, W
      <4> QED BY <4>2, <4>3
    <3>6. {x \in Readings : rows[x] > 0}' = {x \in Readings : rows[x] > 0} \cup {r}
      BY <1>3, <1>6, <2>2
    <3>7. {x \in dropped : rows[x] = 0}' = {x \in dropped : rows[x] = 0}
      BY <1>3, <1>4, <1>6, <3>2 DEF ClientInv, Books, FatesTyped
    <3>8. Outbox!SendOldest(r)
      BY <3>1, <3>4, <3>5, <3>6, <3>7 DEF Outbox!SendOldest, Outbox!Leave
    <3> QED BY <1>3, <3>8 DEF OutboxStep, Outbox!Next
  <2>3. rows[r] \in Nat
    BY <1>3 DEF ClientInv, CommunityInv, RowInv
  <2> QED BY <1>6, <2>1, <2>2, <2>3
<1> QED BY <1>7, <1>8

-----------------------------------------------------------------------------
(***************************************************************************)
(* An enqueue in terms of the outbox: the reading joins behind all others, *)
(* and the head of a queue over the cap leaves.                            *)
(***************************************************************************)
JoinsBehind(queue, saved, r) ==
  /\ Distinct(queue)
  /\ rows[r] = 0 => /\ Undelivered(queue) = Undelivered(saved) \cup {r}
                    /\ Older(queue) = Older(saved) \cup (Undelivered(saved) \X {r})
  /\ rows[r] # 0 => /\ Undelivered(queue) = Undelivered(saved)
                    /\ Older(queue) = Older(saved)

WithoutHead(left, queue, h) ==
  /\ Distinct(left) /\ h \in ToSet(queue)
  /\ ToSet(left) = ToSet(queue) \ {h}
  /\ rows[h] > 0 => LeftOf(left, queue)
  /\ \A x : <<x, h>> \notin Older(queue)
  /\ Undelivered(left) = Undelivered(queue) \ {h}
  /\ Older(left) = Older(queue) \cap ((Undelivered(queue) \ {h})
                                       \X (Undelivered(queue) \ {h}))

LEMMA Joined ==
  ASSUME NEW saved \in Seq(asked), NEW r \in asked, Distinct(saved),
         r \notin ToSet(saved), NEW queue, queue = Append(saved, r)
  PROVE  JoinsBehind(queue, saved, r)
<1> DEFINE n == Len(saved)
<1>1. /\ n \in Nat /\ Len(queue) = n + 1
      /\ \A i \in 1 .. n : queue[i] = saved[i]
      /\ queue[n + 1] = r
      /\ DOMAIN saved = 1 .. n /\ DOMAIN queue = 1 .. n + 1
  BY AppendProperties, LenProperties
<1> HIDE DEF n
<1>2. \A i \in 1 .. n : saved[i] # r /\ saved[i] \in ToSet(saved)
  BY <1>1 DEF ToSet
<1>3. ToSet(queue) = ToSet(saved) \cup {r}
  BY Members
<1>4. Distinct(queue)
  <2>1. SUFFICES ASSUME NEW i \in 1 .. n + 1, NEW j \in 1 .. n + 1, queue[i] = queue[j]
                 PROVE  i = j
    BY <1>1 DEF Distinct
  <2>2. CASE i \in 1 .. n /\ j \in 1 .. n
    BY <1>1, <2>1, <2>2 DEF Distinct
  <2>3. CASE i = n + 1 \/ j = n + 1
    <3>1. i = n + 1 <=> queue[i] = r
      BY <1>1, <1>2
    <3>2. j = n + 1 <=> queue[j] = r
      BY <1>1, <1>2
    <3> QED BY <2>1, <2>3, <3>1, <3>2
  <2> QED BY <1>1, <2>2, <2>3
<1>5. ASSUME NEW a, NEW b
      PROVE  Ahead(queue, a, b)
               <=> Ahead(saved, a, b) \/ (a \in ToSet(saved) /\ b = r)
  <2>1. ASSUME NEW i \in 1 .. n + 1, NEW j \in 1 .. n + 1, i < j,
               queue[i] = a, queue[j] = b
        PROVE  Ahead(saved, a, b) \/ (a \in ToSet(saved) /\ b = r)
    <3>1. i \in 1 .. n /\ saved[i] = a
      BY <1>1, <2>1
    <3>2. CASE j \in 1 .. n
      BY <1>1, <2>1, <3>1, <3>2 DEF Ahead
    <3>3. CASE j = n + 1
      BY <1>1, <1>2, <2>1, <3>1, <3>3
    <3> QED BY <1>1, <3>2, <3>3
  <2>2. ASSUME NEW i \in 1 .. n, NEW j \in 1 .. n, i < j, saved[i] = a, saved[j] = b
        PROVE  Ahead(queue, a, b)
    <3>1. i \in 1 .. n + 1 /\ j \in 1 .. n + 1
      BY <1>1
    <3> QED BY <1>1, <2>2, <3>1 DEF Ahead
  <2>3. ASSUME a \in ToSet(saved), b = r
        PROVE  Ahead(queue, a, b)
    <3>1. PICK i \in 1 .. n : saved[i] = a
      BY <1>1, <2>3 DEF ToSet
    <3>2. i \in 1 .. n + 1 /\ n + 1 \in 1 .. n + 1 /\ i < n + 1
      BY <1>1
    <3> QED BY <1>1, <2>3, <3>1, <3>2 DEF Ahead
  <2> QED BY <1>1, <2>1, <2>2, <2>3 DEF Ahead
<1>6. CASE rows[r] = 0
  <2>1. Undelivered(queue) = Undelivered(saved) \cup {r}
    BY <1>3, <1>6 DEF Undelivered
  <2>2. \A b : ~Ahead(saved, r, b) /\ ~Ahead(saved, b, r)
    BY <1>1, <1>2 DEF Ahead
  <2>3. r \notin ToSet(saved) /\ Undelivered(saved) \subseteq ToSet(saved)
    BY DEF Undelivered
  <2>4. ASSUME NEW p
        PROVE  p \in Older(queue) <=> p \in Older(saved) \cup (Undelivered(saved) \X {r})
    <3>1. Ahead(queue, p[1], p[2])
            <=> Ahead(saved, p[1], p[2]) \/ (p[1] \in ToSet(saved) /\ p[2] = r)
      BY <1>5
    <3> QED BY <2>1, <2>2, <2>3, <3>1 DEF Older
  <2>5. Older(queue) = Older(saved) \cup (Undelivered(saved) \X {r})
    <3>1. \A p \in Older(saved) \cup (Undelivered(saved) \X {r}) : p \in Older(queue)
      BY <2>4
    <3>2. \A p \in Older(queue) : p \in Older(saved) \cup (Undelivered(saved) \X {r})
      BY <2>4
    <3> QED BY <3>1, <3>2
  <2> QED BY <1>4, <1>6, <2>1, <2>5 DEF JoinsBehind
<1>7. CASE rows[r] # 0
  <2>1. Undelivered(queue) = Undelivered(saved)
    BY <1>3, <1>7 DEF Undelivered
  <2>2. r \notin Undelivered(saved)
    BY <1>7 DEF Undelivered
  <2>3. ASSUME NEW p \in Undelivered(saved) \X Undelivered(saved)
        PROVE  Ahead(queue, p[1], p[2]) <=> Ahead(saved, p[1], p[2])
    BY <1>5, <2>2
  <2>4. Older(queue) = Older(saved)
    BY <2>1, <2>3 DEF Older
  <2> QED BY <1>4, <1>7, <2>1, <2>4 DEF JoinsBehind
<1> QED BY <1>6, <1>7

LEMMA Shifted ==
  ASSUME NEW queue \in Seq(asked), NEW left \in Seq(asked), Distinct(queue),
         Len(queue) = Len(left) + 1,
         \A i \in 1 .. Len(left) : left[i] = queue[i + 1]
  PROVE  WithoutHead(left, queue, queue[1])
<1> DEFINE n == Len(left)
           rest == Undelivered(queue) \ {queue[1]}
<1>1. /\ n \in Nat /\ Len(queue) = n + 1 /\ \A i \in 1 .. n : left[i] = queue[i + 1]
      /\ DOMAIN left = 1 .. n /\ DOMAIN queue = 1 .. n + 1
  BY LenProperties
<1>2. rows[queue[1]] > 0 => LeftOf(left, queue)
  <2>1. SUFFICES ASSUME rows[queue[1]] > 0 PROVE LeftOf(left, queue)
    OBVIOUS
  <2> DEFINE gone == Len(queue) - Len(left)
  <2>2. gone = 1 /\ Len(left) <= Len(queue)
    BY <1>1
  <2> HIDE DEF gone
  <2>3. \A i \in 1 .. gone : Stored(queue[i])
    BY <2>1, <2>2 DEF Stored
  <2> QED BY <1>1, <2>2, <2>3 DEF LeftOf, gone
<1> HIDE DEF n
<1>3. \A i \in 1 .. n : i + 1 \in 1 .. n + 1 /\ queue[i + 1] # queue[1]
  BY <1>1 DEF Distinct
<1>4. 1 \in DOMAIN queue
  BY <1>1
<1>5. ASSUME NEW i \in DOMAIN queue, i # 1
      PROVE  i - 1 \in DOMAIN left /\ left[i - 1] = queue[i]
  <2>1. i - 1 \in 1 .. n /\ (i - 1) + 1 = i
    BY <1>1, <1>5
  <2> QED BY <1>1, <2>1
<1>6. ToSet(left) = ToSet(queue) \ {queue[1]}
  <2>1. ASSUME NEW i \in 1 .. n PROVE left[i] \in ToSet(queue) \ {queue[1]}
    <3>1. i + 1 \in DOMAIN queue /\ left[i] = queue[i + 1] /\ queue[i + 1] # queue[1]
      BY <1>1, <1>3
    <3> QED BY <3>1 DEF ToSet
  <2>2. ASSUME NEW i \in DOMAIN queue, queue[i] # queue[1] PROVE queue[i] \in ToSet(left)
    <3>1. i - 1 \in DOMAIN left /\ left[i - 1] = queue[i]
      BY <1>5, <2>2
    <3> QED BY <3>1 DEF ToSet
  <2>3. ToSet(left) \subseteq ToSet(queue) \ {queue[1]}
    BY <1>1, <2>1 DEF ToSet
  <2>4. ToSet(queue) \ {queue[1]} \subseteq ToSet(left)
    BY <2>2 DEF ToSet
  <2> QED BY <2>3, <2>4
<1>7. queue[1] \in ToSet(queue)
  BY <1>4 DEF ToSet
<1>8. Distinct(left)
  <2>1. SUFFICES ASSUME NEW i \in 1 .. n, NEW j \in 1 .. n, left[i] = left[j] PROVE i = j
    BY <1>1 DEF Distinct
  <2>2. /\ i + 1 \in DOMAIN queue /\ j + 1 \in DOMAIN queue
        /\ queue[i + 1] = queue[j + 1]
    BY <1>1, <1>3, <2>1
  <2>3. i + 1 = j + 1
    BY <2>2 DEF Distinct
  <2> QED BY <1>1, <2>3
<1>9. ASSUME NEW x PROVE <<x, queue[1]>> \notin Older(queue)
  <2>1. SUFFICES ASSUME <<x, queue[1]>> \in Older(queue) PROVE FALSE
    OBVIOUS
  <2>2. PICK i \in DOMAIN queue, j \in DOMAIN queue : i < j /\ queue[j] = queue[1]
    BY <2>1 DEF Older, Ahead
  <2>3. j = 1
    BY <1>4, <2>2 DEF Distinct
  <2> QED BY <1>1, <2>2, <2>3
<1>10. Undelivered(left) = rest
  BY <1>6 DEF Undelivered
<1>11. ASSUME NEW p \in rest \X rest
       PROVE  (\E i, j \in DOMAIN left : i < j /\ left[i] = p[1] /\ left[j] = p[2])
               <=> (\E i, j \in DOMAIN queue : i < j /\ queue[i] = p[1] /\ queue[j] = p[2])
  <2>1. p[1] # queue[1] /\ p[2] # queue[1]
    OBVIOUS
  <2>2. ASSUME NEW i \in 1 .. n, NEW j \in 1 .. n, i < j, left[i] = p[1], left[j] = p[2]
        PROVE  \E k, l \in DOMAIN queue : k < l /\ queue[k] = p[1] /\ queue[l] = p[2]
    <3>1. i + 1 < j + 1
      BY <1>1, <2>2
    <3> QED BY <1>1, <1>3, <2>2, <3>1
  <2>3. ASSUME NEW i \in DOMAIN queue, NEW j \in DOMAIN queue,
               i < j, queue[i] = p[1], queue[j] = p[2]
        PROVE  \E k, l \in DOMAIN left : k < l /\ left[k] = p[1] /\ left[l] = p[2]
    <3>1. /\ i - 1 \in DOMAIN left /\ left[i - 1] = p[1]
          /\ j - 1 \in DOMAIN left /\ left[j - 1] = p[2]
      BY <1>5, <2>1, <2>3
    <3>2. i - 1 < j - 1
      BY <1>1, <2>3
    <3> QED BY <3>1, <3>2
  <2> QED BY <1>1, <2>2, <2>3
<1>12. Older(left) = Older(queue) \cap (rest \X rest)
  <2> HIDE DEF rest
  <2>1. Older(left) = {p \in rest \X rest :
           \E i, j \in DOMAIN left : i < j /\ left[i] = p[1] /\ left[j] = p[2]}
    BY <1>10 DEF Older, Ahead
  <2>2. rest \subseteq Undelivered(queue)
    BY DEF rest
  <2>3. Older(queue) = {p \in Undelivered(queue) \X Undelivered(queue) :
           \E i, j \in DOMAIN queue : i < j /\ queue[i] = p[1] /\ queue[j] = p[2]}
    BY DEF Older, Ahead
  <2> QED BY <1>11, <2>1, <2>2, <2>3
<1> QED BY <1>2, <1>6, <1>7, <1>8, <1>9, <1>10, <1>12 DEF WithoutHead

LEMMA SameCardinality ==
  \A S : Outbox!Cardinality(S) = Cardinality(S)
  BY DEF Cardinality, Outbox!Cardinality, IsFiniteSet, Outbox!IsFiniteSet

LEMMA FewWaiting ==
  ASSUME NEW queue \in Seq(asked)
  PROVE  /\ IsFiniteSet(Undelivered(queue))
         /\ Cardinality(Undelivered(queue)) <= Len(queue)
<1> DEFINE S == 1 .. Len(queue)
           at == [i \in S |-> queue[i]]
<1>1. Len(queue) \in Nat /\ DOMAIN queue = S
  BY LenProperties
<1>2. IsFiniteSet(S) /\ Cardinality(S) = Len(queue)
  BY <1>1, FS_Interval
<1>3. at \in Surjection(S, ToSet(queue))
  BY <1>1 DEF Surjection, ToSet
<1> HIDE DEF at, S
<1>4. IsFiniteSet(ToSet(queue)) /\ Cardinality(ToSet(queue)) <= Len(queue)
  BY <1>2, <1>3, FS_Surjection
<1>5. Undelivered(queue) \subseteq ToSet(queue)
  BY DEF Undelivered
<1>6. /\ IsFiniteSet(Undelivered(queue))
      /\ Cardinality(Undelivered(queue)) <= Cardinality(ToSet(queue))
  BY <1>4, <1>5, FS_Subset
<1> QED BY <1>1, <1>4, <1>6, FS_CardinalityType

LEMMA NewestShifts ==
  ASSUME NEW queue \in Seq(asked), Len(queue) = MaxOutbox + 1
  PROVE  /\ Newest(queue) \in Seq(asked) /\ Len(Newest(queue)) = MaxOutbox
         /\ \A i \in 1 .. Len(Newest(queue)) : Newest(queue)[i] = queue[i + 1]
<1> DEFINE n == Len(queue)
<1>1. n = MaxOutbox + 1 /\ MaxOutbox \in Nat \ {0} /\ n \in Nat
  BY CommunityAssumption
<1>2. n - MaxOutbox + 1 = 2
  BY <1>1
<1>3. Newest(queue) = SubSeq(queue, 2, n)
  BY <1>2 DEF Newest
<1>4. \A i \in 2 .. n : queue[i] \in asked
  BY ElementOfSeq
<1>5. Newest(queue) \in Seq(asked) /\ Len(Newest(queue)) = MaxOutbox
  BY <1>1, NewestTyped, NewestLength
<1> HIDE DEF n
<1>6. \A i \in 1 .. n - 2 + 1 : SubSeq(queue, 2, n)[i] = queue[2 + i - 1]
  BY <1>1, <1>4, SubSeqProperties
<1>7. ASSUME NEW i \in 1 .. MaxOutbox PROVE Newest(queue)[i] = queue[i + 1]
  <2>1. i \in 1 .. n - 2 + 1 /\ 2 + i - 1 = i + 1
    BY <1>1
  <2> QED BY <1>3, <1>6, <2>1
<1> QED BY <1>5, <1>7

LEMMA EnqueueRefines ==
  ASSUME Alone, ClientInv, OrderInv, NEW t \in Threads, Enqueue(t)
  PROVE  OrderInv' /\ OutboxStep
<1>1. PICK saved, r, queue :
         saved = disk.outbox /\ r = call[t].rec /\ queue = Append(saved, r)
  OBVIOUS
<1>2. /\ saved \in Seq(asked) /\ r \in asked /\ queue \in Seq(asked)
      /\ asked \subseteq Readings /\ rows \in [Readings -> Nat] /\ dropped \subseteq asked
      /\ Len(saved) <= MaxOutbox /\ Len(saved) \in Nat
  <2>1. saved \in Seq(asked) /\ r \in asked /\ queue \in Seq(asked)
    BY <1>1, EnqueueWrites
  <2>2. asked \subseteq Readings /\ rows \in [Readings -> Nat] /\ dropped \subseteq asked
    BY DEF ClientInv, CommunityInv, RowInv, Books, FatesTyped
  <2>3. Len(saved) <= MaxOutbox
    BY <1>1 DEF ClientInv, OneHandler
  <2> QED BY <2>1, <2>2, <2>3, LenProperties
<1>3. IF Len(queue) > MaxOutbox
      THEN /\ disk'.outbox = Newest(queue)
           /\ dropped' = dropped \cup (ToSet(queue) \ ToSet(Newest(queue)))
      ELSE disk'.outbox = queue /\ UNCHANGED dropped
  BY <1>1, EnqueueWrites
<1>4. UNCHANGED <<rows, asked>>
  BY DEF Enqueue, endpointVars
<1>5. /\ Distinct(saved) /\ r \notin ToSet(saved) /\ r \notin dropped
      /\ \A x \in ToSet(saved) : x \notin dropped
  BY <1>1 DEF OrderInv, InOrder, Enqueue
<1>6. ToSet(queue) = ToSet(saved) \cup {r} /\ Len(queue) = Len(saved) + 1
  BY <1>1, <1>2, Members
<1>7. /\ Distinct(queue)
      /\ rows[r] = 0 => /\ Undelivered(queue) = Undelivered(saved) \cup {r}
                        /\ Older(queue) = Older(saved) \cup (Undelivered(saved) \X {r})
      /\ rows[r] # 0 => /\ Undelivered(queue) = Undelivered(saved)
                        /\ Older(queue) = Older(saved)
  <2>1. /\ saved \in Seq(asked) /\ r \in asked /\ Distinct(saved)
        /\ r \notin ToSet(saved) /\ queue = Append(saved, r)
    BY <1>1, <1>2, <1>5
  <2>2. JoinsBehind(queue, saved, r)
    BY <2>1, Joined
  <2> QED BY <2>2 DEF JoinsBehind
<1>8. \A u \in Threads : InOrder(call[u])'
  BY CameBack DEF Enqueue, InOrder, Holding, Idle, ClientInv, CommunityInv
<1>9. \A q : disk'.outbox = q => /\ Undelivered(disk.outbox)' = Undelivered(q)
                                 /\ Older(disk.outbox)' = Older(q)
  BY <1>4 DEF Undelivered, Older, Ahead
<1>10. {x \in Readings : rows[x] > 0}' = {x \in Readings : rows[x] > 0}
  BY <1>4
<1>11. rows[r] = 0 => r \notin Undelivered(saved) /\ r \in Outbox!Unheard
  <2>1. SUFFICES ASSUME rows[r] = 0
                 PROVE  r \notin Undelivered(saved) /\ r \in Outbox!Unheard
    OBVIOUS
  <2>2. r \in Readings /\ r \notin Undelivered(saved)
    BY <1>2, <1>5 DEF Undelivered
  <2>3. r \notin {x \in Readings : rows[x] > 0} /\ r \notin {x \in dropped : rows[x] = 0}
    BY <1>5, <2>1
  <2>4. Outbox!Unheard = Readings \ (Undelivered(saved) \cup {x \in Readings : rows[x] > 0}
                                     \cup {x \in dropped : rows[x] = 0})
    BY <1>1 DEF Outbox!Unheard
  <2> QED BY <2>2, <2>3, <2>4
<1>12. CASE ~(Len(queue) > MaxOutbox)
  <2>1. disk'.outbox = queue /\ UNCHANGED dropped
    BY <1>3, <1>12
  <2>2. OrderInv'
    BY <1>5, <1>6, <1>7, <1>8, <2>1 DEF OrderInv, Distinct
  <2>3. CASE rows[r] = 0
    <3>1. Cardinality(Undelivered(saved)) < MaxOutbox
      <4>1. /\ IsFiniteSet(Undelivered(saved)) /\ Cardinality(Undelivered(saved)) <= Len(saved)
            /\ Cardinality(Undelivered(saved)) \in Nat
        BY <1>2, FewWaiting, FS_CardinalityType
      <4>2. Len(saved) < MaxOutbox
        BY <1>2, <1>6, <1>12, CommunityAssumption
      <4> QED BY <1>2, <4>1, <4>2, CommunityAssumption
    <3>2. /\ Undelivered(disk.outbox)' = Undelivered(disk.outbox) \cup {r}
          /\ Older(disk.outbox)' = Older(disk.outbox) \cup (Undelivered(disk.outbox) \X {r})
          /\ Cardinality(Undelivered(disk.outbox)) < MaxOutbox
      BY <1>1, <1>7, <1>9, <2>1, <2>3, <3>1
    <3>3. {x \in dropped : rows[x] = 0}' = {x \in dropped : rows[x] = 0}
      BY <1>4, <2>1
    <3>4. Outbox!Keep(r)
      BY <1>10, <1>11, <2>3, <3>2, <3>3, SameCardinality DEF Outbox!Keep
    <3> QED BY <1>2, <2>2, <3>4 DEF OutboxStep, Outbox!Next
  <2>4. CASE rows[r] # 0
    BY <1>1, <1>4, <1>7, <1>9, <1>10, <2>1, <2>2, <2>4 DEF OutboxStep, Outbox!outboxVars
  <2> QED BY <2>3, <2>4
<1>13. CASE Len(queue) > MaxOutbox
  <2>1. Len(queue) = MaxOutbox + 1
    BY <1>2, <1>6, <1>13, CommunityAssumption
  <2>2. PICK left, h : left = Newest(queue) /\ h = queue[1]
    OBVIOUS
  <2>3. /\ left \in Seq(asked) /\ Len(left) = MaxOutbox
        /\ \A i \in 1 .. Len(left) : left[i] = queue[i + 1]
    BY <1>2, <2>1, <2>2, NewestShifts
  <2> DEFINE rest == Undelivered(queue) \ {h}
  <2>4. /\ Distinct(left) /\ h \in ToSet(queue) /\ ToSet(left) = ToSet(queue) \ {h}
        /\ rows[h] > 0 => LeftOf(left, queue)
        /\ \A x : <<x, h>> \notin Older(queue)
        /\ Undelivered(left) = rest /\ Older(left) = Older(queue) \cap (rest \X rest)
    <3>1. WithoutHead(left, queue, h)
      BY <1>2, <1>7, <2>1, <2>2, <2>3, Shifted
    <3> QED BY <3>1 DEF WithoutHead
  <2>5. disk'.outbox = left /\ dropped' = dropped \cup {h}
    BY <1>3, <1>13, <2>2, <2>4
  <2>6. OrderInv'
    <3>1. \A x \in ToSet(left) : x \notin dropped'
      BY <1>5, <1>6, <2>4, <2>5
    <3> QED BY <1>8, <2>4, <2>5, <3>1 DEF OrderInv, Distinct
  <2>7. h \in ToSet(saved) /\ h # r /\ h \in asked
    <3>1. 1 \in 1 .. Len(saved)
      BY <1>2, <1>6, <2>1, CommunityAssumption
    <3>2. h = saved[1]
      BY <1>1, <1>2, <2>2, <3>1, AppendProperties
    <3>3. h \in ToSet(saved)
      BY <1>2, <3>1, <3>2, LenProperties DEF ToSet
    <3> QED BY <1>2, <1>5, <1>6, <2>4, <3>3, ElementOfSeq, LenProperties DEF ToSet
  <2>8. /\ Undelivered(disk.outbox)' = Undelivered(left)
        /\ Older(disk.outbox)' = Older(left)
    BY <1>9, <2>5
  <2>9. Undelivered(saved) \subseteq Undelivered(queue) /\ Older(saved) \subseteq Older(queue)
        /\ Older(saved) \subseteq Undelivered(saved) \X Undelivered(saved)
    BY <1>7 DEF Older
  <2>10. CASE rows[h] > 0
    <3>1. Undelivered(left) = Undelivered(queue) /\ Older(left) = Older(queue)
      BY <1>2, <1>7, <2>3, <2>4, <2>10, LeftOfSame
    <3>2. {x \in dropped : rows[x] = 0}' = {x \in dropped : rows[x] = 0}
      BY <1>4, <2>5, <2>10
    <3>3. CASE rows[r] = 0
      <4>1. Cardinality(Undelivered(saved)) < MaxOutbox
        <5>1. /\ IsFiniteSet(Undelivered(saved)) /\ IsFiniteSet(Undelivered(left))
              /\ Cardinality(Undelivered(left)) <= MaxOutbox
              /\ Cardinality(Undelivered(saved)) \in Nat
              /\ Cardinality(Undelivered(left)) \in Nat
          BY <1>2, <2>3, FewWaiting, FS_CardinalityType
        <5>2. Undelivered(left) = Undelivered(saved) \cup {r}
          BY <1>7, <3>1, <3>3
        <5>3. Cardinality(Undelivered(left)) = Cardinality(Undelivered(saved)) + 1
          BY <1>11, <3>3, <5>1, <5>2, FS_AddElement
        <5> QED BY <5>1, <5>3, CommunityAssumption
      <4>2. /\ Undelivered(disk.outbox)' = Undelivered(disk.outbox) \cup {r}
            /\ Older(disk.outbox)' = Older(disk.outbox) \cup (Undelivered(disk.outbox) \X {r})
            /\ Cardinality(Undelivered(disk.outbox)) < MaxOutbox
        BY <1>1, <1>7, <2>8, <3>1, <3>3, <4>1
      <4>3. Outbox!Keep(r)
        BY <1>10, <1>11, <3>2, <3>3, <4>2, SameCardinality DEF Outbox!Keep
      <4> QED BY <1>2, <2>6, <4>3 DEF OutboxStep, Outbox!Next
    <3>4. CASE rows[r] # 0
      BY <1>1, <1>7, <1>10, <2>6, <2>8, <3>1, <3>2, <3>4 DEF OutboxStep, Outbox!outboxVars
    <3> QED BY <3>3, <3>4
  <2>11. CASE rows[h] = 0
    <3>1. Outbox!Oldest(h)
      <4>1. h \in Undelivered(saved)
        BY <2>7, <2>11 DEF Undelivered
      <4> QED BY <1>1, <2>4, <2>9, <4>1 DEF Outbox!Oldest
    <3>2. {x \in dropped : rows[x] = 0}' = {x \in dropped : rows[x] = 0} \cup {h}
      BY <1>4, <2>5, <2>11
    <3>3. CASE rows[r] = 0
      <4> DEFINE kept == Undelivered(saved) \ {h}
      <4>1. rest = kept \cup {r}
        BY <1>7, <2>7, <3>3
      <4>2. Older(left) = (Older(saved) \cap (kept \X kept)) \cup (kept \X {r})
        <5>1. Older(left) = (Older(saved) \cup (Undelivered(saved) \X {r}))
                              \cap ((kept \cup {r}) \X (kept \cup {r}))
          BY <1>7, <2>4, <3>3, <4>1
        <5>2. r \notin Undelivered(saved) /\ h # r
          BY <1>11, <2>7, <3>3
        <5> QED BY <2>9, <5>1, <5>2
      <4>3. Outbox!GiveUpFor(h, r)
        BY <1>1, <1>10, <1>11, <2>4, <2>8, <3>1, <3>2, <3>3, <4>1, <4>2
           DEF Outbox!GiveUpFor
      <4> QED BY <1>2, <2>6, <2>7, <4>3 DEF OutboxStep, Outbox!Next
    <3>4. CASE rows[r] # 0
      <4>1. /\ Undelivered(disk.outbox)' = Undelivered(saved) \ {h}
            /\ Older(disk.outbox)' = Older(saved)
                  \cap ((Undelivered(saved) \ {h}) \X (Undelivered(saved) \ {h}))
        BY <1>7, <2>4, <2>8, <3>4
      <4>2. Outbox!GiveUpOldest(h)
        BY <1>1, <1>10, <3>1, <3>2, <4>1 DEF Outbox!GiveUpOldest, Outbox!Leave
      <4> QED BY <1>2, <2>6, <2>7, <4>2 DEF OutboxStep, Outbox!Next
    <3> QED BY <3>3, <3>4
  <2>12. rows[h] \in Nat
    BY <1>2, <2>7
  <2> QED BY <2>10, <2>11, <2>12
<1> QED BY <1>12, <1>13

LEMMA CrashRefines ==
  ASSUME Alone, ClientInv, OrderInv, Crash
  PROVE  OrderInv' /\ OutboxStep
<1>1. disk' = disk \/ disk' = BlankFile
  BY DEF Crash
<1>2. \A u \in Threads : InOrder(call[u])'
  BY DEF Crash, Idle, InOrder, Holding
<1>3. UNCHANGED rows
  BY DEF Crash, endpointVars
<1>4. CASE disk' = disk
  <2>1. UNCHANGED dropped
    BY <1>4 DEF Crash
  <2> QED BY <1>2, <1>3, <1>4, <2>1, Quiet
<1>5. CASE disk' # disk
  <2>1. disk'.outbox = <<>>
    BY <1>1, <1>5 DEF BlankFile
  <2>2. DOMAIN disk'.outbox = {} /\ ToSet(disk'.outbox) = {}
    BY <2>1, EmptySeq, LenProperties DEF ToSet
  <2>3. OrderInv'
    BY <1>2, <2>2 DEF OrderInv, Distinct
  <2>4. Undelivered(disk.outbox)' = {}
    BY <2>2 DEF Undelivered
  <2>5. Older(disk.outbox)' = {}
    BY <2>4 DEF Older
  <2>6. dropped' = dropped \cup Undelivered(disk.outbox)
    BY <1>5 DEF Crash, Undelivered
  <2>7. {x \in dropped : rows[x] = 0}' =
           {x \in dropped : rows[x] = 0} \cup Undelivered(disk.outbox)
    BY <1>3, <2>6 DEF Undelivered
  <2>8. {x \in Readings : rows[x] > 0}' = {x \in Readings : rows[x] > 0}
    BY <1>3
  <2>9. Outbox!LoseFile
    BY <2>4, <2>5, <2>7, <2>8 DEF Outbox!LoseFile
  <2> QED BY <2>3, <2>9 DEF OutboxStep, Outbox!Next
<1> QED BY <1>4, <1>5

LEMMA OutboxRefined ==
  ASSUME Alone, ClientInv, OrderInv, [Next]_vars
  PROVE  OrderInv' /\ OutboxStep
<1>1. CASE \E t \in Threads : Handler(t)
  <2>1. PICK t \in Threads : Handler(t)
    BY <1>1
  <2>2. CASE FindNoId(t) \/ GetState(t) \/ SetConsent(t) \/ Register(t) \/ Contribute(t)
    BY <2>2, TalkRefines, ContributeRefines
  <2>3. CASE PostReading(t) \/ Enqueue(t) \/ PostOldest(t)
    BY <2>3, PostReadingRefines, EnqueueRefines, PostOldestRefines
  <2>4. CASE BeginFlush(t) \/ PopOldest(t) \/ EndFlush(t)
    BY <2>4, BeginFlushRefines, PopOldestRefines, EndFlushRefines
  <2> QED BY <2>1, <2>2, <2>3, <2>4 DEF Handler
<1>2. CASE Crash
  BY <1>2, CrashRefines
<1>3. CASE UNCHANGED vars
  <2>1. UNCHANGED <<call, disk, heap, rows, dropped>>
    BY <1>3 DEF vars, memVars, endpointVars
  <2>2. \A u \in Threads : InOrder(call[u])'
    BY <2>1 DEF OrderInv, InOrder, Holding, LeftOf, Stored
  <2> QED BY <2>1, <2>2, Quiet
<1> QED BY <1>1, <1>2, <1>3 DEF Next

(***************************************************************************)
(* With one handler at a time the client, its file and the endpoint        *)
(* implement the bounded outbox: what waits is sent in order, an answer    *)
(* that was lost only sends again, a full outbox gives up its oldest       *)
(* undelivered reading or none, and only a torn file loses more.           *)
(***************************************************************************)
THEOREM ClientIsAnOutbox ==
  ASSUME Cardinality(Threads) = 1
  PROVE  Spec => ImplementsOutbox
<1>1. Alone
  BY DEF Alone
<1>2. Init => ClientInv /\ OrderInv /\ Outbox!Init
  BY ClientStart, OrderStart
<1>3. ClientInv /\ OrderInv /\ [Next]_vars =>
        ClientInv' /\ OrderInv' /\ [Outbox!Next]_(Outbox!outboxVars)
  BY <1>1, ClientStep, OutboxRefined DEF OutboxStep
<1> QED BY <1>2, <1>3, PTL DEF Spec, ImplementsOutbox, Outbox!Spec

=============================================================================
