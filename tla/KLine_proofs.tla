----------------------------- MODULE KLine_proofs -----------------------------
(***************************************************************************)
(* Requests over the wire, for every set of services, cables and inits,    *)
(* every number of retries, and buffers of every length.                   *)
(***************************************************************************)
EXTENDS KLine, SequenceTheorems, WellFoundedInduction, TLAPS

(***************************************************************************)
(* Every nonempty set of numbers has a least element; hence SelectInSeq    *)
(* finds the place of an element that passes the test, if there is one.    *)
(***************************************************************************)
LEMMA LeastNumber ==
  ASSUME NEW S \in SUBSET Nat, S # {}
  PROVE  \E n \in S : \A m \in S : n <= m
<1> DEFINE Less == {ss \in Nat \X Nat : ss[1] < ss[2]}
<1>1. IsWellFoundedOn(Less, Nat)
  BY NatLessThanWellFounded DEF OpToRel
<1>2. PICK n \in S : \A m \in S : ~ (<<m, n>> \in Less)
  BY <1>1, WFMin
<1>3. \A m \in S : ~ (m < n)
  BY <1>2
<1> QED
  BY <1>3

LEMMA MinIsMember ==
  ASSUME NEW S \in SUBSET Nat, S # {}
  PROVE  Min(S) \in S
  BY LeastNumber DEF Min

LEMMA FirstFrameIsRead ==
  ASSUME rx \in Seq(Frames), FrameReady
  PROVE  /\ FirstFrame \in DOMAIN rx
         /\ rx[FirstFrame] \in Frames
         /\ Consumed \in Seq(Frames)
         /\ \A k \in DOMAIN Consumed :
              \E j \in DOMAIN rx : j > 1 /\ Consumed[k] = rx[j]
<1> DEFINE I == {i \in 1 .. Len(rx) : Whole(rx[i])}
<1>1. DOMAIN rx = 1 .. Len(rx) /\ Len(rx) \in Nat
  BY LenProperties
<1>2. I \in SUBSET Nat /\ I # {}
  BY <1>1 DEF FrameReady
<1>3. FirstFrame = Min(I)
  BY <1>2 DEF FirstFrame, SelectInSeq
<1>4. FirstFrame \in 1 .. Len(rx)
  <2> HIDE DEF I
  <2>1. Min(I) \in I
    BY <1>2, MinIsMember
  <2> QED
    BY <1>3, <2>1 DEF I
<1> HIDE DEF I
<1>5. \A k \in FirstFrame + 1 .. Len(rx) : rx[k] \in Frames
  BY <1>1, <1>4, ElementOfSeq
<1>6. /\ Consumed \in Seq(Frames)
      /\ \A k \in 1 .. Len(Consumed) : Consumed[k] = rx[FirstFrame + 1 + k - 1]
      /\ Len(Consumed) = Len(rx) - FirstFrame
  <2> DEFINE m == FirstFrame + 1
             n == Len(rx)
  <2>1. m \in Int /\ n \in Int /\ m <= n + 1
    BY <1>1, <1>4
  <2>2. Consumed = SubSeq(rx, m, n) /\ \A i \in m .. n : rx[i] \in Frames
    BY <1>5 DEF Consumed
  <2> HIDE DEF m, n
  <2>3. /\ Consumed \in Seq(Frames)
        /\ Len(Consumed) = IF m <= n THEN n - m + 1 ELSE 0
        /\ \A k \in 1 .. n - m + 1 : Consumed[k] = rx[m + k - 1]
    BY <2>1, <2>2, SubSeqProperties
  <2>4. Len(Consumed) = n - m + 1
    BY <2>1, <2>3
  <2>5. n - m + 1 = Len(rx) - FirstFrame
    BY <1>1, <1>4 DEF m, n
  <2> QED
    BY <2>3, <2>4, <2>5 DEF m
<1>7. ASSUME NEW k \in DOMAIN Consumed
      PROVE  \E j \in DOMAIN rx : j > 1 /\ Consumed[k] = rx[j]
  <2>1. k \in 1 .. Len(Consumed)
    BY <1>6, LenProperties
  <2>2. /\ FirstFrame + k \in DOMAIN rx /\ FirstFrame + k > 1
        /\ FirstFrame + 1 + k - 1 = FirstFrame + k
    BY <1>1, <1>4, <1>6, <2>1
  <2> QED
    BY <1>6, <2>1, <2>2
<1> QED
  BY <1>1, <1>4, <1>6, <1>7, ElementOfSeq

LEMMA PositivePlace ==
  ASSUME rx \in Seq(Frames)
  PROVE  PositiveAt = 0 \/ PositiveAt \in DOMAIN rx
<1> DEFINE I == {i \in 1 .. Len(rx) : /\ Legible(rx[i]) /\ rx[i].sort = "answer"
                                      /\ rx[i].what = req.what}
           J == {i \in 1 .. Len(rx) : /\ Legible(rx[i]) /\ rx[i].sort = "answer"
                                      /\ SameService(rx[i].what, req.what)}
           first(S) == IF S # {} THEN Min(S) ELSE 0
<1>1. I \in SUBSET Nat /\ J \in SUBSET Nat /\ DOMAIN rx = 1 .. Len(rx)
  BY LenProperties
<1>2. PositiveAt = IF first(I) > 0 THEN first(I) ELSE first(J)
  BY DEF PositiveAt, At, SelectInSeq
<1>3. I # {} => Min(I) \in DOMAIN rx
  <2> HIDE DEF I
  <2>1. I # {} => Min(I) \in I
    BY <1>1, MinIsMember
  <2> QED
    BY <1>1, <2>1 DEF I
<1>4. J # {} => Min(J) \in DOMAIN rx
  <2> HIDE DEF J
  <2>1. J # {} => Min(J) \in J
    BY <1>1, MinIsMember
  <2> QED
    BY <1>1, <2>1 DEF J
<1> HIDE DEF I, J
<1> QED
  BY <1>2, <1>3, <1>4

LEMMA NegativePlace ==
  ASSUME rx \in Seq(Frames)
  PROVE  NegativeAt = 0 \/ NegativeAt \in DOMAIN rx
<1> DEFINE I == {i \in 1 .. Len(rx) : /\ Legible(rx[i])
                                      /\ rx[i].sort \in {"pending", "refusal"}
                                      /\ SameService(rx[i].what, req.what)}
<1>1. I \in SUBSET Nat /\ DOMAIN rx = 1 .. Len(rx)
  BY LenProperties
<1>2. NegativeAt = IF I # {} THEN Min(I) ELSE 0
  BY DEF NegativeAt, At, SelectInSeq
<1>3. I # {} => Min(I) \in DOMAIN rx
  <2> HIDE DEF I
  <2>1. I # {} => Min(I) \in I
    BY <1>1, MinIsMember
  <2> QED
    BY <1>1, <2>1 DEF I
<1> HIDE DEF I
<1> QED
  BY <1>2, <1>3

-----------------------------------------------------------------------------
(***************************************************************************)
(* While a request runs it has a number, and no result yet.                *)
(***************************************************************************)
Running == pc # "idle" => /\ req.no \in 1 .. MaxRequests
                          /\ req.what \in Asked
                          /\ result = NoResult

(***************************************************************************)
(* The node listens only for the command line it has sent.                 *)
(***************************************************************************)
NodeListens == /\ relay => asked # <<>> /\ Head(asked) # Ping
               /\ ~relay => uart = <<>>

(***************************************************************************)
(* A request that began when nothing was owed has the wire to itself: its  *)
(* own earlier attempts are all that can still be answered.                *)
(***************************************************************************)
Own(x) == x.no = req.no /\ x.what = req.what
Mine(s) == \A k \in DOMAIN s : Own(s[k])

OnlyMine ==
  req.clean /\ pc # "idle" =>
    /\ Mine(ecu)
    /\ \A k \in DOMAIN asked : asked[k] = Ping \/ Own(asked[k])
    /\ Mine(uart)
    /\ pc \notin {"pulse", "flush"} => Mine(rx)

LineInv == TypeOK /\ Running /\ NodeListens /\ OnlyMine /\ AnswerIsOwn

-----------------------------------------------------------------------------
LEMMA TailIsMine ==
  ASSUME NEW S, NEW s \in Seq(S), s # <<>>, Mine(s)
  PROVE  Mine(Tail(s))
  BY HeadTailProperties, LenProperties DEF Mine, Own

LEMMA AppendIsMine ==
  ASSUME NEW S, NEW s \in Seq(S), NEW e \in S, Mine(s), Own(e)
  PROVE  Mine(Append(s, e))
  BY AppendProperties, LenProperties DEF Mine, Own

LEMMA PingsAreTyped ==
  PingsOwed \subseteq Seq(Commands \union {Ping})
<1>1. BoundedSeq({Ping}, MaxPings) \subseteq Seq(Commands \union {Ping})
  BY KLineAssumption, SeqDef DEF BoundedSeq, SeqOf
<1>2. <<>> \in Seq(Commands \union {Ping})
  BY EmptySeq
<1> QED
  BY <1>1, <1>2 DEF PingsOwed

LEMMA LineStart == Init => LineInv
<1> SUFFICES ASSUME Init PROVE LineInv
  OBVIOUS
<1>1. asked \in Seq(Commands \union {Ping})
  BY PingsAreTyped DEF Init
<1>2. rx \in Seq(Frames) /\ uart \in Seq(Frames) /\ ecu \in Seq(Commands)
  BY EmptySeq DEF Init
<1>3. /\ req \in [no : 0 .. MaxRequests, what : Asked \union {"none"},
                  left : 0 .. Retries, pendings : 0 .. MaxPending, clean : BOOLEAN]
      /\ req.left = 0
  BY KLineAssumption DEF Init, NoRequest
<1>4. NoResult.frame \in Frames
  BY KLineAssumption DEF NoResult, Frame, Frames, Sorts, Damage
<1>5. TypeOK
  BY <1>1, <1>2, <1>3, <1>4 DEF Init, TypeOK, NoResult
<1> QED
  BY <1>5 DEF Init, LineInv, Running, NodeListens, OnlyMine, AnswerIsOwn,
              NoResult

-----------------------------------------------------------------------------
(***************************************************************************)
(* The steps of the tester, one lemma each.                                *)
(***************************************************************************)
LEMMA BeginStep ==
  ASSUME LineInv, Begin
  PROVE  LineInv'
<1>1. PICK what \in Asked, left \in {0, Retries} :
        /\ what \in Inits => left = 0
        /\ req' = [no |-> req.no + 1, what |-> what, left |-> left,
                   pendings |-> 0, clean |-> NothingOwed]
  BY DEF Begin
<1>2. req.no \in 0 .. MaxRequests /\ req.no < MaxRequests
  BY DEF LineInv, TypeOK, Begin
<1>3. /\ req'.no \in 1 .. MaxRequests /\ req'.what = what /\ req'.pendings = 0
      /\ req'.clean = NothingOwed
      /\ req' \in [no : 0 .. MaxRequests, what : Asked \union {"none"},
                   left : 0 .. Retries, pendings : 0 .. MaxPending, clean : BOOLEAN]
  BY <1>1, <1>2, KLineAssumption DEF NothingOwed
<1>4. pc' \in {"pulse", "flush"} /\ result' = NoResult
  BY DEF Begin, Starting
<1>5. /\ cable' = cable /\ tolerant' = tolerant /\ rx' = rx /\ ecu' = ecu
      /\ asked' = asked /\ relay' = relay /\ uart' = uart
  BY DEF Begin, bridgeVars
<1>6. NoResult.status = "none" /\ NoResult.frame \in Frames
  BY KLineAssumption DEF NoResult, Frame, Frames, Sorts, Damage
<1>7. TypeOK'
  <2>1. req'.what \in Inits => req'.left = 0
    BY <1>1
  <2>2. result' \in [status : {"none", "answered", "refused", "failed"}, frame : Frames]
    BY <1>4, <1>6 DEF NoResult
  <2> QED
    BY <1>3, <1>4, <1>5, <2>1, <2>2 DEF LineInv, TypeOK
<1>8. Running'
  BY <1>1, <1>3, <1>4 DEF Running, NoResult, Frame
<1>9. NodeListens'
  BY <1>5 DEF LineInv, NodeListens, Ping
<1>10. OnlyMine'
  <2> SUFFICES ASSUME NothingOwed PROVE OnlyMine'
    BY <1>3 DEF OnlyMine
  <2>1. ~ relay
    BY HeadTailProperties, EmptySeq, LenProperties
       DEF LineInv, NodeListens, NothingOwed, TypeOK
  <2> QED
    BY <1>4, <1>5, <2>1 DEF OnlyMine, Mine, Own, NothingOwed, LineInv, NodeListens, Ping
<1>11. AnswerIsOwn'
  BY <1>3, <1>4, <1>6 DEF AnswerIsOwn
<1> QED
  BY <1>7, <1>8, <1>9, <1>10, <1>11 DEF LineInv

LEMMA PulseStep ==
  ASSUME LineInv, Pulse
  PROVE  LineInv'
<1>1. rx' \in Seq(Frames)
  <2>1. Glitch \in Frames
    BY KLineAssumption DEF Glitch, Frame, Frames, Sorts, Damage
  <2>2. <<Glitch>> \in Seq(Frames) /\ <<>> \in Seq(Frames)
    BY <2>1
  <2> QED
    BY <2>2 DEF Pulse, FastInitLow
<1> QED
  BY <1>1 DEF Pulse, bridgeVars, LineInv, TypeOK, Running, NodeListens, OnlyMine, Mine, Own,
              AnswerIsOwn, NoResult, Frame, Ping

LEMMA FlushStep ==
  ASSUME LineInv, FlushInput
  PROVE  LineInv'
  BY EmptySeq DEF FlushInput, bridgeVars, LineInv, TypeOK, Running, NodeListens, OnlyMine,
     Mine, Own, AnswerIsOwn, NoResult, Frame, Ping

LEMMA EchoesAreMine ==
  ASSUME LineInv, pc # "idle", NEW damage \in Damage
  PROVE  /\ Echo(damage) \in Seq(Frames)
         /\ Mine(Echo(damage))
<1>1. Frame("request", req.no, req.what, damage) \in Frames
  BY DEF LineInv, TypeOK, Frame, Frames, Sorts
<1>2. Own(Frame("request", req.no, req.what, damage))
  BY DEF Frame, Own
<1> HIDE DEF Frame
<1> QED
  BY <1>1, <1>2 DEF Echo, Mine, Own

LEMMA SendStep ==
  ASSUME LineInv, Send
  PROVE  LineInv'
<1> DEFINE command == [no |-> req.no, what |-> req.what]
<1>1. PICK damage \in Damage : rx' = rx \o Echo(damage)
  BY DEF Send
<1>2. pc # "idle" /\ command \in Commands /\ Own(command)
  BY DEF Send, LineInv, Running, Commands, Own
<1>3. /\ rx \in Seq(Frames) /\ Echo(damage) \in Seq(Frames) /\ Mine(Echo(damage))
  BY <1>2, EchoesAreMine DEF LineInv, TypeOK
<1>4. rx' \in Seq(Frames) /\ (Mine(rx) => Mine(rx'))
  BY <1>1, <1>3, ConcatProperties, LenProperties DEF Mine, Own
<1> HIDE DEF command
<1>5. ecu' \in Seq(Commands) /\ (Mine(ecu) => Mine(ecu'))
  <2>1. ecu \in Seq(Commands)
    BY DEF LineInv, TypeOK
  <2>2. ecu' = ecu \/ ecu' = Append(ecu, command)
    BY DEF Send, command
  <2>3. Append(ecu, command) \in Seq(Commands)
    BY <1>2, <2>1, AppendProperties
  <2>4. Mine(ecu) => Mine(Append(ecu, command))
    BY <1>2, <2>1, AppendIsMine
  <2> QED
    BY <2>1, <2>2, <2>3, <2>4
<1>6. /\ pc = "send" /\ pc' \in {"echo", "burst"} /\ UNCHANGED <<req, result>>
      /\ cable' = cable /\ tolerant' = tolerant
      /\ asked' = asked /\ relay' = relay /\ uart' = uart
  BY DEF Send, Reading, bridgeVars
<1>7. TypeOK'
  BY <1>4, <1>5, <1>6 DEF LineInv, TypeOK
<1>8. OnlyMine'
  BY <1>4, <1>5, <1>6 DEF LineInv, OnlyMine, Mine, Own, Ping
<1> QED
  BY <1>6, <1>7, <1>8
     DEF LineInv, Running, NodeListens, AnswerIsOwn, NoResult, Frame, Ping

LEMMA SendLineStep ==
  ASSUME LineInv, SendLine
  PROVE  LineInv'
<1> DEFINE command == [no |-> req.no, what |-> req.what]
<1>1. /\ pc = "send" /\ pc' = "line" /\ asked' = Append(asked, command)
      /\ UNCHANGED <<cable, tolerant, req, rx, ecu, result, relay, uart>>
  BY DEF SendLine
<1>2. command \in Commands \union {Ping} /\ Own(command)
  BY <1>1 DEF LineInv, Running, Commands, Own
<1>3. asked \in Seq(Commands \union {Ping})
  BY DEF LineInv, TypeOK
<1> HIDE DEF command
<1>4. /\ asked' \in Seq(Commands \union {Ping})
      /\ DOMAIN asked = 1 .. Len(asked) /\ DOMAIN asked' = 1 .. Len(asked) + 1
      /\ Len(asked) \in Nat
      /\ \A k \in 1 .. Len(asked) : asked'[k] = asked[k]
      /\ asked'[Len(asked) + 1] = command
  BY <1>1, <1>2, <1>3, AppendProperties, LenProperties
<1>5. TypeOK'
  BY <1>1, <1>4 DEF LineInv, TypeOK
<1>6. NodeListens'
  <2> SUFFICES ASSUME relay PROVE asked' # <<>> /\ Head(asked') # Ping
    BY <1>1 DEF LineInv, NodeListens
  <2>1. asked # <<>> /\ Head(asked) # Ping
    BY DEF LineInv, NodeListens
  <2>2. Len(asked) > 0 /\ asked[1] # Ping
    BY <1>3, <2>1, EmptySeq
  <2>3. asked'[1] # Ping /\ Len(asked') > 0
    BY <1>4, <2>2, LenProperties
  <2> QED
    BY <1>4, <2>3, EmptySeq
<1>7. OnlyMine'
  <2> SUFFICES ASSUME req.clean PROVE OnlyMine'
    BY <1>1 DEF OnlyMine
  <2>1. \A k \in DOMAIN asked' : asked'[k] = Ping \/ Own(asked'[k])
    BY <1>1, <1>2, <1>4 DEF LineInv, OnlyMine
  <2> QED
    BY <1>1, <2>1 DEF LineInv, OnlyMine, Mine, Own, Ping
<1> QED
  BY <1>1, <1>5, <1>6, <1>7
     DEF LineInv, Running, AnswerIsOwn, NoResult, Frame

LEMMA LineTimesOutStep ==
  ASSUME LineInv, LineTimesOut
  PROVE  LineInv'
  BY EmptySeq DEF LineTimesOut, Reading, bridgeVars, LineInv, TypeOK, Running, NodeListens,
     OnlyMine, Mine, Own, AnswerIsOwn, NoResult, Frame, Ping

LEMMA NodeTransmitsStep ==
  ASSUME LineInv, NodeTransmits
  PROVE  LineInv'
<1> DEFINE command == Head(asked)
           echo(d) == Frame("request", command.no, command.what, d)
<1>1. /\ asked # <<>> /\ command # Ping /\ ~relay /\ relay' = TRUE
      /\ UNCHANGED <<cable, tolerant, pc, req, rx, result, asked>>
  BY DEF NodeTransmits
<1>2. PICK damage \in Damage : uart' = IF command.what = "slow" THEN <<>> ELSE <<echo(damage)>>
  BY DEF NodeTransmits
<1>3. ecu' = ecu \/ ecu' = Append(ecu, command)
  BY DEF NodeTransmits
<1>4. /\ command \in Commands
      /\ req.clean /\ pc # "idle" => Own(command)
  <2>1. asked \in Seq(Commands \union {Ping}) /\ 1 \in DOMAIN asked
    BY <1>1, EmptySeq, LenProperties DEF LineInv, TypeOK
  <2> QED
    BY <1>1, <2>1, HeadTailProperties DEF LineInv, OnlyMine
<1>5. ecu \in Seq(Commands)
  BY DEF LineInv, TypeOK
<1>6. echo(damage) \in Frames /\ echo(damage).no = command.no /\ echo(damage).what = command.what
  BY <1>4 DEF Frame, Frames, Sorts, Commands
<1> HIDE DEF command, echo
<1>7. /\ ecu' \in Seq(Commands)
      /\ req.clean /\ pc # "idle" => Mine(ecu')
  <2>1. Append(ecu, command) \in Seq(Commands)
    BY <1>4, <1>5, AppendProperties
  <2>2. req.clean /\ pc # "idle" => Mine(ecu) /\ Mine(Append(ecu, command))
    BY <1>4, <1>5, AppendIsMine DEF LineInv, OnlyMine
  <2> QED
    BY <1>3, <1>5, <2>1, <2>2
<1>8. /\ uart' \in Seq(Frames)
      /\ req.clean /\ pc # "idle" => Mine(uart')
  BY <1>2, <1>4, <1>6 DEF Mine, Own
<1>9. TypeOK'
  BY <1>1, <1>7, <1>8 DEF LineInv, TypeOK
<1>10. OnlyMine'
  BY <1>1, <1>7, <1>8 DEF LineInv, OnlyMine, Mine, Own, Ping
<1> QED
  BY <1>1, <1>9, <1>10
     DEF LineInv, Running, NodeListens, AnswerIsOwn, NoResult, Frame, Ping, command

LEMMA NodeAnswersStep ==
  ASSUME LineInv, NodeAnswers
  PROVE  LineInv'
<1>1. /\ asked # <<>> /\ asked' = Tail(asked) /\ relay' = FALSE /\ uart' = <<>>
      /\ UNCHANGED <<cable, tolerant, req, ecu, result>>
  BY DEF NodeAnswers
<1>2. \/ UNCHANGED <<rx, pc>>
      \/ rx' = BufferRx /\ pc = "line" /\ pc' \in {"echo", "burst"}
  BY DEF NodeAnswers, Reading
<1>3. asked \in Seq(Commands \union {Ping}) /\ uart \in Seq(Frames)
  BY DEF LineInv, TypeOK
<1>4. /\ asked' \in Seq(Commands \union {Ping})
      /\ \A k \in DOMAIN asked' : k + 1 \in DOMAIN asked /\ asked'[k] = asked[k + 1]
  BY <1>1, <1>3, HeadTailProperties, LenProperties
<1>5. rx' \in Seq(Frames)
  BY <1>2, <1>3, EmptySeq DEF LineInv, TypeOK, BufferRx
<1>6. TypeOK'
  BY <1>1, <1>2, <1>4, <1>5, EmptySeq DEF LineInv, TypeOK
<1>7. OnlyMine'
  BY <1>1, <1>2, <1>4 DEF LineInv, OnlyMine, Mine, Own, Ping, BufferRx
<1> QED
  BY <1>1, <1>2, <1>6, <1>7
     DEF LineInv, Running, NodeListens, AnswerIsOwn, NoResult, Frame, Ping

(***************************************************************************)
(* What a frame that was read is made into: a value of a service is an     *)
(* answer.                                                                 *)
(***************************************************************************)
LEMMA InterpretEnds ==
  ASSUME NEW frame \in Frames, Interpret(frame)
  PROVE  /\ pc' = "idle"
         /\ result' \in [status : {"none", "answered", "refused", "failed"}, frame : Frames]
         /\ result'.frame = frame
         /\ result'.status = "answered" /\ req.what \in Services => frame.sort = "answer"
<1>1. CASE req.what = "strict"
  BY <1>1, KLineAssumption DEF Interpret, Finish, AllInits
<1>2. CASE req.what # "strict"
  BY <1>2 DEF Interpret, Finish
<1> QED
  BY <1>1, <1>2

LEMMA NothingReadIsTyped == NoResult.frame \in Frames
  BY KLineAssumption DEF NoResult, Frame, Frames, Sorts, Damage

(***************************************************************************)
(* A request that ends leaves the wire as it is.                           *)
(***************************************************************************)
LEMMA EndingStep ==
  ASSUME LineInv, pc' = "idle",
         UNCHANGED <<cable, tolerant, req, ecu, bridgeVars>>,
         rx' \in Seq(Frames),
         result' \in [status : {"none", "answered", "refused", "failed"}, frame : Frames],
         AnswerIsOwn'
  PROVE  LineInv'
  BY DEF LineInv, TypeOK, Running, NodeListens, OnlyMine, Mine, Own, bridgeVars, Ping

LEMMA ReadEchoStep ==
  ASSUME LineInv, ReadEcho
  PROVE  LineInv'
<1>1. /\ Consumed \in Seq(Frames)
      /\ \A k \in DOMAIN Consumed : \E j \in DOMAIN rx : Consumed[k] = rx[j]
  BY FirstFrameIsRead DEF LineInv, TypeOK, ReadEcho
<1>2. /\ pc = "echo" /\ pc' = "reply" /\ rx' = Consumed
      /\ UNCHANGED <<cable, tolerant, req, ecu, result, asked, relay, uart>>
  BY DEF ReadEcho, bridgeVars
<1>3. TypeOK'
  BY <1>1, <1>2 DEF LineInv, TypeOK
<1>4. OnlyMine'
  BY <1>1, <1>2 DEF LineInv, OnlyMine, Mine, Own, Ping
<1> QED
  BY <1>2, <1>3, <1>4
     DEF LineInv, Running, NodeListens, AnswerIsOwn, NoResult, Frame, Ping

LEMMA ReadReplyStep ==
  ASSUME LineInv, ReadReply
  PROVE  LineInv'
<1> DEFINE frame == rx[FirstFrame]
<1>1. /\ Consumed \in Seq(Frames) /\ frame \in Frames /\ FirstFrame \in DOMAIN rx
      /\ \A k \in DOMAIN Consumed : \E j \in DOMAIN rx : Consumed[k] = rx[j]
  BY FirstFrameIsRead DEF LineInv, TypeOK, ReadReply
<1>2. /\ pc \in {"reply", "pending"} /\ rx' = Consumed
      /\ UNCHANGED <<cable, tolerant, ecu, asked, relay, uart>>
  BY DEF ReadReply, bridgeVars
<1>3. req.clean => Own(frame)
  BY <1>1, <1>2 DEF LineInv, OnlyMine, Mine, Own
<1>4. CASE frame.sort = "pending" /\ req.what \notin Inits /\ req.pendings < MaxPending
  <2>1. /\ pc' = "pending" /\ req' = [req EXCEPT !.pendings = @ + 1]
        /\ UNCHANGED result
    BY <1>4 DEF ReadReply
  <2>2. /\ req' \in [no : 0 .. MaxRequests, what : Asked \union {"none"},
                     left : 0 .. Retries, pendings : 0 .. MaxPending, clean : BOOLEAN]
        /\ req'.no = req.no /\ req'.what = req.what /\ req'.left = req.left
        /\ req'.clean = req.clean
    <3>1. req \in [no : 0 .. MaxRequests, what : Asked \union {"none"},
                        left : 0 .. Retries, pendings : 0 .. MaxPending, clean : BOOLEAN]
      BY DEF LineInv, TypeOK
    <3>2. req.pendings + 1 \in 0 .. MaxPending
      BY <1>4, <3>1, KLineAssumption
    <3> QED
      BY <2>1, <3>1, <3>2
  <2>3. TypeOK'
    BY <1>1, <1>2, <2>1, <2>2 DEF LineInv, TypeOK
  <2>4. OnlyMine'
    BY <1>1, <1>2, <2>1, <2>2 DEF LineInv, OnlyMine, Mine, Own, Ping
  <2> QED
    BY <1>2, <2>1, <2>2, <2>3, <2>4
       DEF LineInv, Running, NodeListens, AnswerIsOwn, NoResult, Frame, Ping
<1>5. CASE frame.sort = "pending" /\ req.what \notin Inits /\ ~ (req.pendings < MaxPending)
  <2>1. Finish("failed", frame) /\ UNCHANGED req
    BY <1>5 DEF ReadReply
  <2> QED
    BY <1>1, <1>2, <2>1, EndingStep DEF Finish, AnswerIsOwn, bridgeVars
<1>6. CASE ~ (frame.sort = "pending" /\ req.what \notin Inits)
  <2>1. Interpret(frame) /\ UNCHANGED req
    BY <1>6 DEF ReadReply
  <2> HIDE DEF frame
  <2>2. /\ pc' = "idle" /\ result'.frame = frame
        /\ result' \in [status : {"none", "answered", "refused", "failed"}, frame : Frames]
        /\ result'.status = "answered" /\ req.what \in Services => frame.sort = "answer"
    BY <1>1, <2>1, InterpretEnds
  <2> QED
    BY <1>1, <1>2, <1>3, <2>1, <2>2, EndingStep DEF AnswerIsOwn, Own, bridgeVars
<1> QED
  BY <1>4, <1>5, <1>6

LEMMA TimeoutStep ==
  ASSUME LineInv, Timeout
  PROVE  LineInv'
<1>1. /\ pc \in {"echo", "reply", "pending"}
      /\ UNCHANGED <<cable, tolerant, rx, ecu, asked, relay, uart>>
  BY DEF Timeout, bridgeVars
<1>2. CASE pc # "pending" /\ req.left > 0
  <2>1. pc' = "flush" /\ req' = [req EXCEPT !.left = @ - 1] /\ UNCHANGED result
    BY <1>2 DEF Timeout
  <2>2. /\ req' \in [no : 0 .. MaxRequests, what : Asked \union {"none"},
                     left : 0 .. Retries, pendings : 0 .. MaxPending, clean : BOOLEAN]
        /\ req'.no = req.no /\ req'.what = req.what /\ req'.pendings = req.pendings
        /\ req'.clean = req.clean /\ req.what \notin Inits
    <3>1. req \in [no : 0 .. MaxRequests, what : Asked \union {"none"},
                        left : 0 .. Retries, pendings : 0 .. MaxPending, clean : BOOLEAN]
      BY DEF LineInv, TypeOK
    <3>2. req.left - 1 \in 0 .. Retries
      BY <1>2, <3>1, KLineAssumption
    <3>3. req.what \notin Inits
      BY <1>2 DEF LineInv, TypeOK
    <3> QED
      BY <2>1, <3>1, <3>2, <3>3
  <2>3. TypeOK'
    BY <1>1, <2>1, <2>2 DEF LineInv, TypeOK
  <2>4. OnlyMine'
    BY <1>1, <2>1, <2>2 DEF LineInv, OnlyMine, Mine, Own, Ping
  <2> QED
    BY <1>1, <1>2, <2>1, <2>2, <2>3, <2>4
       DEF LineInv, Running, NodeListens, AnswerIsOwn, NoResult, Frame, Ping
<1>3. CASE ~ (pc # "pending" /\ req.left > 0)
  <2>1. Finish("failed", NoResult.frame) /\ UNCHANGED req
    BY <1>3 DEF Timeout
  <2>2. rx \in Seq(Frames)
    BY DEF LineInv, TypeOK
  <2> QED
    BY <1>1, <2>1, <2>2, NothingReadIsTyped, EndingStep DEF Finish, AnswerIsOwn, bridgeVars
<1> QED
  BY <1>2, <1>3

LEMMA ExtractResponseStep ==
  ASSUME LineInv, ExtractResponse
  PROVE  LineInv'
<1>1. /\ pc = "burst" /\ rx' = <<>> /\ rx \in Seq(Frames) /\ rx' \in Seq(Frames)
      /\ UNCHANGED <<cable, tolerant, req, ecu, bridgeVars>>
  BY EmptySeq DEF ExtractResponse, LineInv, TypeOK
<1>2. ASSUME NEW k \in DOMAIN rx, Interpret(rx[k])
      PROVE  LineInv'
  <2> DEFINE frame == rx[k]
  <2>1. frame \in Frames
    BY <1>1, ElementOfSeq, LenProperties
  <2>2. req.clean => Own(frame)
    BY <1>1 DEF LineInv, OnlyMine, Mine, Own
  <2>3. Interpret(frame)
    BY <1>2
  <2> HIDE DEF frame
  <2>4. /\ pc' = "idle" /\ result'.frame = frame
        /\ result' \in [status : {"none", "answered", "refused", "failed"}, frame : Frames]
        /\ result'.status = "answered" /\ req.what \in Services => frame.sort = "answer"
    BY <2>1, <2>3, InterpretEnds
  <2> QED
    BY <1>1, <2>2, <2>4, EndingStep DEF AnswerIsOwn, Own
<1>3. ASSUME Finish("failed", NoResult.frame)
      PROVE  LineInv'
  BY <1>1, <1>3, NothingReadIsTyped, EndingStep DEF Finish, AnswerIsOwn
<1>4. \/ PositiveAt \in DOMAIN rx /\ Interpret(rx[PositiveAt])
      \/ NegativeAt \in DOMAIN rx /\ Interpret(rx[NegativeAt])
      \/ Finish("failed", NoResult.frame)
  <2>1. DOMAIN rx = 1 .. Len(rx) /\ Len(rx) \in Nat
    BY <1>1, LenProperties
  <2> QED
    BY <1>1, <2>1, PositivePlace, NegativePlace DEF ExtractResponse
<1> QED
  BY <1>2, <1>3, <1>4

(***************************************************************************)
(* A start is looked for after the echo, so within the burst.              *)
(***************************************************************************)
LEMMA AfterAnEcho ==
  ASSUME rx \in Seq(Frames)
  PROVE  AfterEcho \in Nat /\ AfterEcho >= IF req.what = "functional" THEN 2 ELSE 1
<1> DEFINE I == {i \in 1 .. Len(rx) : /\ Whole(rx[i]) /\ rx[i].sort = "request"
                                      /\ rx[i].no = req.no}
           place == IF I # {} THEN Min(I) ELSE 0
<1>1. I \in SUBSET Nat /\ DOMAIN rx = 1 .. Len(rx) /\ Len(rx) \in Nat
  BY LenProperties
<1>2. AfterEcho = IF place > 0 THEN place + 1 ELSE IF req.what = "functional" THEN 2 ELSE 1
  BY DEF AfterEcho, At, SelectInSeq
<1>3. place \in Nat
  <2> HIDE DEF I
  <2> QED
    BY <1>1, MinIsMember
<1> HIDE DEF I, place
<1> QED
  BY <1>2, <1>3

LEMMA StartsInBurst ==
  ASSUME rx \in Seq(Frames)
  PROVE  Starts \subseteq DOMAIN rx
<1>1. DOMAIN rx = 1 .. Len(rx) /\ Len(rx) \in Nat
  BY LenProperties
<1> QED
  BY <1>1, AfterAnEcho DEF Starts

LEMMA FindStartStep ==
  ASSUME LineInv, FindStart
  PROVE  LineInv'
<1>1. /\ pc = "burst" /\ req.what \in Inits
      /\ rx' = <<>> /\ rx \in Seq(Frames) /\ rx' \in Seq(Frames)
      /\ UNCHANGED <<cable, tolerant, req, ecu, bridgeVars>>
  BY EmptySeq DEF FindStart, LineInv, TypeOK
<1>2. AnswerIsOwn'
  BY <1>1, KLineAssumption DEF AnswerIsOwn
<1>3. CASE Starts = {}
  <2>1. Finish("failed", NoResult.frame)
    BY <1>3 DEF FindStart
  <2> QED
    BY <1>1, <1>2, <2>1, NothingReadIsTyped, EndingStep DEF Finish
<1>4. CASE Starts # {}
  <2> DEFINE first == CHOOSE k \in Starts : \A j \in Starts : k <= j
  <2>1. Starts \subseteq DOMAIN rx /\ DOMAIN rx = 1 .. Len(rx) /\ Len(rx) \in Nat
    BY <1>1, StartsInBurst, LenProperties
  <2>2. first \in Starts
    BY <1>4, <2>1, LeastNumber
  <2>3. Finish("answered", rx[first])
    BY <1>4 DEF FindStart
  <2> HIDE DEF first
  <2>4. rx[first] \in Frames
    BY <1>1, <2>1, <2>2, ElementOfSeq
  <2> QED
    BY <1>1, <1>2, <2>3, <2>4, EndingStep DEF Finish
<1> QED
  BY <1>3, <1>4

-----------------------------------------------------------------------------
(***************************************************************************)
(* The control unit answers what it has taken.                             *)
(***************************************************************************)
LEMMA HeardIsMine ==
  ASSUME LineInv, NEW sort \in {"answer", "refusal", "pending"}, ecu # <<>>, EcuSends(sort)
  PROVE  /\ rx' \in Seq(Frames) /\ uart' \in Seq(Frames)
         /\ req.clean /\ pc # "idle" =>
              /\ Mine(uart')
              /\ pc \notin {"pulse", "flush"} => Mine(rx')
         /\ ~relay => uart' = <<>>
<1> DEFINE frame(d) == Frame(sort, Head(ecu).no, Head(ecu).what, d)
<1>1. rx \in Seq(Frames) /\ uart \in Seq(Frames) /\ ecu \in Seq(Commands)
  BY DEF LineInv, TypeOK
<1>2. Head(ecu) \in Commands /\ (req.clean /\ pc # "idle" => Own(Head(ecu)))
  BY <1>1, HeadTailProperties, LenProperties, EmptySeq DEF LineInv, OnlyMine, Mine, Own
<1>3. \A d \in Damage : frame(d) \in Frames /\ frame(d).no = Head(ecu).no /\ frame(d).what = Head(ecu).what
  BY <1>2 DEF Frame, Frames, Sorts, Commands
<1> HIDE DEF frame
<1>4. CASE cable = "serial"
  <2>1. PICK d \in Damage : rx' = Append(rx, frame(d)) /\ uart' = uart
    BY <1>4 DEF EcuSends, Hears, frame
  <2>2. rx' \in Seq(Frames)
    BY <1>1, <1>3, <2>1, AppendProperties
  <2>3. Mine(rx) /\ Own(frame(d)) => Mine(rx')
    BY <1>1, <1>3, <2>1, AppendIsMine
  <2> QED
    BY <1>1, <1>2, <1>3, <1>4, <2>1, <2>2, <2>3 DEF LineInv, OnlyMine, NodeListens, Own
<1>5. CASE cable # "serial"
  <2>1. PICK d \in Damage : relay /\ uart' = Append(uart, frame(d)) /\ rx' = rx
    BY <1>5 DEF EcuSends, Hears, frame
  <2>2. uart' \in Seq(Frames)
    BY <1>1, <1>3, <2>1, AppendProperties
  <2>3. Mine(uart) /\ Own(frame(d)) => Mine(uart')
    BY <1>1, <1>3, <2>1, AppendIsMine
  <2> QED
    BY <1>1, <1>2, <1>3, <2>1, <2>2, <2>3 DEF LineInv, OnlyMine, Own
<1> QED
  BY <1>4, <1>5

LEMMA EcuStep ==
  ASSUME LineInv, EcuPending \/ EcuReplies \/ EcuStaysSilent
  PROVE  LineInv'
<1>1. /\ ecu # <<>> /\ ecu' \in {ecu, Tail(ecu)}
      /\ UNCHANGED <<cable, tolerant, pc, req, result, asked, relay>>
  BY DEF EcuPending, EcuReplies, EcuStaysSilent, bridgeVars
<1>2. /\ ecu' \in Seq(Commands)
      /\ req.clean /\ pc # "idle" => Mine(ecu')
  <2>1. ecu \in Seq(Commands) /\ Tail(ecu) \in Seq(Commands)
    BY <1>1, HeadTailProperties DEF LineInv, TypeOK
  <2>2. req.clean /\ pc # "idle" => Mine(ecu) /\ Mine(Tail(ecu))
    BY <1>1, <2>1, TailIsMine DEF LineInv, OnlyMine
  <2> QED
    BY <1>1, <2>1, <2>2
<1>3. /\ rx' \in Seq(Frames) /\ uart' \in Seq(Frames)
      /\ req.clean /\ pc # "idle" =>
           /\ Mine(uart')
           /\ pc \notin {"pulse", "flush"} => Mine(rx')
      /\ ~relay => uart' = <<>>
  <2>1. CASE EcuStaysSilent
    BY <2>1 DEF EcuStaysSilent, bridgeVars, LineInv, TypeOK, OnlyMine, NodeListens
  <2>2. CASE EcuPending
    <3>1. EcuSends("pending")
      BY <2>2 DEF EcuPending
    <3> QED
      BY <1>1, <3>1, HeardIsMine
  <2>3. CASE EcuReplies
    <3>1. PICK sort \in {"answer", "refusal"} : EcuSends(sort)
      BY <2>3 DEF EcuReplies
    <3> QED
      BY <1>1, <3>1, HeardIsMine
  <2> QED
    BY <2>1, <2>2, <2>3
<1>4. TypeOK'
  BY <1>1, <1>2, <1>3 DEF LineInv, TypeOK
<1>5. OnlyMine'
  BY <1>1, <1>2, <1>3 DEF LineInv, OnlyMine, Mine, Own, Ping
<1>6. NodeListens'
  BY <1>1, <1>3 DEF LineInv, NodeListens, Ping
<1> QED
  BY <1>1, <1>4, <1>5, <1>6
     DEF LineInv, Running, AnswerIsOwn, NoResult, Frame

LEMMA LineStutters ==
  ASSUME LineInv, UNCHANGED vars
  PROVE  LineInv'
  BY DEF vars, bridgeVars, LineInv, TypeOK, Running, NodeListens, OnlyMine, Mine, Own,
         AnswerIsOwn, NoResult, Frame, Ping

LEMMA LineStep == LineInv /\ [Next]_vars => LineInv'
  BY BeginStep, PulseStep, FlushStep, SendStep, SendLineStep, LineTimesOutStep,
     NodeTransmitsStep, NodeAnswersStep, ReadEchoStep, ReadReplyStep, TimeoutStep,
     ExtractResponseStep, FindStartStep, EcuStep, LineStutters
  DEF Next, Tester, Node

LEMMA LineInvariant == Spec => []LineInv
  BY LineStart, LineStep, PTL DEF Spec

(***************************************************************************)
(* The state of a request, of the buffer and of the bridge stays within    *)
(* its type; StartCommunication is never left with an attempt to repeat    *)
(* (fast_init, "StartCommunication must be sent ONCE").                    *)
(***************************************************************************)
THEOREM LineTyped == Spec => []TypeOK
<1>1. LineInv => TypeOK
  BY DEF LineInv
<1> QED
  BY LineInvariant, <1>1, PTL

(***************************************************************************)
(* KWP2000.request returns a value that answers this very request,         *)
(* whatever is damaged, repeated or late, if nothing was owed when it was  *)
(* made: by the control unit, or by the bridge other than a PONG.          *)
(***************************************************************************)
THEOREM LineAnswersAreOwn == Spec => []AnswerIsOwn
<1>1. LineInv => AnswerIsOwn
  BY DEF LineInv
<1> QED
  BY LineInvariant, <1>1, PTL

-----------------------------------------------------------------------------
(***************************************************************************)
(* What the bursts of an init hold.  A frame of the tester is the first    *)
(* thing the node hears; and when nothing was owed, nothing can reach the  *)
(* adapter between the flush and the send, so that the echo leads there    *)
(* too.                                                                    *)
(***************************************************************************)
EchoLeads(s) == \A k \in DOMAIN s : s[k].sort = "request" => k = 1
NoEcho(s) == \A k \in DOMAIN s : s[k].sort # "request"

InitAlone ==
  req.clean /\ req.what \in Inits =>
    /\ pc \in {"pulse", "flush", "send"} => NothingOwed
    /\ pc \in {"send", "line"} => rx = <<>>
    /\ pc \in {"echo", "burst"} => EchoLeads(rx)
    /\ pc \in {"reply", "pending"} => NoEcho(rx)

EchoInv ==
  /\ EchoLeads(uart)
  /\ pc = "line" => cable = "bridge"
  /\ InitAlone
  /\ InitIsHeard

LEMMA EchoStart == Init => EchoInv
  BY EmptySeq DEF Init, EchoInv, EchoLeads, InitAlone, InitIsHeard, NoResult

(***************************************************************************)
(* Until the frame is on the wire.                                         *)
(***************************************************************************)
LEMMA EchoBeforeSend ==
  ASSUME LineInv, EchoInv, Begin \/ Pulse \/ FlushInput \/ SendLine \/ LineTimesOut
  PROVE  EchoInv'
<1>1. CASE Begin
  <2>1. /\ req'.clean => NothingOwed
        /\ pc' \in {"pulse", "flush"} /\ result' = NoResult
        /\ UNCHANGED <<cable, ecu, asked, uart>>
    BY <1>1 DEF Begin, Starting, bridgeVars
  <2>2. NothingOwed => NothingOwed'
    BY <2>1 DEF NothingOwed, Ping
  <2> QED
    BY <2>1, <2>2 DEF EchoInv, EchoLeads, InitAlone, InitIsHeard, NoResult
<1>2. CASE Pulse \/ FlushInput
  <2>1. /\ pc \in {"pulse", "flush"} /\ pc' \in {"flush", "send"}
        /\ pc' = "send" => rx' = <<>>
        /\ UNCHANGED <<cable, req, ecu, asked, uart, result>>
    BY <1>2 DEF Pulse, FlushInput, bridgeVars
  <2> QED
    BY <2>1 DEF EchoInv, EchoLeads, InitAlone, InitIsHeard, NothingOwed, Ping
<1>3. CASE SendLine
  BY <1>3 DEF SendLine, EchoInv, EchoLeads, InitAlone, InitIsHeard
<1>4. CASE LineTimesOut
  BY <1>4, EmptySeq DEF LineTimesOut, Reading, bridgeVars, EchoInv, EchoLeads,
                        InitAlone, InitIsHeard
<1> QED
  BY <1>1, <1>2, <1>3, <1>4

LEMMA EchoSend ==
  ASSUME LineInv, EchoInv, Send
  PROVE  EchoInv'
<1>1. PICK damage \in Damage : rx' = rx \o Echo(damage)
  BY DEF Send
<1>2. /\ pc = "send" /\ pc' \in {"echo", "burst"}
      /\ UNCHANGED <<cable, req, uart, result>>
  BY DEF Send, Reading, bridgeVars
<1>3. ASSUME rx = <<>> PROVE EchoLeads(rx')
  <2>1. Echo(damage) \in Seq(Frames)
    BY <1>2, EchoesAreMine
  <2>2. rx' = Echo(damage)
    BY <1>1, <1>3, <2>1
  <2>3. Len(Echo(damage)) \in {0, 1} /\ DOMAIN Echo(damage) = 1 .. Len(Echo(damage))
    BY <2>1, LenProperties DEF Echo
  <2> QED
    BY <2>2, <2>3 DEF EchoLeads
<1> QED
  BY <1>2, <1>3 DEF EchoInv, EchoLeads, InitAlone, InitIsHeard

(***************************************************************************)
(* The node: the frame it sends is the first thing it hears, and it hands  *)
(* over what it heard.                                                     *)
(***************************************************************************)
LEMMA EchoNode ==
  ASSUME LineInv, EchoInv, Node
  PROVE  EchoInv'
<1>1. asked \in Seq(Commands \union {Ping}) /\ asked # <<>>
  BY DEF LineInv, TypeOK, Node, NodeTransmits, NodeAnswers
<1>2. Head(asked) = asked[1] /\ 1 \in DOMAIN asked
  BY <1>1, EmptySeq, LenProperties
<1>3. CASE NodeTransmits
  <2>1. ~ NothingOwed
    BY <1>2, <1>3 DEF NodeTransmits, NothingOwed
  <2>2. EchoLeads(uart')
    BY <1>3, EmptySeq DEF NodeTransmits, EchoLeads
  <2> QED
    BY <1>3, <2>1, <2>2 DEF NodeTransmits, EchoInv, EchoLeads, InitAlone, InitIsHeard
<1>4. CASE NodeAnswers
  <2>1. /\ \/ UNCHANGED <<rx, pc>>
           \/ rx' = BufferRx /\ pc = "line" /\ pc' \in {"echo", "burst"}
        /\ uart' = <<>> /\ asked' = Tail(asked)
        /\ UNCHANGED <<cable, req, ecu, result>>
    BY <1>4 DEF NodeAnswers, Reading
  <2>2. EchoLeads(BufferRx) /\ EchoLeads(uart')
    BY <2>1, EmptySeq DEF EchoInv, EchoLeads, BufferRx
  <2>3. NothingOwed => NothingOwed'
    <3>1. \A k \in DOMAIN Tail(asked) : k + 1 \in DOMAIN asked
                                        /\ Tail(asked)[k] = asked[k + 1]
      BY <1>1, HeadTailProperties, LenProperties
    <3> QED
      BY <2>1, <3>1 DEF NothingOwed, Ping
  <2> QED
    BY <2>1, <2>2, <2>3 DEF EchoInv, EchoLeads, NoEcho, InitAlone, InitIsHeard
<1> QED
  BY <1>3, <1>4 DEF Node

(***************************************************************************)
(* Reading: what is left after the echo holds no frame of the tester.      *)
(***************************************************************************)
LEMMA EchoEnds ==
  ASSUME EchoInv, pc' = "idle", UNCHANGED <<cable, req, uart>>, InitIsHeard'
  PROVE  EchoInv'
  BY DEF EchoInv, EchoLeads, InitAlone

LEMMA EchoReads ==
  ASSUME LineInv, EchoInv, ReadEcho \/ ReadReply \/ Timeout
  PROVE  EchoInv'
<1>1. CASE ReadEcho
  <2>1. \A k \in DOMAIN Consumed : \E j \in DOMAIN rx : j > 1 /\ Consumed[k] = rx[j]
    BY <1>1, FirstFrameIsRead DEF LineInv, TypeOK, ReadEcho
  <2>2. EchoLeads(rx) => NoEcho(Consumed)
    BY <2>1 DEF EchoLeads, NoEcho
  <2> QED
    BY <1>1, <2>2 DEF ReadEcho, bridgeVars, EchoInv, EchoLeads, NoEcho, InitAlone,
                      InitIsHeard
<1>2. CASE ReadReply
  <2> DEFINE frame == rx[FirstFrame]
  <2>1. frame \in Frames /\ FirstFrame \in DOMAIN rx
    BY <1>2, FirstFrameIsRead DEF LineInv, TypeOK, ReadReply
  <2>2. /\ pc \in {"reply", "pending"}
        /\ UNCHANGED <<cable, uart>>
    BY <1>2 DEF ReadReply, bridgeVars
  <2>3. req.clean /\ req.what \in Inits => frame.sort # "request" /\ frame.no = req.no
    BY <2>1, <2>2 DEF EchoInv, InitAlone, NoEcho, LineInv, OnlyMine, Mine, Own
  <2>4. CASE frame.sort = "pending" /\ req.what \notin Inits /\ req.pendings < MaxPending
    <3>1. /\ pc' = "pending" /\ req' = [req EXCEPT !.pendings = @ + 1]
          /\ UNCHANGED result
      BY <1>2, <2>4 DEF ReadReply
    <3>2. req'.what = req.what
      BY <3>1 DEF LineInv, TypeOK
    <3> QED
      BY <2>2, <2>4, <3>1, <3>2 DEF EchoInv, EchoLeads, InitAlone, InitIsHeard
  <2>5. CASE Finish("failed", frame) /\ UNCHANGED req
    BY <2>2, <2>5, EchoEnds DEF Finish, InitIsHeard
  <2>6. CASE Interpret(frame) /\ UNCHANGED req
    <3> HIDE DEF frame
    <3>1. pc' = "idle" /\ result'.frame = frame
      BY <2>1, <2>6, InterpretEnds
    <3> QED
      BY <2>2, <2>3, <2>6, <3>1, EchoEnds DEF InitIsHeard
  <2> QED
    BY <1>2, <2>4, <2>5, <2>6 DEF ReadReply
<1>3. CASE Timeout
  <2>1. CASE pc # "pending" /\ req.left > 0
    <3>1. req.what \notin Inits /\ req'.what = req.what
      BY <1>3, <2>1 DEF Timeout, LineInv, TypeOK
    <3> QED
      BY <1>3, <2>1, <3>1 DEF Timeout, bridgeVars, EchoInv, EchoLeads, InitAlone,
                              InitIsHeard
  <2>2. CASE ~ (pc # "pending" /\ req.left > 0)
    BY <1>3, <2>2, EchoEnds DEF Timeout, Finish, bridgeVars, InitIsHeard
  <2> QED
    BY <2>1, <2>2
<1> QED
  BY <1>1, <1>2, <1>3

(***************************************************************************)
(* A burst is searched after the echo, which leads it: whole, it is found; *)
(* damaged, the first frame of a functional init's burst is passed over,   *)
(* and no other echo looks like a start.                                   *)
(***************************************************************************)
LEMMA EchoBursts ==
  ASSUME LineInv, EchoInv, ExtractResponse \/ FindStart
  PROVE  EchoInv'
<1>1. /\ pc = "burst" /\ rx \in Seq(Frames)
      /\ UNCHANGED <<cable, req, uart>>
  BY DEF ExtractResponse, FindStart, bridgeVars, LineInv, TypeOK
<1>2. CASE ExtractResponse
  <2>1. req.what \notin Inits /\ pc' = "idle"
    <3>1. req.what \in Services /\ req.what # "strict"
      BY <1>2, KLineAssumption DEF ExtractResponse, AllInits
    <3>2. req.what \notin Inits
      BY <1>2, KLineAssumption DEF ExtractResponse
    <3> QED
      BY <1>2, <3>1, <3>2 DEF ExtractResponse, Interpret, Finish
  <2> QED
    BY <1>1, <2>1, EchoEnds DEF InitIsHeard
<1>3. CASE FindStart /\ Starts = {}
  BY <1>1, <1>3, EchoEnds DEF FindStart, Finish, InitIsHeard
<1>4. CASE FindStart /\ Starts # {}
  <2> DEFINE first == CHOOSE k \in Starts : \A j \in Starts : k <= j
  <2>1. Starts \subseteq DOMAIN rx /\ DOMAIN rx = 1 .. Len(rx) /\ Len(rx) \in Nat
    BY <1>1, StartsInBurst, LenProperties
  <2>2. first \in Starts
    BY <1>4, <2>1, LeastNumber
  <2>3. Finish("answered", rx[first])
    BY <1>4 DEF FindStart
  <2> HIDE DEF first
  <2>4. ASSUME req.clean
        PROVE  rx[first].sort # "request" /\ rx[first].no = req.no
    <3>1. Own(rx[first]) /\ req.what \in Inits /\ EchoLeads(rx)
      BY <1>1, <1>4, <2>1, <2>2, <2>4
         DEF FindStart, LineInv, OnlyMine, Mine, EchoInv, InitAlone
    <3>2. CASE req.what = "slow"
      BY <2>2, <3>1, <3>2 DEF Starts, KeyBytes, Own
    <3>3. CASE req.what # "slow"
      <4>1. first >= AfterEcho /\ LooksStarted(rx[first])
        BY <2>1, <2>2, <3>3, StartsInBurst DEF Starts
      <4>2. SUFFICES ASSUME rx[first].sort = "request" PROVE FALSE
        BY <3>1 DEF Own
      <4>3. first = 1 /\ req.what = "functional"
        BY <2>1, <2>2, <3>1, <4>1, <4>2 DEF EchoLeads, LooksStarted, Own
      <4>4. AfterEcho \in Nat /\ AfterEcho >= 2
        BY <1>1, <4>3, AfterAnEcho
      <4> QED
        BY <4>1, <4>3, <4>4
    <3> QED
      BY <3>2, <3>3
  <2> QED
    BY <1>1, <2>3, <2>4, EchoEnds DEF Finish, InitIsHeard
<1> QED
  BY <1>2, <1>3, <1>4

(***************************************************************************)
(* The control unit: it adds to a burst, never in front of the echo.       *)
(***************************************************************************)
LEMMA EchoEcu ==
  ASSUME LineInv, EchoInv, EcuPending \/ EcuReplies \/ EcuStaysSilent
  PROVE  EchoInv'
<1>1. /\ ecu # <<>> /\ ecu' \in {ecu, Tail(ecu)}
      /\ UNCHANGED <<cable, pc, req, result, asked>>
  BY DEF EcuPending, EcuReplies, EcuStaysSilent, bridgeVars
<1>2. CASE EcuStaysSilent
  BY <1>1, <1>2 DEF EcuStaysSilent, bridgeVars, EchoInv, EchoLeads, NoEcho, InitAlone,
                    InitIsHeard, NothingOwed
<1>3. CASE EcuPending \/ EcuReplies
  <2>1. PICK sort \in {"answer", "refusal", "pending"} : EcuSends(sort)
    BY <1>3 DEF EcuPending, EcuReplies
  <2> DEFINE heard(d) == Frame(sort, Head(ecu).no, Head(ecu).what, d)
  <2>2. /\ \A d \in Damage : heard(d).sort # "request" /\ heard(d) \in Frames
        /\ rx \in Seq(Frames) /\ uart \in Seq(Frames)
    <3>1. ecu \in Seq(Commands)
      BY DEF LineInv, TypeOK
    <3>2. Head(ecu) \in Commands
      BY <1>1, <3>1, HeadTailProperties
    <3> QED
      BY <2>1, <3>2 DEF Frame, Frames, Sorts, Commands, LineInv, TypeOK
  <2>3. ASSUME NEW s \in Seq(Frames), NEW d \in Damage
        PROVE  /\ NoEcho(s) => NoEcho(Append(s, heard(d)))
               /\ EchoLeads(s) => EchoLeads(Append(s, heard(d)))
    <3> HIDE DEF heard
    <3> QED
      BY <2>2, AppendProperties, LenProperties DEF NoEcho, EchoLeads
  <2>4. CASE cable = "serial"
    <3>1. /\ uart' = uart
          /\ \E d \in Damage : rx' = Append(rx, heard(d))
      BY <2>1, <2>4 DEF EcuSends, Hears
    <3>2. (NoEcho(rx) => NoEcho(rx')) /\ (EchoLeads(rx) => EchoLeads(rx'))
      BY <2>2, <2>3, <3>1
    <3>3. req.clean /\ req.what \in Inits => pc \notin {"pulse", "flush", "send"}
      BY <1>1 DEF EchoInv, InitAlone, NothingOwed
    <3> HIDE DEF heard
    <3> QED
      BY <1>1, <2>4, <3>1, <3>2, <3>3 DEF EchoInv, InitAlone, InitIsHeard
  <2>5. CASE cable # "serial"
    <3>1. /\ rx' = rx
          /\ \E d \in Damage : uart' = Append(uart, heard(d))
      BY <2>1, <2>5 DEF EcuSends, Hears
    <3>2. EchoLeads(uart) => EchoLeads(uart')
      BY <2>2, <2>3, <3>1
    <3>3. req.clean /\ req.what \in Inits => pc \notin {"pulse", "flush", "send"}
      BY <1>1 DEF EchoInv, InitAlone, NothingOwed
    <3> HIDE DEF heard
    <3> QED
      BY <1>1, <3>1, <3>2, <3>3 DEF EchoInv, InitAlone, InitIsHeard
  <2> QED
    BY <2>4, <2>5
<1> QED
  BY <1>2, <1>3

LEMMA EchoStep == LineInv /\ EchoInv /\ [Next]_vars => EchoInv'
<1>1. LineInv /\ EchoInv /\ UNCHANGED vars => EchoInv'
  BY DEF vars, bridgeVars, EchoInv, EchoLeads, NoEcho, InitAlone, InitIsHeard,
         NothingOwed, Ping
<1> QED
  BY <1>1, EchoBeforeSend, EchoSend, EchoNode, EchoReads, EchoBursts, EchoEcu
  DEF Next, Tester

(***************************************************************************)
(* KLine.fast_init, fast_init_tolerant and slow_init never report a        *)
(* session on the strength of their own echo, whatever is damaged.         *)
(***************************************************************************)
THEOREM LineInitIsHeard == Spec => []InitIsHeard
<1>1. EchoInv => InitIsHeard
  BY DEF EchoInv
<1> QED
  BY LineInvariant, EchoStart, EchoStep, <1>1, PTL DEF Spec

=============================================================================
