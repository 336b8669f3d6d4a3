-------------------------------- MODULE KLine --------------------------------
(***************************************************************************)
(* One request at a time over the half-duplex wire: KLine.request (frames  *)
(* with a valid checksum, retried), KLine.converse (the whole burst, once) *)
(* and the interpretation of the reply by KWP2000.  Everything sent comes  *)
(* back as an echo; frames are damaged, lost, or answered after the tester *)
(* has given up.  The cable is a serial adapter (SerialTransport), or the  *)
(* ESP32 node as a bridge (EspTransport), to which each frame is a command *)
(* line and which answers with the burst it heard.                         *)
(***************************************************************************)
EXTENDS Naturals, SequencesExt

CONSTANTS
  Cables,        \* the transports: subset of AllCables
  Services,      \* a service with its payload, e.g. the read of one identifier
  Sid,           \* Services -> its service byte
  Inits,         \* the ways to start communication: subset of AllInits
  Retries,       \* of KLine.request
  MaxPending,    \* max_pending of KWP2000
  MaxPings,      \* bound: PINGs the node still owes when open() returns
  MaxRequests,   \* bound: requests of one behaviour
  MaxWire        \* bound, of each cable: frames waiting in the receive buffer

(***************************************************************************)
(* fast_init reads frames; fast_init_tolerant, with a physical or a        *)
(* functional address, and slow_init read a burst.                         *)
(***************************************************************************)
AllInits == {"strict", "physical", "functional", "slow"}
AllCables == {"serial", "bridge"}

ASSUME KLineAssumption ==
  /\ Cables \subseteq AllCables
  /\ Inits \subseteq AllInits
  /\ Services \intersect AllInits = {}
  /\ DOMAIN Sid = Services
  /\ Retries \in Nat
  /\ MaxPending \in Nat
  /\ MaxPings \in Nat
  /\ MaxRequests \in Nat \ {0}

VARIABLES
  cable,
  tolerant,  \* KWP2000(tolerant=...): burst reading
  pc,        \* where the request is
  req,       \* the request: number, what, attempts left, pendings heard, clean
  rx,        \* the port's buffer (_rx of the bridge) and _rxbuf: frames not yet read
  ecu,       \* requests the control unit has taken and not answered
  result,    \* outcome of the last request
  asked,     \* the bridge: command lines the node has not answered
  relay,     \* the bridge: the first of them is on the wire
  uart       \* the bridge: frames the node has heard since it sent

bridgeVars == <<asked, relay, uart>>
vars == <<cable, tolerant, pc, req, rx, ecu, result, bridgeVars>>

Asked == Services \union Inits

(***************************************************************************)
(* A frame on the wire.  Damage: "whole" has a valid checksum, "legible"   *)
(* has not but its service byte can be found, "shredded" is noise.         *)
(***************************************************************************)
Damage == {"whole", "legible", "shredded"}
Sorts == {"request", "answer", "pending", "refusal"}
Frame(sort, no, what, damage) ==
  [sort |-> sort, no |-> no, what |-> what, damage |-> damage]

NoRequest == [no |-> 0, what |-> "none", left |-> 0, pendings |-> 0, clean |-> TRUE]
NoResult == [status |-> "none", frame |-> Frame("request", 0, "none", "whole")]

Whole(frame) == frame.damage = "whole"
Legible(frame) == frame.damage \in {"whole", "legible"}

(***************************************************************************)
(* open() of the bridge sends PINGs until it reads a PONG; the node, which *)
(* starts up meanwhile, may answer the others later.                       *)
(***************************************************************************)
Ping == [no |-> 0, what |-> "none"]
PingsOwed == IF cable = "bridge" THEN BoundedSeq({Ping}, MaxPings) ELSE {<<>>}

Init ==
  /\ cable \in Cables
  /\ tolerant \in BOOLEAN
  /\ pc = "idle"
  /\ req = NoRequest
  /\ rx = <<>>
  /\ ecu = <<>>
  /\ result = NoResult
  /\ asked \in PingsOwed /\ relay = FALSE /\ uart = <<>>

-----------------------------------------------------------------------------
(***************************************************************************)
(* A request begins.  StartCommunication and the teardown are sent once    *)
(* (retries=0); clean records whether no reply was outstanding.  A fast    *)
(* init has its pulse before it.                                           *)
(***************************************************************************)
NothingOwed == ecu = <<>> /\ \A k \in DOMAIN asked : asked[k] = Ping

Starting == IF req'.what \in Inits \ {"slow"} THEN "pulse" ELSE "flush"

BeginRetried ==  \* mutant: StartCommunication is retried like a service
  /\ pc = "idle"
  /\ req.no < MaxRequests
  /\ \E what \in Asked :
       req' = [no |-> req.no + 1, what |-> what, left |-> Retries,
               pendings |-> 0, clean |-> NothingOwed]
  /\ pc' = Starting
  /\ result' = NoResult
  /\ UNCHANGED <<cable, tolerant, rx, ecu, bridgeVars>>

Begin ==
  /\ pc = "idle"
  /\ req.no < MaxRequests
  /\ \E what \in Asked, left \in {0, Retries} :
       /\ what \in Inits => left = 0
       /\ req' = [no |-> req.no + 1, what |-> what, left |-> left,
                  pendings |-> 0, clean |-> NothingOwed]
  /\ pc' = Starting
  /\ result' = NoResult
  /\ UNCHANGED <<cable, tolerant, rx, ecu, bridgeVars>>

(***************************************************************************)
(* The pulse of a fast init: the break leaves a glitch in the port's       *)
(* buffer; the bridge only notes that the next frame goes with a pulse.    *)
(***************************************************************************)
Glitch == Frame("request", 0, "none", "shredded")
FastInitLow == IF cable = "serial" THEN {<<>>, <<Glitch>>} ELSE {<<>>}

Pulse ==
  /\ pc = "pulse"
  /\ rx' \in FastInitLow
  /\ pc' = "flush"
  /\ UNCHANGED <<cable, tolerant, req, ecu, result, bridgeVars>>

Bursting == IF req.what \in Services THEN tolerant ELSE req.what # "strict"

KeepInput ==  \* mutant: the input is not flushed before a send
  /\ pc = "flush"
  /\ pc' = "send"
  /\ UNCHANGED <<cable, tolerant, req, rx, ecu, result, bridgeVars>>

FlushInput ==
  /\ pc = "flush"
  /\ rx' = <<>>
  /\ pc' = "send"
  /\ UNCHANGED <<cable, tolerant, req, ecu, result, bridgeVars>>

(***************************************************************************)
(* The frame goes out and comes back as an echo (the 5-baud address has    *)
(* none); the control unit takes it or never hears it.                     *)
(***************************************************************************)
Echo(damage) ==
  IF req.what = "slow" THEN <<>> ELSE <<Frame("request", req.no, req.what, damage)>>

Reading == IF Bursting THEN "burst" ELSE "echo"

Send ==
  /\ pc = "send"
  /\ cable = "serial"
  /\ \E damage \in Damage : rx' = rx \o Echo(damage)
  /\ ecu' \in {ecu, Append(ecu, [no |-> req.no, what |-> req.what])}
  /\ pc' = Reading
  /\ UNCHANGED <<cable, tolerant, req, result, bridgeVars>>

(***************************************************************************)
(* _cmd over the bridge: the line goes out, and whatever line comes next   *)
(* is its answer; after four readlines without one the answer is empty.    *)
(* A line that comes when none is waited for is dropped by the next _cmd.  *)
(***************************************************************************)
SendLine ==
  /\ pc = "send"
  /\ cable = "bridge"
  /\ asked' = Append(asked, [no |-> req.no, what |-> req.what])
  /\ pc' = "line"
  /\ UNCHANGED <<cable, tolerant, req, rx, ecu, result, relay, uart>>

LineTimesOut ==
  /\ pc = "line"
  /\ rx' = <<>>
  /\ pc' = Reading
  /\ UNCHANGED <<cable, tolerant, req, ecu, result, bridgeVars>>

(***************************************************************************)
(* The node takes the lines in order: it empties its receive buffer, sends *)
(* the frame and collects the burst.                                       *)
(***************************************************************************)
NodeTransmits ==
  /\ asked # <<>> /\ Head(asked) # Ping
  /\ ~relay
  /\ relay' = TRUE
  /\ LET command == Head(asked) IN
       /\ \E damage \in Damage :
            uart' = IF command.what = "slow" THEN <<>>
                    ELSE <<Frame("request", command.no, command.what, damage)>>
       /\ ecu' \in {ecu, Append(ecu, command)}
  /\ UNCHANGED <<cable, tolerant, pc, req, rx, result, asked>>

BufferRx == IF relay THEN uart ELSE <<>>  \* of a PONG nothing is kept

NodeAnswers ==
  /\ asked # <<>>
  /\ relay \/ Head(asked) = Ping
  /\ IF pc = "line" THEN rx' = BufferRx /\ pc' = Reading ELSE UNCHANGED <<rx, pc>>
  /\ asked' = Tail(asked)
  /\ relay' = FALSE /\ uart' = <<>>
  /\ UNCHANGED <<cable, tolerant, req, ecu, result>>

-----------------------------------------------------------------------------
(***************************************************************************)
(* read_frame: the first frame with a valid checksum, whoever sent it;     *)
(* what lies before it is dropped, what follows is kept.                   *)
(***************************************************************************)
FrameReady == \E k \in DOMAIN rx : Whole(rx[k])
FirstFrame == SelectInSeq(rx, Whole)
Consumed == SubSeq(rx, FirstFrame + 1, Len(rx))

Finish(status, frame) ==
  /\ pc' = "idle"
  /\ result' = [status |-> status, frame |-> frame]

ReadEcho ==
  /\ pc = "echo"
  /\ FrameReady
  /\ rx' = Consumed
  /\ pc' = "reply"
  /\ UNCHANGED <<cable, tolerant, req, ecu, result, bridgeVars>>

(***************************************************************************)
(* KWP2000.request on a reply: negative replies are not compared with the  *)
(* service, positive ones by service only, never by their first byte.      *)
(***************************************************************************)
SameService(a, b) == a = b \/ (a \in Services /\ b \in Services /\ Sid[a] = Sid[b])

Interpret(frame) ==  \* fast_init hands its reply on unexamined
  CASE req.what = "strict" -> Finish("answered", frame)
    [] frame.sort \in {"pending", "refusal"} -> Finish("refused", frame)
    [] frame.sort = "answer" /\ SameService(frame.what, req.what)
         -> Finish("answered", frame)
    [] OTHER -> Finish("failed", frame)

ReadReplyUnbounded ==  \* mutant: pending replies are not counted
  /\ pc \in {"reply", "pending"}
  /\ FrameReady
  /\ rx' = Consumed
  /\ LET frame == rx[FirstFrame]
     IN IF frame.sort = "pending" /\ req.what \notin Inits
          THEN pc' = "pending" /\ UNCHANGED result
          ELSE Interpret(frame)
  /\ UNCHANGED <<cable, tolerant, req, ecu, bridgeVars>>

ReadReply ==
  /\ pc \in {"reply", "pending"}
  /\ FrameReady
  /\ rx' = Consumed
  /\ LET frame == rx[FirstFrame]
     IN IF frame.sort = "pending" /\ req.what \notin Inits
          THEN IF req.pendings < MaxPending
                 THEN /\ req' = [req EXCEPT !.pendings = @ + 1]
                      /\ pc' = "pending"
                      /\ UNCHANGED result
                 ELSE Finish("failed", frame) /\ UNCHANGED req
          ELSE Interpret(frame) /\ UNCHANGED req
  /\ UNCHANGED <<cable, tolerant, ecu, bridgeVars>>

(***************************************************************************)
(* No valid frame in time: retried from the flush on while waiting for the *)
(* echo or the reply, an error while waiting after a pending reply.        *)
(***************************************************************************)
Timeout ==
  /\ pc \in {"echo", "reply", "pending"}
  /\ ~FrameReady
  /\ IF pc # "pending" /\ req.left > 0
       THEN /\ pc' = "flush"
            /\ req' = [req EXCEPT !.left = @ - 1]
            /\ UNCHANGED result
       ELSE Finish("failed", NoResult.frame) /\ UNCHANGED req
  /\ UNCHANGED <<cable, tolerant, rx, ecu, bridgeVars>>

-----------------------------------------------------------------------------
(***************************************************************************)
(* _burst_read ends at a silence or after its time; the burst is searched. *)
(* _extract_response: the positive service byte followed by the payload's  *)
(* first byte, else the service byte alone, against 7F and the service.    *)
(***************************************************************************)
At(Test(_)) == SelectInSeq(rx, Test)

PositiveAt ==
  LET exact(f) == Legible(f) /\ f.sort = "answer" /\ f.what = req.what
      alone(f) == Legible(f) /\ f.sort = "answer" /\ SameService(f.what, req.what)
  IN IF At(exact) > 0 THEN At(exact) ELSE At(alone)

NegativeAt ==
  LET negative(f) == /\ Legible(f)
                     /\ f.sort \in {"pending", "refusal"}
                     /\ SameService(f.what, req.what)
  IN At(negative)

ExtractResponse ==
  /\ pc = "burst"
  /\ req.what \in Services
  /\ rx' = <<>>
  /\ LET p == PositiveAt  n == NegativeAt
     IN IF p > 0 /\ (n = 0 \/ p <= n) THEN Interpret(rx[p])
        ELSE IF n > 0 THEN Interpret(rx[n])
        ELSE Finish("failed", NoResult.frame)
  /\ UNCHANGED <<cable, tolerant, req, ecu, bridgeVars>>

AfterEchoFound ==  \* mutant: without an echo the whole burst is searched
  LET echo(f) == Whole(f) /\ f.sort = "request" /\ f.no = req.no
  IN At(echo) + 1

AfterEcho ==
  LET echo(f) == Whole(f) /\ f.sort = "request" /\ f.no = req.no
  IN IF At(echo) > 0 THEN At(echo) + 1
     ELSE IF req.what = "functional" THEN 2 ELSE 1

LooksStarted(f) ==
  /\ Legible(f)
  /\ f.what \in Inits \ {"slow"}
  /\ \/ f.sort = "answer"
     \/ f.sort = "request" /\ f.what = "functional"

(* After a 5-baud address the answer must begin with 55 and the key bytes. *)
KeyBytes(f) == Legible(f) /\ f.sort = "answer" /\ f.what = "slow"

Starts ==
  IF req.what = "slow" THEN {k \in DOMAIN rx : k = 1 /\ KeyBytes(rx[k])}
  ELSE {k \in AfterEcho .. Len(rx) : LooksStarted(rx[k])}

FindStart ==
  /\ pc = "burst"
  /\ req.what \in Inits
  /\ rx' = <<>>
  /\ IF Starts = {} THEN Finish("failed", NoResult.frame)
     ELSE LET first == CHOOSE k \in Starts : \A j \in Starts : k <= j
          IN Finish("answered", rx[first])
  /\ UNCHANGED <<cable, tolerant, req, ecu, bridgeVars>>

-----------------------------------------------------------------------------
(***************************************************************************)
(* The control unit: announces that it needs time, answers or refuses, at  *)
(* any time, or never.  The node hears it only while it collects a burst;  *)
(* what reaches the adapter before the flush of a request is the same as   *)
(* nothing.                                                                *)
(***************************************************************************)
Hears(buffer, sort) ==
  /\ Len(buffer) < MaxWire[cable]
  /\ \E damage \in Damage :
       buffer' = Append(buffer, Frame(sort, Head(ecu).no, Head(ecu).what, damage))

EcuSends(sort) ==
  IF cable = "serial"
    THEN pc \notin {"idle", "pulse"} /\ Hears(rx, sort) /\ UNCHANGED uart
    ELSE relay /\ Hears(uart, sort) /\ UNCHANGED rx

EcuPending ==
  /\ ecu # <<>>
  /\ EcuSends("pending")
  /\ UNCHANGED <<cable, tolerant, pc, req, ecu, result, asked, relay>>

EcuReplies ==
  /\ ecu # <<>>
  /\ \E sort \in {"answer", "refusal"} : EcuSends(sort)
  /\ ecu' = Tail(ecu)
  /\ UNCHANGED <<cable, tolerant, pc, req, result, asked, relay>>

(* Or it answers when nobody listens. *)
EcuStaysSilent ==
  /\ ecu # <<>>
  /\ ecu' = Tail(ecu)
  /\ UNCHANGED <<cable, tolerant, pc, req, rx, result, bridgeVars>>

Tester ==
  \/ Pulse \/ FlushInput
  \/ Send \/ SendLine \/ LineTimesOut
  \/ ReadEcho \/ ReadReply \/ Timeout
  \/ ExtractResponse \/ FindStart

Node == NodeTransmits \/ NodeAnswers

Next == Begin \/ Tester \/ Node \/ EcuPending \/ EcuReplies \/ EcuStaysSilent

(***************************************************************************)
(* The tester runs: its reads return with a frame or at their deadline.    *)
(* Nothing is assumed of the control unit or of the node.                  *)
(***************************************************************************)
Spec == Init /\ [][Next]_vars /\ WF_vars(Tester)

-----------------------------------------------------------------------------
Frames == [sort : Sorts, no : 0 .. MaxRequests, what : Asked \union {"none"},
           damage : Damage]

Commands == [no : 1 .. MaxRequests, what : Asked]

TypeOK ==
  /\ cable \in Cables
  /\ tolerant \in BOOLEAN
  /\ pc \in {"idle", "pulse", "flush", "send", "line", "echo", "reply", "pending", "burst"}
  /\ req.what \in Inits => req.left = 0  \* "StartCommunication must be sent ONCE"
  /\ req \in [no : 0 .. MaxRequests, what : Asked \union {"none"},
              left : 0 .. Retries, pendings : 0 .. MaxPending, clean : BOOLEAN]
  /\ rx \in Seq(Frames)
  /\ ecu \in Seq(Commands)
  /\ asked \in Seq(Commands \union {Ping})
  /\ relay \in BOOLEAN
  /\ uart \in Seq(Frames)
  /\ result \in [status : {"none", "answered", "refused", "failed"}, frame : Frames]

(***************************************************************************)
(* A value is never that of another request, though replies are compared   *)
(* by service only and the first valid frame counts as the echo: provided  *)
(* no reply was outstanding when the request was made.                     *)
(***************************************************************************)
AnswerIsOwn ==
  result.status = "answered" /\ req.clean /\ req.what \in Services
    => result.frame.sort = "answer" /\ result.frame.no = req.no

(***************************************************************************)
(* An init that is reported as answered was answered by a control unit,    *)
(* and for this very init, if nothing was owed when it began: never by its *)
(* own echo, though a functional frame begins with the byte that says the  *)
(* session is open and its echo may come back damaged.                     *)
(***************************************************************************)
InitIsHeard ==
  result.status = "answered" /\ req.clean /\ req.what \in Inits
    => result.frame.sort # "request" /\ result.frame.no = req.no

(***************************************************************************)
(* Every request ends, also with a control unit that announces pending     *)
(* replies for ever.                                                       *)
(***************************************************************************)
RequestEnds == (pc # "idle") ~> (pc = "idle")

=============================================================================
