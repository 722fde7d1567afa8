---------------------------- MODULE RestCallProofs ----------------------------
(****************************************************************************)
(* The types of RestCall, what a status tells a caller of the execution of  *)
(* its call, that a call over the SSH tunnel reaches a service in one try   *)
(* at most, whatever is repeated, delayed or lost on the way, that the      *)
(* whole path of a call implements RepeatedCall, and that every argument    *)
(* of every call of a method or route takes its way to the service, as the  *)
(* tables of RestTables have it: the command is the one that the method of  *)
(* the same name of the WebSocket API would send.                           *)
(****************************************************************************)
EXTENDS RestCall, RestTables, SequenceTheorems, FiniteSetTheorems, WellFoundedInduction,
        TLAPS

USE RetriesAssumption, CallersAssumption

-----------------------------------------------------------------------------
(* Calls only grow, and what a ticket stands for stays what it is.          *)

LEMMA Tries == \A c : MaxTries(c) \in Nat
BY DEF MaxTries

LEMMA CallFacts ==
  ASSUME CallTypes, NEW c \in Callers
  PROVE  /\ call[c] \in [asked : Seq(Calls), try : Nat,
                         state : {"trying", "sent", "done"},
                         result : Statuses \cup Failures \cup {"none"}]
         /\ Number(c) \in Nat
<1>1. call[c] \in [asked : Seq(Calls), try : Nat, state : {"trying", "sent", "done"},
                   result : Statuses \cup Failures \cup {"none"}]
  BY DEF CallTypes
<1> QED
  BY <1>1, LenProperties DEF Number

\* What a step may do to the calls of a caller.
Grown(c) ==
    /\ Number(c)' \in Nat /\ Number(c)' >= Number(c)
    /\ \A n \in 1..Number(c) : call'[c].asked[n] = call[c].asked[n]

LEMMA ChoicesAreCalls == \A c : Choices(c) \subseteq Calls
BY DEF Choices, Menu, Joinable, Calls

LEMMA BeginCalls ==
  ASSUME TypeOK, NEW c \in Callers, Begin(c)
  PROVE  CallTypes' /\ OpenCalls' /\ \A d \in Callers : Grown(d)
<1>1. PICK k \in Calls :
         call' = [call EXCEPT ![c] =
                    [asked |-> Append(@.asked, k), try |-> 1,
                     state |-> IF MaxTries(c) = 0 THEN "done" ELSE "trying",
                     result |-> IF MaxTries(c) = 0 THEN "exhausted" ELSE "none"]]
  BY ChoicesAreCalls DEF Begin
<1>2. call \in [Callers -> [asked : Seq(Calls), try : Nat,
                            state : {"trying", "sent", "done"},
                            result : Statuses \cup Failures \cup {"none"}]]
  BY DEF TypeOK, CallTypes
<1>3. call[c].asked \in Seq(Calls)
  BY <1>2
<1>4. /\ Append(call[c].asked, k) \in Seq(Calls)
      /\ Len(Append(call[c].asked, k)) = Len(call[c].asked) + 1
      /\ Len(call[c].asked) \in Nat
      /\ \A n \in 1..Len(call[c].asked) : Append(call[c].asked, k)[n] = call[c].asked[n]
  BY <1>3, AppendProperties, LenProperties
<1>5. "exhausted" \in Failures
  BY DEF Failures
<1>6. /\ call'[c] = [asked |-> Append(call[c].asked, k), try |-> 1,
                     state |-> IF MaxTries(c) = 0 THEN "done" ELSE "trying",
                     result |-> IF MaxTries(c) = 0 THEN "exhausted" ELSE "none"]
      /\ \A d \in Callers : d # c => call'[d] = call[d]
      /\ DOMAIN call' = Callers
  BY <1>1, <1>2
<1>7. call' \in [Callers -> [asked : Seq(Calls), try : Nat,
                             state : {"trying", "sent", "done"},
                             result : Statuses \cup Failures \cup {"none"}]]
  BY <1>1, <1>2, <1>4, <1>5
<1>8. CallTypes'
  BY <1>7 DEF CallTypes
<1>9. OpenCalls'
  <2> SUFFICES ASSUME NEW d \in Callers, call'[d].state # "done"
               PROVE  Number(d)' > 0 /\ call'[d].try \in 1..MaxTries(d)
    BY DEF OpenCalls, MaxTries
  <2>1. CASE d = c
    BY <2>1, <1>4, <1>6, Tries DEF Number
  <2>2. CASE d # c
    BY <2>2, <1>6 DEF TypeOK, OpenCalls, Number
  <2> QED
    BY <2>1, <2>2
<1>10. ASSUME NEW d \in Callers PROVE Grown(d)
  <2>1. CASE d = c
    BY <2>1, <1>4, <1>6 DEF Grown, Number
  <2>2. CASE d # c
    BY <2>2, <1>6, CallFacts DEF Grown, Number, TypeOK
  <2> QED
    BY <2>1, <2>2
<1> QED
  BY <1>8, <1>9, <1>10

CallRecord == [asked : Seq(Calls), try : Nat, state : {"trying", "sent", "done"},
               result : Statuses \cup Failures \cup {"none"}]

\* The other steps of a client leave what it asked alone.
Moved(c, state, try, result) ==
    /\ call' \in [Callers -> CallRecord]
    /\ call'[c].asked = call[c].asked
    /\ call'[c].state = state /\ call'[c].try = try /\ call'[c].result = result
    /\ \A d \in Callers : d # c => call'[d] = call[d]

LEMMA MovedCalls ==
  ASSUME TypeOK, NEW c \in Callers, NEW state, NEW try, NEW result,
         call[c].state # "done", Moved(c, state, try, result),
         state # "done" => try \in 1..MaxTries(c)
  PROVE  CallTypes' /\ OpenCalls' /\ \A d \in Callers : Grown(d)
<1>1. CallTypes'
  BY DEF Moved, CallTypes, CallRecord
<1>2. Number(c)' = Number(c) /\ \A d \in Callers : d # c => Number(d)' = Number(d)
  BY DEF Moved, Number
<1>3. OpenCalls'
  <2> SUFFICES ASSUME NEW d \in Callers, call'[d].state # "done"
               PROVE  Number(d)' > 0 /\ call'[d].try \in 1..MaxTries(d)
    BY DEF OpenCalls, MaxTries
  <2>1. CASE d = c
    BY <2>1, <1>2 DEF Moved, TypeOK, OpenCalls
  <2>2. CASE d # c
    BY <2>2, <1>2 DEF Moved, TypeOK, OpenCalls
  <2> QED
    BY <2>1, <2>2
<1>4. ASSUME NEW d \in Callers PROVE Grown(d)
  BY <1>2, CallFacts DEF Grown, Moved, TypeOK
<1> QED
  BY <1>1, <1>3, <1>4

LEMMA Calling == TypeOK => call \in [Callers -> CallRecord]
BY DEF TypeOK, CallTypes, CallRecord

LEMMA TransmitMoves ==
  ASSUME TypeOK, NEW c \in Callers, Transmit(c)
  PROVE  Moved(c, "sent", call[c].try, call[c].result)
BY Calling DEF Transmit, Moved, CallRecord

LEMMA EndedMoves ==
  ASSUME TypeOK, NEW c \in Callers, NEW result \in Statuses \cup Failures,
         call' = Ended(c, result)
  PROVE  Moved(c, "done", call[c].try, result)
BY Calling DEF Ended, Moved, CallRecord

LEMMA RepeatedMoves ==
  ASSUME TypeOK, NEW c \in Callers, NEW result \in Statuses \cup Failures,
         call[c].state # "done", call' = Repeated(c, result)
  PROVE  \/ /\ call[c].try < MaxTries(c)
            /\ Moved(c, "trying", call[c].try + 1, call[c].result)
         \/ Moved(c, "done", call[c].try, result)
<1>1. CASE call[c].try < MaxTries(c)
  BY <1>1, Calling DEF Repeated, Moved, CallRecord
<1>2. CASE ~(call[c].try < MaxTries(c))
  BY <1>2, EndedMoves DEF Repeated
<1> QED
  BY <1>1, <1>2

\* Every step of a client that is under way ends its call, or is at a try.
LEMMA ClientMoves ==
  ASSUME TypeOK, NEW c \in Callers,
         Transmit(c) \/ Unreachable(c) \/ TimesOut(c) \/ BreaksOff(c) \/ Receive(c)
  PROVE  /\ call[c].state # "done"
         /\ \E state, try, result :
               Moved(c, state, try, result) /\ (state # "done" => try \in 1..MaxTries(c))
<1>1. call[c].state # "done" => call[c].try \in 1..MaxTries(c)
  BY DEF TypeOK, OpenCalls
<1>2. CASE Transmit(c)
  BY <1>1, <1>2, TransmitMoves DEF Transmit
<1> DEFINE Goes == \E state, try, result :
               Moved(c, state, try, result) /\ (state # "done" => try \in 1..MaxTries(c))
<1>3. ASSUME NEW result \in Statuses \cup Failures, call[c].state # "done",
             call' = Repeated(c, result) \/ call' = Ended(c, result)
      PROVE  Goes
  <2>1. CASE call' = Ended(c, result)
    BY <2>1, EndedMoves
  <2>2. CASE call' = Repeated(c, result)
    <3>1. CASE call[c].try < MaxTries(c) /\ Moved(c, "trying", call[c].try + 1, call[c].result)
      <4>1. call[c].try + 1 \in 1..MaxTries(c)
        BY <3>1, <1>3, <1>1, Tries
      <4> QED
        BY <3>1, <4>1
    <3>2. CASE Moved(c, "done", call[c].try, result)
      BY <3>2
    <3> QED
      BY <2>2, <3>1, <3>2, <1>3, RepeatedMoves
  <2> QED
    BY <1>3, <2>1, <2>2
<1>4. CASE Unreachable(c)
  BY <1>3, <1>4 DEF Unreachable, Failures
<1>5. CASE TimesOut(c) \/ BreaksOff(c)
  BY <1>3, <1>5 DEF TimesOut, BreaksOff, NoResponse, Waiting, Failures
<1>6. CASE Receive(c)
  <2>1. PICK p \in replies :
          /\ p.ticket = Ticket(c)
          /\ call' = IF c \in HttpCallers /\ p.status \in {"503", "504"}
                     THEN Repeated(c, "exhausted") ELSE Ended(c, p.status)
    BY <1>6 DEF Receive
  <2>2. p.status \in Statuses /\ "exhausted" \in Failures
    BY DEF TypeOK, ReplyOK, Failures
  <2>3. call[c].state # "done"
    BY <1>6 DEF Receive, Waiting
  <2> QED
    BY <2>1, <2>2, <2>3, <1>3
<1> QED
  BY <1>2, <1>4, <1>5, <1>6

LEMMA CallStep ==
  ASSUME TypeOK, [Next]_vars
  PROVE  CallTypes' /\ OpenCalls' /\ \A d \in Callers : Grown(d)
<1>1. CASE call' = call
  BY <1>1, CallFacts DEF TypeOK, CallTypes, OpenCalls, Grown, Number, MaxTries
<1>2. ASSUME NEW c \in Callers, Client(c)
      PROVE  CallTypes' /\ OpenCalls' /\ \A d \in Callers : Grown(d)
  BY <1>2, BeginCalls, ClientMoves, MovedCalls DEF Client
<1>3. CASE Server
  BY <1>1, <1>3 DEF Server, Refuse, Handle, Discard, Succeed, Fail, HandlerTimesOut,
                    LinkBreaks, GiveUp
<1>4. CASE Amarisoft
  BY <1>1, <1>4 DEF Amarisoft, Execute, Reject, Swallow
<1>5. CASE UNCHANGED vars
  BY <1>1, <1>5 DEF vars
<1> QED
  BY <1>2, <1>3, <1>4, <1>5 DEF Next

\* A ticket stands for the same call for ever.
LEMMA TicketsStay ==
  ASSUME CallTypes, \A d \in Callers : Grown(d), NEW t, TicketOK(t)
  PROVE  /\ TicketOK(t)'
         /\ What(t)' = What(t) /\ Plan(t)' = Plan(t) /\ Refusal(t)' = Refusal(t)
         /\ LastStep(t)' = LastStep(t) /\ \A i : StepOf(t, i)' = StepOf(t, i)
<1>1. t.by \in Callers /\ t.n \in 1..Number(t.by)
  BY DEF TicketOK
<1>2. t.n \in 1..Number(t.by)'
  BY <1>1, CallFacts DEF Grown
<1>3. What(t)' = What(t)
  BY <1>1 DEF Grown, What
<1> QED
  BY <1>2, <1>3 DEF TicketOK, MaxTries, Plan, Refusal, LastStep, StepOf

LEMMA OpenTicket ==
  ASSUME TypeOK, NEW c \in Callers, call[c].state # "done"
  PROVE  TicketOK(Ticket(c))
<1>1. Number(c) \in Nat /\ Number(c) > 0 /\ call[c].try \in 1..MaxTries(c)
  BY CallFacts DEF TypeOK, OpenCalls
<1> QED
  BY <1>1, Tries DEF TicketOK, Ticket

LEMMA AskedIsCall ==
  ASSUME TypeOK, NEW t, TicketOK(t)
  PROVE  What(t) \in Calls
<1>1. t.by \in Callers /\ t.n \in 1..Len(call[t.by].asked)
  BY DEF TicketOK, Number
<1>2. call[t.by].asked \in Seq(Calls)
  BY <1>1, CallFacts DEF TypeOK
<1> QED
  BY <1>1, <1>2, ElementOfSeq DEF What

-----------------------------------------------------------------------------
(* Types.                                                                   *)

LEMMA Verdicts == \A req : Verdict(req) \in {"404", "405", "422", "400", "none"}
BY DEF Verdict, VerdictFor, VerdictOf

LEMMA Refusals ==
  ASSUME TypeOK, NEW t, TicketOK(t)
  PROVE  Refusal(t) \in {"404", "405", "422", "400", "none"}
<1>1. PICK q \in Requests : What(t) = CallOf(q)
  BY AskedIsCall DEF Calls
<1>2. Refusal(t) = Handling(q.request).verdict
  BY <1>1 DEF Refusal, CallOf
<1> QED
  BY <1>2, Verdicts DEF Handling, RefusedWith, HandledBy

RepliesOK == \A p \in replies : ReplyOK(p)
OrdersOK  == \A o \in wire \cup executed : OrderOK(o)

LEMMA AnsweredTypes ==
  ASSUME TypeOK, call' = call, NEW t, TicketOK(t), NEW status \in Statuses,
         Answered(t, status)
  PROVE  RepliesOK'
<1>1. ReplyOK([ticket |-> t, status |-> status])
  BY DEF ReplyOK
<1>2. \A p : ReplyOK(p)' = ReplyOK(p)
  BY DEF ReplyOK, TicketOK, Number, MaxTries
<1> QED
  BY <1>1, <1>2 DEF Answered, RepliesOK, TypeOK

LEMMA StatusTypes ==
  ASSUME NEW t, NEW i, NEW status \in Statuses
  PROVE  StatusOf(t, i, status) \in Statuses
BY DEF StatusOf, Statuses

LEMMA OrderStays ==
  ASSUME CallTypes, \A d \in Callers : Grown(d), NEW o, OrderOK(o)
  PROVE  OrderOK(o)'
BY TicketsStay DEF OrderOK

\* A command that is sent, and the handler that waits for its answer.
LEMMA PerformTypes ==
  ASSUME TypeOK, call' = call, NEW t, TicketOK(t), NEW i \in Nat \ {0}, Perform(t, i)
  PROVE  /\ \A o \in wire' : o \in wire \/ OrderOK(o)
         /\ handler' # NoCall =>
               /\ handler' = [ticket |-> t, step |-> i, state |-> "waiting"]
               /\ OrderOK([ticket |-> t, step |-> i])
         /\ RepliesOK'
<1>1. CASE UNCHANGED wire /\ \E status \in Statuses : Reply(t, status)
  BY <1>1, AnsweredTypes DEF Reply
<1>2. CASE /\ i <= LastStep(t)
           /\ handler' = [ticket |-> t, step |-> i, state |-> "waiting"]
           /\ wire' = wire \cup {[ticket |-> t, step |-> i]}
           /\ UNCHANGED replies
  <2>2. OrderOK([ticket |-> t, step |-> i])
    BY <1>2 DEF OrderOK
  <2>3. RepliesOK'
    BY <1>2 DEF RepliesOK, TypeOK, ReplyOK, TicketOK, Number, MaxTries
  <2> QED
    BY <1>2, <2>2, <2>3
<1>3. {"200", "401", "500", "503", "504"} \subseteq Statuses
  BY DEF Statuses
<1> QED
  BY <1>1, <1>2, <1>3 DEF Perform

\* Everything but the handler: requests, commands, executions, responses.
NetOK == (\A t \in inbox : TicketOK(t)) /\ OrdersOK /\ RepliesOK

\* What was of its type before a step is afterwards; a step adds the rest.
LEMMA NetStep ==
  ASSUME TypeOK, [Next]_vars,
         \A t \in inbox' : t \in inbox \/ TicketOK(t)',
         \A o \in wire' \cup executed' : o \in wire \cup executed \/ OrderOK(o)',
         \A p \in replies' : p \in replies \/ ReplyOK(p)'
  PROVE  NetOK'
<1>1. \A t : TicketOK(t) => TicketOK(t)'
  BY CallStep, TicketsStay DEF TypeOK
<1>2. \A o : OrderOK(o) => OrderOK(o)'
  BY CallStep, OrderStays DEF TypeOK
<1>3. \A p : ReplyOK(p) => ReplyOK(p)'
  BY <1>1 DEF ReplyOK
<1> QED
  BY <1>1, <1>2, <1>3 DEF TypeOK, NetOK, OrdersOK, RepliesOK

LEMMA HandlerStep ==
  ASSUME TypeOK, [Next]_vars, handler' = handler
  PROVE  HandlerOK'
<1>1. \A o : OrderOK(o) => OrderOK(o)'
  BY CallStep, OrderStays DEF TypeOK
<1> QED
  BY <1>1 DEF TypeOK, HandlerOK, Current

LEMMA ClientTypes ==
  ASSUME TypeOK, NEW c \in Callers, Client(c)
  PROVE  HandlerOK' /\ NetOK'
<1>1. [Next]_vars
  BY DEF Next
<1>2. CASE UNCHANGED <<inbox, handler, wire, executed, replies>>
  BY <1>1, <1>2, NetStep, HandlerStep
<1>3. CASE Transmit(c)
  <2>2. inbox' = inbox \cup {Ticket(c)} /\ UNCHANGED <<handler, wire, executed, replies>>
    BY <1>3 DEF Transmit
  <2>3. \A t : TicketOK(t) => TicketOK(t)'
    BY <1>1, CallStep, TicketsStay DEF TypeOK
  <2>4. TicketOK(Ticket(c))
    BY <1>3, OpenTicket DEF Transmit
  <2> QED
    BY <1>1, <2>2, <2>3, <2>4, NetStep, HandlerStep
<1>4. CASE TimesOut(c) \/ BreaksOff(c)
  <2>1. replies' \subseteq replies /\ UNCHANGED <<inbox, handler, wire, executed>>
    BY <1>4 DEF TimesOut, BreaksOff, NoResponse
  <2> QED
    BY <1>1, <2>1, NetStep, HandlerStep
<1>5. CASE Receive(c)
  <2>1. replies' \subseteq replies /\ UNCHANGED <<inbox, handler, wire, executed>>
    BY <1>5 DEF Receive
  <2> QED
    BY <1>1, <2>1, NetStep, HandlerStep
<1> QED
  BY <1>2, <1>3, <1>4, <1>5 DEF Client, Begin, Unreachable

LEMMA PerformStep ==
  ASSUME TypeOK, [Next]_vars, call' = call, NEW t, TicketOK(t), NEW i \in Nat \ {0},
         Perform(t, i), inbox' \subseteq inbox, executed' = executed
  PROVE  HandlerOK' /\ NetOK'
<1>1. \A o : OrderOK(o) => OrderOK(o)'
  BY CallStep, OrderStays DEF TypeOK
<1>2. NetOK'
  BY <1>1, PerformTypes, NetStep DEF TypeOK, RepliesOK
<1>3. CASE handler' = NoCall
  BY <1>2, <1>3 DEF HandlerOK
<1>4. CASE handler' # NoCall
  <2>1. /\ handler' = [ticket |-> t, step |-> i, state |-> "waiting"]
        /\ OrderOK([ticket |-> t, step |-> i])
    BY <1>4, PerformTypes
  <2>2. Current' = [ticket |-> t, step |-> i]
    BY <2>1 DEF Current
  <2>3. OrderOK(Current)'
    BY <1>1, <2>1, <2>2
  <2> QED
    BY <1>2, <2>1, <2>3 DEF HandlerOK
<1> QED
  BY <1>2, <1>3, <1>4

LEMMA ReplyStep ==
  ASSUME TypeOK, [Next]_vars, call' = call, NEW t, TicketOK(t), NEW status \in Statuses,
         Answered(t, status), handler' = NoCall,
         inbox' \subseteq inbox, wire' = wire, executed' = executed
  PROVE  HandlerOK' /\ NetOK'
<1>1. NetOK'
  BY AnsweredTypes, NetStep DEF TypeOK, RepliesOK
<1> QED
  BY <1>1 DEF HandlerOK

LEMMA Codes ==
  /\ {"200", "400", "401", "404", "405", "422", "500", "503", "504"} \subseteq Statuses
  /\ \A t, i : \A status \in Statuses : StatusOf(t, i, status) \in Statuses
BY StatusTypes DEF Statuses

\* A handler's ticket and its step, while it runs.
LEMMA HandlerFacts ==
  ASSUME TypeOK, handler # NoCall
  PROVE  /\ TicketOK(handler.ticket) /\ handler.step \in Nat \ {0}
         /\ OrderOK(Current)
         /\ handler = [ticket |-> handler.ticket, step |-> handler.step,
                       state |-> handler.state]
         /\ handler.state \in {"waiting", "answered", "refused"}
BY DEF TypeOK, HandlerOK, OrderOK, Current

LEMMA ServerTypes ==
  ASSUME TypeOK, Server
  PROVE  HandlerOK' /\ NetOK'
<1>1. [Next]_vars
  BY DEF Next
<1>2. ASSUME NEW t \in inbox, Refuse(t) PROVE HandlerOK' /\ NetOK'
  <2>1. TicketOK(t) /\ Refusal(t) \in Statuses
    BY <1>2, Refusals, Codes DEF TypeOK, Refuse
  <2>2. /\ Answered(t, Refusal(t)) /\ handler' = NoCall /\ inbox' \subseteq inbox
        /\ wire' = wire /\ executed' = executed /\ call' = call
    BY <1>2 DEF Refuse
  <2> QED
    BY <1>1, <2>1, <2>2, ReplyStep
<1>3. ASSUME NEW t \in inbox, Handle(t) PROVE HandlerOK' /\ NetOK'
  <2>1. TicketOK(t) /\ 1 \in Nat \ {0}
    BY DEF TypeOK
  <2>2. Perform(t, 1) /\ inbox' \subseteq inbox /\ executed' = executed /\ call' = call
    BY <1>3 DEF Handle
  <2> QED
    BY <1>1, <2>1, <2>2, PerformStep
<1>4. ASSUME NEW t \in inbox, Discard(t) PROVE HandlerOK' /\ NetOK'
  <2>1. inbox' \subseteq inbox /\ UNCHANGED <<call, handler, wire, executed, replies>>
    BY <1>4 DEF Discard
  <2> QED
    BY <1>1, <2>1, NetStep, HandlerStep
<1>5. ASSUME NEW status \in Statuses, handler # NoCall,
             UNCHANGED <<call, inbox, executed>>,
             \/ Reply(handler.ticket, status) /\ UNCHANGED wire
             \/ Perform(handler.ticket, 2) /\ handler.step = 1
             \/ Perform(handler.ticket, handler.step + 1)
      PROVE  HandlerOK' /\ NetOK'
  <2>1. /\ TicketOK(handler.ticket) /\ handler.step \in Nat \ {0}
        /\ 2 \in Nat \ {0} /\ handler.step + 1 \in Nat \ {0}
    BY <1>5, HandlerFacts
  <2>2. CASE Reply(handler.ticket, status) /\ UNCHANGED wire
    BY <1>1, <1>5, <2>1, <2>2, ReplyStep DEF Reply
  <2>3. CASE Perform(handler.ticket, 2)
    BY <1>1, <1>5, <2>1, <2>3, PerformStep
  <2>4. CASE Perform(handler.ticket, handler.step + 1)
    BY <1>1, <1>5, <2>1, <2>4, PerformStep
  <2> QED
    BY <1>5, <2>2, <2>3, <2>4
<1>6. CASE Succeed
  BY <1>5, <1>6, Codes DEF Succeed, Running
<1>7. CASE Fail
  <2>1. StatusOf(handler.ticket, handler.step, "400") \in Statuses
    BY Codes
  <2> QED
    BY <1>5, <1>7, <2>1 DEF Fail, Running
<1>8. ASSUME NEW status \in {"500", "503", "504"}, GiveUp(status) PROVE HandlerOK' /\ NetOK'
  <2>1. StatusOf(handler.ticket, handler.step, status) \in Statuses
    BY Codes
  <2> QED
    BY <1>5, <1>8, <2>1 DEF GiveUp, Running
<1> QED
  BY <1>2, <1>3, <1>4, <1>6, <1>7, <1>8 DEF Server, HandlerTimesOut, LinkBreaks

LEMMA AmarisoftTypes ==
  ASSUME TypeOK, Amarisoft
  PROVE  HandlerOK' /\ NetOK'
<1>1. [Next]_vars
  BY DEF Next
<1>2. PICK o \in wire : Execute(o) \/ Reject(o) \/ Swallow(o)
  BY DEF Amarisoft
<1>3. NetOK'
  <2>1. /\ UNCHANGED <<call, inbox, replies>>
        /\ wire' \cup executed' \subseteq wire \cup executed
    BY <1>2 DEF Execute, Reject, Swallow
  <2> QED
    BY <1>1, <2>1, NetStep
<1>4. CASE handler' = handler
  BY <1>1, <1>3, <1>4, HandlerStep
<1>5. CASE handler' # handler
  <2>1. PICK state \in {"answered", "refused"} :
           handler # NoCall /\ handler' = [handler EXCEPT !.state = state]
    BY <1>2, <1>5 DEF Execute, Reject, Swallow, Running
  <2>2. handler' = [ticket |-> handler.ticket, step |-> handler.step, state |-> state]
    BY <2>1, HandlerFacts
  <2>3. OrderOK(Current)
    BY <2>1, HandlerFacts
  <2>4. OrderOK(Current)'
    <3>1. Current' = Current
      BY <2>2 DEF Current
    <3>2. \A o1 : OrderOK(o1) => OrderOK(o1)'
      BY <1>1, CallStep, OrderStays DEF TypeOK
    <3> QED
      BY <2>3, <3>1, <3>2
  <2> QED
    BY <1>3, <2>2, <2>4 DEF HandlerOK
<1> QED
  BY <1>3, <1>4, <1>5

LEMMA InitTypes == Init => TypeOK
<1> SUFFICES ASSUME Init PROVE TypeOK
  OBVIOUS
<1>1. CallTypes
  BY EmptySeq DEF Init, CallTypes
<1> QED
  BY <1>1 DEF Init, TypeOK, OpenCalls, HandlerOK

LEMMA TypeStep == TypeOK /\ [Next]_vars => TypeOK'
<1> SUFFICES ASSUME TypeOK, [Next]_vars PROVE TypeOK'
  OBVIOUS
<1>1. CallTypes' /\ OpenCalls'
  BY CallStep
<1>3. HandlerOK' /\ NetOK'
  BY ClientTypes, ServerTypes, AmarisoftTypes, NetStep, HandlerStep DEF Next, vars
<1> QED
  BY <1>1, <1>3 DEF TypeOK, NetOK, OrdersOK, RepliesOK

\* Every value is of its type: a call under way has a try within its tries, a
\* command belongs to a try that was made and to a step of its handler's plan.
THEOREM RestTypeCorrect == Spec => []TypeOK
<1> QED
  BY InitTypes, TypeStep, PTL DEF Spec

-----------------------------------------------------------------------------
(* Tries under way.                                                         *)

LEMMA LiveOK ==
  ASSUME TypeOK, NEW t \in Live
  PROVE  TicketOK(t)
<1>1. \A h \in {handler} \ {NoCall} : TicketOK(h.ticket)
  BY HandlerFacts
<1> QED
  BY <1>1 DEF TypeOK, OrderOK, Live

LEMMA ServerLive ==
  ASSUME TypeOK, Server \/ Amarisoft \/ UNCHANGED vars
  PROVE  Live' \subseteq Live /\ call' = call
<1>1. ASSUME NEW t \in Live, UNCHANGED call, inbox' \subseteq inbox, executed' = executed,
             \/ wire' = wire
             \/ \E i : wire' = wire \cup {[ticket |-> t, step |-> i]},
             handler' # NoCall => handler'.ticket \in Live
      PROVE  Live' \subseteq Live /\ call' = call
  BY <1>1 DEF Live
<1>2. ASSUME NEW t \in Live, UNCHANGED call, inbox' \subseteq inbox, executed' = executed,
             NEW i, Perform(t, i)
      PROVE  Live' \subseteq Live /\ call' = call
  <2>1. /\ \/ wire' = wire
           \/ \E j : wire' = wire \cup {[ticket |-> t, step |-> j]}
        /\ handler' # NoCall => handler'.ticket = t
    BY <1>2 DEF Perform, Reply
  <2> QED
    BY <1>1, <1>2, <2>1
<1>3. handler # NoCall => handler.ticket \in Live
  BY DEF Live
<1>4. ASSUME NEW t \in inbox, Refuse(t) \/ Handle(t) \/ Discard(t)
      PROVE  Live' \subseteq Live /\ call' = call
  <2>1. t \in Live
    BY DEF Live
  <2>2. CASE Refuse(t)
    BY <1>1, <2>1, <2>2 DEF Refuse
  <2>3. CASE Handle(t)
    BY <1>2, <2>1, <2>3 DEF Handle
  <2>4. CASE Discard(t)
    BY <1>1, <1>3, <2>1, <2>4 DEF Discard
  <2> QED
    BY <1>4, <2>2, <2>3, <2>4
<1>5. CASE Succeed \/ Fail \/ HandlerTimesOut \/ LinkBreaks
  <2>1. handler # NoCall /\ UNCHANGED <<call, inbox, executed>>
    BY <1>5 DEF Succeed, Fail, HandlerTimesOut, LinkBreaks, GiveUp, Running
  <2>2. \/ \E i : Perform(handler.ticket, i)
        \/ handler' = NoCall /\ UNCHANGED wire
    BY <1>5 DEF Succeed, Fail, HandlerTimesOut, LinkBreaks, GiveUp, Reply
  <2> QED
    BY <1>1, <1>2, <1>3, <2>1, <2>2
<1>6. ASSUME NEW o \in wire, Execute(o) \/ Reject(o) \/ Swallow(o)
      PROVE  Live' \subseteq Live /\ call' = call
  <2>1. handler' # NoCall => handler # NoCall /\ handler'.ticket = handler.ticket
    <3>1. \/ handler' = handler
          \/ handler # NoCall /\ \E state : handler' = [handler EXCEPT !.state = state]
      BY <1>6 DEF Execute, Reject, Swallow, Running
    <3> QED
      BY <3>1, HandlerFacts
  <2>2. /\ wire' \cup executed' \subseteq wire \cup executed
        /\ UNCHANGED <<inbox, call>>
    BY <1>6 DEF Execute, Reject, Swallow
  <2> QED
    BY <2>1, <2>2 DEF Live
<1>7. CASE UNCHANGED vars
  BY <1>7 DEF vars, Live
<1> QED
  BY <1>4, <1>5, <1>6, <1>7 DEF Server, Amarisoft

TriesInv == SentTries /\ OneTunnelledTry

\* What a step of a client does to its call and to the tries under way.
LEMMA ClientTries ==
  ASSUME TypeOK, TriesInv, NEW c \in Callers, Client(c)
  PROVE  TriesInv'
<1>1. \A t \in Live : TicketOK(t)
  BY LiveOK
<1>2. ASSUME Live' = Live, \A d \in Callers : d # c => call'[d] = call[d],
             \A t \in Live : t.by = c /\ t.n = Number(c)' =>
                /\ t.try <= call'[c].try
                /\ call'[c].state = "trying" => t.try < call'[c].try /\ c \notin SshCallers
                /\ c \in SshCallers => t.try = call'[c].try
      PROVE  TriesInv'
  BY <1>1, <1>2 DEF TriesInv, SentTries, OneTunnelledTry, Number, TicketOK, Of
<1>3. CASE Begin(c)
  <2>1. Live' = Live
    BY <1>3 DEF Begin, Live
  <2>2. \A d \in Callers : d # c => call'[d] = call[d]
    BY <1>3 DEF Begin, TypeOK, CallTypes
  <2>3. Number(c)' > Number(c) /\ Number(c) \in Nat /\ Number(c)' \in Nat
    <3>1. PICK k \in Calls : call'[c].asked = Append(call[c].asked, k)
      BY <1>3, ChoicesAreCalls DEF Begin, TypeOK, CallTypes
    <3>2. call[c].asked \in Seq(Calls)
      BY CallFacts DEF TypeOK
    <3> QED
      BY <3>1, <3>2, AppendProperties, LenProperties DEF Number
  <2>4. \A t \in Live : t.by = c => t.n <= Number(c) /\ t.n \in Nat
    BY <1>1, <2>3 DEF TicketOK
  <2> QED
    BY <1>2, <2>1, <2>2, <2>3, <2>4
<1>4. CASE Transmit(c)
  <2>1. Moved(c, "sent", call[c].try, call[c].result)
    BY <1>4, TransmitMoves
  <2>2. Number(c)' = Number(c)
    BY <2>1 DEF Moved, Number
  <2>3. Live' = Live \cup {Ticket(c)}
    BY <1>4 DEF Transmit, Live
  <2>4. /\ call[c].state = "trying" /\ call[c].try \in Nat
        /\ call'[c].state = "sent" /\ call'[c].try = call[c].try
        /\ \A d \in Callers : d # c => call'[d] = call[d]
    BY <1>4, <2>1, CallFacts DEF Transmit, Moved, TypeOK
  <2>5. \A t \in Live : t.by = c /\ t.n = Number(c) =>
            t.try < call[c].try /\ t.try \in Nat /\ c \notin SshCallers
    BY <1>1, <2>4 DEF TriesInv, SentTries, TicketOK
  <2>6. Ticket(c).by = c /\ Ticket(c).n = Number(c) /\ Ticket(c).try = call[c].try
    BY DEF Ticket
  <2>7. SentTries'
    BY <1>1, <2>2, <2>3, <2>4, <2>5, <2>6 DEF TriesInv, SentTries, Number, TicketOK
  <2>8. OneTunnelledTry'
    BY <2>3, <2>5, <2>6 DEF TriesInv, OneTunnelledTry, Of
  <2> QED
    BY <2>7, <2>8 DEF TriesInv
<1>5. ASSUME NEW state, NEW try, NEW result, Moved(c, state, try, result), Live' = Live,
             \/ state = "done" /\ try = call[c].try
             \/ /\ state = "trying" /\ try = call[c].try + 1
                /\ call[c].state = "trying" \/ c \in HttpCallers
      PROVE  TriesInv'
  <2>1. Number(c)' = Number(c) /\ call[c].try \in Nat
    BY <1>5, CallFacts DEF Moved, Number, TypeOK
  <2>2. \A t \in Live : t.by = c /\ t.n = Number(c) => t.try \in Nat
    BY <1>1 DEF TicketOK
  <2>3. c \in HttpCallers => c \notin SshCallers
    BY CallersAssumption
  <2> QED
    BY <1>2, <1>5, <2>1, <2>2, <2>3 DEF Moved, TriesInv, SentTries
<1>6. ASSUME NEW result \in Statuses \cup Failures, Live' = Live, call[c].state # "done",
             \/ call' = Ended(c, result)
             \/ /\ call' = Repeated(c, result)
                /\ call[c].state = "trying" \/ c \in HttpCallers
      PROVE  TriesInv'
  BY <1>5, <1>6, EndedMoves, RepeatedMoves
<1>7. CASE Unreachable(c)
  <2>1. Live' = Live /\ call[c].state = "trying" /\ call' = Repeated(c, "connection")
    BY <1>7 DEF Unreachable, Live
  <2>2. "connection" \in Statuses \cup Failures
    BY DEF Failures
  <2> QED
    BY <1>6, <2>1, <2>2
<1>8. CASE TimesOut(c) \/ BreaksOff(c)
  <2>1. /\ Live' = Live /\ call[c].state = "sent"
        /\ \/ c \in HttpCallers /\ call' = Repeated(c, "connection")
           \/ \E result \in Failures : call' = Ended(c, result)
    BY <1>8 DEF TimesOut, BreaksOff, NoResponse, Waiting, Live, Failures
  <2>2. "connection" \in Statuses \cup Failures
    BY DEF Failures
  <2> QED
    BY <1>6, <2>1, <2>2
<1>9. CASE Receive(c)
  <2>1. PICK p \in replies :
          call' = IF c \in HttpCallers /\ p.status \in {"503", "504"}
                  THEN Repeated(c, "exhausted") ELSE Ended(c, p.status)
    BY <1>9 DEF Receive
  <2>2. /\ Live' = Live /\ call[c].state = "sent"
        /\ p.status \in Statuses /\ "exhausted" \in Failures
    BY <1>9 DEF Receive, Waiting, Live, Failures, TypeOK, ReplyOK
  <2> QED
    BY <1>6, <2>1, <2>2
<1> QED
  BY <1>3, <1>4, <1>7, <1>8, <1>9 DEF Client

LEMMA TriesStep ==
  ASSUME TypeOK, TriesInv, [Next]_vars
  PROVE  TriesInv'
<1>1. CASE Server \/ Amarisoft \/ UNCHANGED vars
  BY <1>1, ServerLive DEF TriesInv, SentTries, OneTunnelledTry, Number, Of
<1> QED
  BY <1>1, ClientTries DEF Next

-----------------------------------------------------------------------------
(* What is served, executed and answered.                                   *)

OutcomeInv == ServedOnly /\ StatusesTrue

\* What a status says of a try stays true: the service never undoes anything.
LEMMA SaysStays ==
  ASSUME executed \subseteq executed', NEW t, NEW status,
         Plan(t)' = Plan(t), Refusal(t)' = Refusal(t), StepOf(t, 1)' = StepOf(t, 1),
         Says(t, status)
  PROVE  Says(t, status)'
BY DEF Says, Served

LEMMA SaysStaysOK ==
  ASSUME TypeOK, [Next]_vars, executed \subseteq executed', NEW t, TicketOK(t), NEW status,
         Says(t, status)
  PROVE  Says(t, status)'
BY CallStep, TicketsStay, SaysStays DEF TypeOK

LEMMA ServedStays ==
  ASSUME TypeOK, [Next]_vars, NEW t, TicketOK(t)
  PROVE  Served(t)' = Served(t)
BY CallStep, TicketsStay DEF TypeOK, Served

\* The results of the callers whose calls stay as they are.
LEMMA ResultsStay ==
  ASSUME StatusesTrue, executed \subseteq executed',
         NEW d \in Callers, call'[d] = call[d], call'[d].state = "done"
  PROVE  Says(Ticket(d), call[d].result)'
<1>1. Ticket(d)' = Ticket(d) /\ Ticket(d).by = d
  BY DEF Ticket, Number
<1>2. What(Ticket(d))' = What(Ticket(d))
  BY <1>1 DEF What
<1>3. Says(Ticket(d), call[d].result)
  BY DEF StatusesTrue
<1> QED
  BY <1>1, <1>2, <1>3 DEF Says, Served, Plan, Refusal, StepOf

\* A step that leaves the calls alone, executes what it likes, and answers at
\* most one try, with a status that is true.
LEMMA ServerStatuses ==
  ASSUME TypeOK, StatusesTrue, [Next]_vars, call' = call, executed \subseteq executed',
         NEW t, NEW status,
         \/ replies' = replies
         \/ TicketOK(t) /\ Answered(t, status) /\ Says(t, status)
  PROVE  StatusesTrue'
<1>1. \A u : Awaited(u)' = Awaited(u)
  BY DEF Awaited, Waiting, Ticket, Number
<1>2. \A p \in replies : Says(p.ticket, p.status)'
  BY SaysStaysOK DEF TypeOK, ReplyOK, StatusesTrue
<1>3. \A p \in replies' : Awaited(p.ticket)' /\ Says(p.ticket, p.status)'
  <2>1. CASE replies' = replies
    BY <2>1, <1>1, <1>2 DEF StatusesTrue
  <2>2. CASE TicketOK(t) /\ Answered(t, status) /\ Says(t, status)
    <3>1. Says(t, status)'
      BY <2>2, SaysStaysOK
    <3>2. \A p \in replies' : p \in replies \/ (p = [ticket |-> t, status |-> status] /\ Awaited(t))
      BY <2>2 DEF Answered
    <3> QED
      BY <3>1, <3>2, <1>1, <1>2 DEF StatusesTrue
  <2> QED
    BY <2>1, <2>2
<1>4. \A c \in Callers : call'[c].state = "done" => Says(Ticket(c), call[c].result)'
  BY ResultsStay
<1> QED
  BY <1>3, <1>4 DEF StatusesTrue

\* The commands of a step, and a handler it leaves.
LEMMA ServedStep ==
  ASSUME TypeOK, ServedOnly, [Next]_vars, executed \subseteq executed',
         \A o \in wire' \cup executed' :
            o \in wire \cup executed \/ (TicketOK(o.ticket) /\ Served(o.ticket)),
         handler' # NoCall =>
            /\ TicketOK(handler'.ticket) /\ Served(handler'.ticket)
            /\ handler'.state = "answered" => Current' \in executed'
  PROVE  ServedOnly'
<1>1. \A o \in wire \cup executed : TicketOK(o.ticket)
  BY DEF TypeOK, OrderOK
<1>2. \A t : TicketOK(t) => Served(t)' = Served(t)
  BY ServedStays
<1> QED
  BY <1>1, <1>2 DEF ServedOnly, Running

\* What a handler that performs its i-th step sends, or answers.
LEMMA PerformOutcome ==
  ASSUME TypeOK, OutcomeInv, [Next]_vars, call' = call, executed' = executed,
         NEW t, TicketOK(t), Refusal(t) = "none", NEW i, Perform(t, i),
         i = 1 \/ Served(t)
  PROVE  OutcomeInv'
<1>1. CASE \E status \in {"200", "401", "500", "503", "504"} :
              /\ Reply(t, status) /\ UNCHANGED wire
              /\ status = "200" => Plan(t) = "probe"
  <2>1. PICK status \in {"200", "401", "500", "503", "504"} :
              /\ Reply(t, status) /\ UNCHANGED wire
              /\ status = "200" => Plan(t) = "probe"
    BY <1>1
  <2>2. Says(t, status)
    BY <2>1 DEF Says, Refusing
  <2>3. StatusesTrue'
    BY <2>1, <2>2, ServerStatuses DEF Reply, OutcomeInv
  <2>4. ServedOnly'
    BY <2>1, ServedStep DEF Reply, OutcomeInv
  <2> QED
    BY <2>3, <2>4 DEF OutcomeInv
<1>2. CASE /\ i <= LastStep(t) /\ StepOf(t, i) # NoCall
           /\ handler' = [ticket |-> t, step |-> i, state |-> "waiting"]
           /\ wire' = wire \cup {[ticket |-> t, step |-> i]}
           /\ UNCHANGED replies
  <2>1. Served(t)
    BY <1>2 DEF Served
  <2>2. ServedOnly'
    BY <1>2, <2>1, ServedStep DEF OutcomeInv
  <2>3. StatusesTrue'
    BY <1>2, ServerStatuses DEF OutcomeInv
  <2> QED
    BY <2>2, <2>3 DEF OutcomeInv
<1> QED
  BY <1>1, <1>2 DEF Perform

\* A handler that answers.
LEMMA ReplyOutcome ==
  ASSUME TypeOK, OutcomeInv, [Next]_vars, call' = call, executed' = executed, wire' = wire,
         NEW t, TicketOK(t), NEW status, Answered(t, status), handler' = NoCall,
         Says(t, status)
  PROVE  OutcomeInv'
<1>1. StatusesTrue'
  BY ServerStatuses DEF OutcomeInv
<1>2. ServedOnly'
  BY ServedStep DEF OutcomeInv
<1> QED
  BY <1>1, <1>2 DEF OutcomeInv

LEMMA HandlerOutcome ==
  ASSUME TypeOK, OutcomeInv, Succeed \/ Fail \/ HandlerTimesOut \/ LinkBreaks
  PROVE  OutcomeInv'
<1> DEFINE t == handler.ticket
           i == handler.step
<1>1. [Next]_vars
  BY DEF Next, Server
<1>2. handler # NoCall /\ UNCHANGED <<call, inbox, executed>>
  BY DEF Succeed, Fail, HandlerTimesOut, LinkBreaks, GiveUp, Running
<1>3. TicketOK(t) /\ i \in Nat \ {0} /\ Served(t) /\ Refusal(t) = "none"
  BY <1>2, HandlerFacts DEF OutcomeInv, ServedOnly, Served
<1>4. ASSUME NEW status, Reply(t, status), UNCHANGED wire, Says(t, status)
      PROVE  OutcomeInv'
  BY <1>1, <1>2, <1>3, <1>4, ReplyOutcome DEF Reply
<1>5. ASSUME Perform(t, i + 1)
      PROVE  OutcomeInv'
  BY <1>1, <1>2, <1>3, <1>5, PerformOutcome
<1>6. CASE Succeed
  <2>1. Running({"answered"})
    BY <1>6 DEF Succeed
  <2>2. Says(t, "200")
    <3>1. Current \in executed /\ Current.ticket = t
      BY <2>1 DEF OutcomeInv, ServedOnly, Current
    <3> QED
      BY <3>1 DEF Says, Refusing
  <2>3. CASE Reply(t, "200") /\ UNCHANGED wire
    BY <2>2, <2>3, <1>4
  <2>4. CASE Perform(t, i + 1)
    BY <2>4, <1>5
  <2> QED
    BY <1>6, <2>3, <2>4 DEF Succeed
<1>7. CASE Fail
  <2>1. Says(t, StatusOf(t, i, "400"))
    BY DEF Says, StatusOf, Refusing
  <2>2. CASE Reply(t, StatusOf(t, i, "400")) /\ UNCHANGED wire
    BY <2>1, <2>2, <1>4
  <2>3. CASE Plan(t) = "fallback" /\ i = 1 /\ Perform(t, 2)
    BY <2>3, <1>5
  <2>4. CASE Plan(t) = "probe" /\ Perform(t, i + 1)
    BY <2>4, <1>5
  <2> QED
    BY <1>7, <2>2, <2>3, <2>4 DEF Fail
<1>8. ASSUME NEW status \in {"500", "503", "504"}, GiveUp(status)
      PROVE  OutcomeInv'
  <2>1. Says(t, StatusOf(t, i, status))
    BY <1>8 DEF Says, StatusOf, Refusing
  <2>2. CASE Reply(t, StatusOf(t, i, status)) /\ UNCHANGED wire
    BY <2>1, <2>2, <1>4
  <2>3. CASE Plan(t) = "probe" /\ Perform(t, i + 1)
    BY <2>3, <1>5
  <2> QED
    BY <1>8, <2>2, <2>3 DEF GiveUp
<1> QED
  BY <1>6, <1>7, <1>8 DEF HandlerTimesOut, LinkBreaks

LEMMA ServerOutcome ==
  ASSUME TypeOK, OutcomeInv, Server
  PROVE  OutcomeInv'
<1>1. [Next]_vars
  BY DEF Next
<1>2. ASSUME NEW t \in inbox, Refuse(t) PROVE OutcomeInv'
  <2>1. TicketOK(t) /\ Refusal(t) # "none" /\ Refusal(t) # "200"
    BY <1>2, Refusals DEF TypeOK, Refuse
  <2>2. Says(t, Refusal(t))
    BY <2>1 DEF Says, Served
  <2>3. /\ Answered(t, Refusal(t)) /\ handler' = NoCall
        /\ wire' = wire /\ executed' = executed /\ call' = call
    BY <1>2 DEF Refuse
  <2> QED
    BY <1>1, <2>1, <2>2, <2>3, ReplyOutcome
<1>3. ASSUME NEW t \in inbox, Handle(t) PROVE OutcomeInv'
  <2>1. TicketOK(t) /\ Refusal(t) = "none" /\ Perform(t, 1)
    BY <1>3 DEF TypeOK, Handle
  <2>2. executed' = executed /\ call' = call
    BY <1>3 DEF Handle
  <2> QED
    BY <1>1, <2>1, <2>2, PerformOutcome
<1>4. ASSUME NEW t \in inbox, Discard(t) PROVE OutcomeInv'
  <2>1. UNCHANGED <<call, handler, wire, executed, replies>> /\ handler = NoCall
    BY <1>4 DEF Discard
  <2>2. StatusesTrue'
    BY <1>1, <2>1, ServerStatuses DEF OutcomeInv
  <2>3. ServedOnly'
    BY <1>1, <2>1, ServedStep DEF OutcomeInv
  <2> QED
    BY <2>2, <2>3 DEF OutcomeInv
<1> QED
  BY <1>2, <1>3, <1>4, HandlerOutcome DEF Server

LEMMA AmarisoftOutcome ==
  ASSUME TypeOK, OutcomeInv, Amarisoft
  PROVE  OutcomeInv'
<1>1. [Next]_vars
  BY DEF Next
<1>2. PICK o \in wire : Execute(o) \/ Reject(o) \/ Swallow(o)
  BY DEF Amarisoft
<1>3. /\ UNCHANGED <<call, inbox, replies>> /\ executed \subseteq executed'
      /\ wire' \cup executed' \subseteq wire \cup executed
  BY <1>2 DEF Execute, Reject, Swallow
<1>4. StatusesTrue'
  BY <1>1, <1>3, ServerStatuses DEF OutcomeInv
<1>5. handler' # NoCall =>
          /\ handler # NoCall /\ handler'.ticket = handler.ticket
          /\ handler'.state = "answered" => Current' \in executed'
  <2>1. CASE handler' = handler
    BY <2>1, <1>3 DEF OutcomeInv, ServedOnly, Running, Current
  <2>2. CASE handler # NoCall /\ o = Current /\ o \in executed'
             /\ handler' = [handler EXCEPT !.state = "answered"]
    BY <2>2, HandlerFacts DEF Current
  <2>3. CASE handler # NoCall /\ handler' = [handler EXCEPT !.state = "refused"]
    BY <2>3, HandlerFacts
  <2> QED
    BY <1>2, <2>1, <2>2, <2>3 DEF Execute, Reject, Swallow, Running
<1>6. handler' # NoCall => TicketOK(handler'.ticket) /\ Served(handler'.ticket)
  BY <1>5, HandlerFacts DEF OutcomeInv, ServedOnly
<1>7. ServedOnly'
  BY <1>1, <1>3, <1>5, <1>6, ServedStep DEF OutcomeInv
<1> QED
  BY <1>4, <1>7 DEF OutcomeInv

\* A client leaves the service alone, and no response to itself behind.
LEMMA ClientReplies ==
  ASSUME TypeOK, StatusesTrue, NEW c \in Callers, Client(c)
  PROVE  /\ UNCHANGED <<handler, wire, executed>>
         /\ \A p \in replies' : p \in replies /\ p.ticket.by # c
<1>1. \A p \in replies : Waiting(p.ticket.by) /\ p.ticket = Ticket(p.ticket.by)
  BY DEF StatusesTrue, Awaited
<1>2. CASE ~Waiting(c) /\ UNCHANGED <<handler, wire, executed, replies>>
  BY <1>1, <1>2
<1>3. CASE /\ replies' = {p \in replies : p.ticket # Ticket(c)}
           /\ UNCHANGED <<handler, wire, executed>>
  BY <1>1, <1>3
<1> QED
  BY <1>2, <1>3 DEF Client, Begin, Transmit, Unreachable, TimesOut, BreaksOff, NoResponse,
                    Receive, Waiting

\* A result that a client gives its call is what a response said, or says nothing.
LEMMA ClientResult ==
  ASSUME TypeOK, StatusesTrue, NEW c \in Callers, Client(c), call'[c].state = "done"
  PROVE  Says(Ticket(c), call[c].result)'
<1>1. CASE call'[c].result \notin {"200"} \cup Refusing
  BY <1>1 DEF Says
<1>2. CASE Begin(c)
  <2>1. call'[c].result \in {"exhausted", "none"}
    BY <1>2, Calling DEF Begin, CallRecord
  <2> QED
    BY <1>1, <2>1 DEF Refusing
<1>3. CASE Transmit(c)
  BY <1>3, TransmitMoves DEF Moved
<1>4. ASSUME NEW result \in Failures, call[c].state # "done",
             call' = Repeated(c, result) \/ call' = Ended(c, result)
      PROVE  Says(Ticket(c), call[c].result)'
  <2>1. call'[c].result = result
    BY <1>4, EndedMoves, RepeatedMoves DEF Moved
  <2> QED
    BY <1>1, <2>1 DEF Failures, Refusing
<1>5. CASE Unreachable(c) \/ TimesOut(c) \/ BreaksOff(c)
  <2>1. call[c].state # "done"
    BY <1>5 DEF Unreachable, TimesOut, BreaksOff, NoResponse, Waiting
  <2>2. \E result \in Failures : call' = Repeated(c, result) \/ call' = Ended(c, result)
    BY <1>5 DEF Unreachable, TimesOut, BreaksOff, NoResponse, Failures
  <2> QED
    BY <2>1, <2>2, <1>4
<1>6. CASE Receive(c)
  <2>1. PICK p \in replies :
          /\ p.ticket = Ticket(c)
          /\ call' = IF c \in HttpCallers /\ p.status \in {"503", "504"}
                     THEN Repeated(c, "exhausted") ELSE Ended(c, p.status)
    BY <1>6 DEF Receive
  <2>2. call[c].state # "done" /\ executed' = executed
    BY <1>6 DEF Receive, Waiting
  <2>3. CASE call' = Repeated(c, "exhausted")
    BY <1>4, <2>2, <2>3 DEF Failures
  <2>4. CASE call' = Ended(c, p.status)
    <3>1. Moved(c, "done", call[c].try, p.status)
      BY <2>4, EndedMoves DEF TypeOK, ReplyOK
    <3>2. Ticket(c)' = Ticket(c) /\ call'[c].result = p.status
      BY <3>1 DEF Moved, Ticket, Number
    <3>3. Says(Ticket(c), p.status) /\ TicketOK(Ticket(c))
      BY <2>1, <2>2, OpenTicket DEF StatusesTrue
    <3>5. [Next]_vars
      BY DEF Next
    <3>6. \A t : TicketOK(t) /\ Says(t, p.status) => Says(t, p.status)'
      BY <2>2, <3>5, SaysStaysOK
    <3> QED
      BY <3>2, <3>3, <3>6
  <2> QED
    BY <2>1, <2>3, <2>4
<1> QED
  BY <1>2, <1>3, <1>5, <1>6 DEF Client

LEMMA ClientOutcome ==
  ASSUME TypeOK, OutcomeInv, NEW c \in Callers, Client(c)
  PROVE  OutcomeInv'
<1>1. [Next]_vars
  BY DEF Next
<1>2. /\ UNCHANGED <<handler, wire, executed>>
      /\ \A p \in replies' : p \in replies /\ p.ticket.by # c
  BY ClientReplies DEF OutcomeInv
<1>3. \A d \in Callers : d # c => call'[d] = call[d]
  <2>1. CASE Begin(c)
    BY <2>1, Calling DEF Begin
  <2>2. CASE ~Begin(c)
    BY <2>2, ClientMoves DEF Client, Moved
  <2> QED
    BY <2>1, <2>2
<1>4. ServedOnly'
  <2>1. handler # NoCall => /\ TicketOK(handler.ticket) /\ Served(handler.ticket)
                            /\ handler.state = "answered" => Current \in executed
    BY HandlerFacts DEF OutcomeInv, ServedOnly, Running
  <2>2. Current' = Current
    BY <1>2 DEF Current
  <2> QED
    BY <1>1, <1>2, <2>1, <2>2, ServedStep DEF OutcomeInv
<1>5. \A p \in replies' : Awaited(p.ticket)' /\ Says(p.ticket, p.status)'
  <2>1. ASSUME NEW p \in replies' PROVE Awaited(p.ticket)' /\ Says(p.ticket, p.status)'
    <3>1. /\ p \in replies /\ p.ticket.by # c /\ TicketOK(p.ticket)
          /\ Awaited(p.ticket) /\ Says(p.ticket, p.status)
      BY <1>2 DEF OutcomeInv, StatusesTrue, TypeOK, ReplyOK
    <3>2. call'[p.ticket.by] = call[p.ticket.by]
      BY <3>1, <1>3 DEF TicketOK
    <3>3. Awaited(p.ticket)'
      BY <3>1, <3>2 DEF Awaited, Waiting, Ticket, Number
    <3>4. Says(p.ticket, p.status)'
      BY <3>1, <1>1, <1>2, SaysStaysOK
    <3> QED
      BY <3>3, <3>4
  <2> QED
    BY <2>1
<1>6. \A d \in Callers : call'[d].state = "done" => Says(Ticket(d), call[d].result)'
  <2>1. ASSUME NEW d \in Callers, call'[d].state = "done"
        PROVE  Says(Ticket(d), call[d].result)'
    BY <1>2, <1>3, <2>1, ResultsStay, ClientResult DEF OutcomeInv
  <2> QED
    BY <2>1
<1> QED
  BY <1>4, <1>5, <1>6 DEF OutcomeInv, StatusesTrue

-----------------------------------------------------------------------------
(* Theorems.                                                                *)

LEMMA InitInv == Init => RestInv
<1> SUFFICES ASSUME Init PROVE RestInv
  OBVIOUS
<1>1. Live = {} /\ handler = NoCall /\ replies = {} /\ wire = {} /\ executed = {}
  BY DEF Init, Live
<1>2. \A c \in Callers : call[c].result = "none"
  BY DEF Init
<1> QED
  BY <1>1, <1>2 DEF RestInv, SentTries, OneTunnelledTry, ServedOnly, StatusesTrue,
                    Running, Says, Refusing

LEMMA InvStep == TypeOK /\ RestInv /\ [Next]_vars => RestInv'
<1> SUFFICES ASSUME TypeOK, RestInv, [Next]_vars PROVE RestInv'
  OBVIOUS
<1>1. TriesInv /\ OutcomeInv
  BY DEF RestInv, TriesInv, OutcomeInv
<1>2. TriesInv'
  BY <1>1, TriesStep
<1>3. CASE UNCHANGED vars
  <2>1. RestInv'
    BY <1>3 DEF vars, RestInv, SentTries, OneTunnelledTry, ServedOnly, StatusesTrue, Live,
                Number, Of, Says, Served, Refusal, StepOf, Plan, What, Running, Current,
                Awaited, Waiting, Ticket
  <2> QED
    BY <2>1
<1>4. CASE ~UNCHANGED vars
  <2>1. OutcomeInv'
    BY <1>1, <1>4, ClientOutcome, ServerOutcome, AmarisoftOutcome DEF Next
  <2> QED
    BY <1>2, <2>1 DEF RestInv, TriesInv, OutcomeInv
<1> QED
  BY <1>3, <1>4

\* The inductive invariant: every try under way was sent, what is answered was
\* executed, and a status that reaches a caller says what happened.
THEOREM RestInvAlways == Spec => []RestInv
<1> QED
  BY RestTypeCorrect, InitInv, InvStep, PTL DEF Spec

LEMMA AnswerFromInv == RestInv => AnswerMeansDone
BY DEF RestInv, StatusesTrue, AnswerMeansDone, Done, Says

\* What the caller of a method is told to be done was executed, in the very try
\* that was answered, for any number of callers, calls, tries and requests.
THEOREM AnswerMeansDoneCorrect == Spec => []AnswerMeansDone
<1> QED
  BY RestInvAlways, AnswerFromInv, PTL

LEMMA RefusedFromInv == TypeOK /\ RestInv => RefusedUntouched
<1> SUFFICES ASSUME TypeOK, RestInv, NEW c \in Callers, Done(c, Refusing),
                    NEW o \in wire \cup executed, Of(o.ticket, c, Number(c))
             PROVE  FALSE
  BY DEF RefusedUntouched
<1>1. ~Served(Ticket(c))
  BY DEF RestInv, StatusesTrue, Done, Says
<1>2. Served(o.ticket)
  BY DEF RestInv, ServedOnly
<1>3. What(o.ticket) = What(Ticket(c))
  BY DEF Of, What, Ticket
<1> QED
  BY <1>1, <1>2, <1>3 DEF Served, Refusal, StepOf

\* A call that is refused, for its path, verb or fields, touches nothing,
\* in none of its tries, and never will.
THEOREM RefusedUntouchedCorrect == Spec => []RefusedUntouched
<1> QED
  BY RestTypeCorrect, RestInvAlways, RefusedFromInv, PTL

LEMMA TunnelledFromInv == RestInv => TunnelledOnce
BY DEF RestInv, OneTunnelledTry, TunnelledOnce, Live

\* A call over the SSH tunnel reaches the services in one of its tries at most.
THEOREM TunnelledOnceCorrect == Spec => []TunnelledOnce
<1> QED
  BY RestInvAlways, TunnelledFromInv, PTL

-----------------------------------------------------------------------------
(* The whole path of a call over REST implements RepeatedCall: whatever is  *)
(* repeated, delayed, lost or executed late, a caller sees a call that is   *)
(* tried a bounded number of times and ends well, in a refusal or in doubt. *)
(* First, the state of the abstract call.                                   *)

numberOf  == [c \in Callers |-> Number(c)]
tryOf     == [c \in Callers |-> call[c].try]
outcomeOf == [c \in Callers |-> Outcome(c)]
ranOf     == {<<o.ticket.by, o.ticket.n, o.ticket.try>> : o \in executed}

LEMMA SameOutcome ==
  ASSUME NEW c \in Callers, call'[c] = call[c]
  PROVE  Number(c)' = Number(c) /\ Outcome(c)' = Outcome(c)
<1>1. Number(c)' = Number(c) /\ Ticket(c)' = Ticket(c)
  BY DEF Number, Ticket
<1>2. What(Ticket(c))' = What(Ticket(c))
  BY <1>1 DEF What, Ticket
<1> QED
  BY <1>1, <1>2 DEF Outcome, Done, Plan

LEMMA OpenOutcome ==
  ASSUME NEW c \in Callers
  PROVE  /\ Outcome(c) = "open" <=> call[c].state # "done"
         /\ Outcome(c) \in {"open", "none", "good", "refused", "doubt"}
         /\ Outcome(c) = "good" => Done(c, {"200"}) /\ Plan(Ticket(c)) # "probe"
         /\ Outcome(c) = "refused" => Done(c, Refusing)
BY DEF Outcome, Done

\* A step that leaves the calls alone, and executes nothing, is not seen.
LEMMA Unseen ==
  ASSUME call' = call, executed' = executed
  PROVE  UNCHANGED RC!vars
<1>1. \A c \in Callers : Number(c)' = Number(c) /\ Outcome(c)' = Outcome(c)
  BY SameOutcome
<1> QED
  BY <1>1 DEF RC!vars

\* A step of a client that is not seen either: it goes on with its try.
LEMMA StillOpen ==
  ASSUME TypeOK, NEW c \in Callers, NEW result, executed' = executed,
         call[c].state # "done", Moved(c, "sent", call[c].try, result)
  PROVE  UNCHANGED RC!vars
<1>1. \A d \in Callers : Number(d)' = Number(d) /\ call'[d].try = call[d].try
  BY DEF Moved, Number
<1>2. \A d \in Callers : Outcome(d)' = Outcome(d)
  <2> SUFFICES ASSUME NEW d \in Callers PROVE Outcome(d)' = Outcome(d)
    OBVIOUS
  <2>1. CASE d = c
    BY <2>1 DEF Outcome, Moved, Done
  <2>2. CASE d # c
    BY <2>2, SameOutcome DEF Moved
  <2> QED
    BY <2>1, <2>2
<1> QED
  BY <1>1, <1>2 DEF RC!vars
-----------------------------------------------------------------------------
(* The steps of the callers.                                                *)

LEMMA BeginStarts ==
  ASSUME TypeOK, NEW c \in Callers, Begin(c)
  PROVE  RC!Start(c)
<1>1. PICK k \in Calls :
         call' = [call EXCEPT ![c] =
                    [asked |-> Append(@.asked, k), try |-> 1,
                     state |-> IF MaxTries(c) = 0 THEN "done" ELSE "trying",
                     result |-> IF MaxTries(c) = 0 THEN "exhausted" ELSE "none"]]
  BY ChoicesAreCalls DEF Begin
<1>2. /\ call'[c] = [asked |-> Append(call[c].asked, k), try |-> 1,
                     state |-> IF MaxTries(c) = 0 THEN "done" ELSE "trying",
                     result |-> IF MaxTries(c) = 0 THEN "exhausted" ELSE "none"]
      /\ \A d \in Callers : d # c => call'[d] = call[d]
  BY <1>1, Calling
<1>3. call[c].asked \in Seq(Calls) /\ Number(c) \in Nat
  BY CallFacts DEF TypeOK
<1>4. Number(c)' = Number(c) + 1
  BY <1>2, <1>3, AppendProperties DEF Number
<1>5. Outcome(c)' = IF MaxTries(c) = 0 THEN "doubt" ELSE "open"
  BY <1>2, <1>3, <1>4 DEF Outcome, Done, Refusing
<1>6. \A d \in Callers : d # c =>
          Number(d)' = Number(d) /\ Outcome(d)' = Outcome(d) /\ call'[d] = call[d]
  BY <1>2, SameOutcome
<1>7. executed' = executed /\ Outcome(c) # "open"
  BY OpenOutcome DEF Begin
<1>8. /\ numberOf' = [numberOf EXCEPT ![c] = @ + 1]
      /\ tryOf' = [tryOf EXCEPT ![c] = 1]
      /\ outcomeOf' = [outcomeOf EXCEPT ![c] = IF MaxTries(c) = 0 THEN "doubt" ELSE "open"]
  <2>1. numberOf' = [numberOf EXCEPT ![c] = @ + 1]
    BY <1>4, <1>6 DEF numberOf
  <2>2. tryOf' = [tryOf EXCEPT ![c] = 1]
    <3>1. call'[c].try = 1 /\ \A d \in Callers : d # c => call'[d].try = call[d].try
      BY <1>2
    <3> QED
      BY <3>1 DEF tryOf
  <2>3. outcomeOf' = [outcomeOf EXCEPT ![c] = IF MaxTries(c) = 0 THEN "doubt" ELSE "open"]
    BY <1>5, <1>6 DEF outcomeOf
  <2> QED
    BY <2>1, <2>2, <2>3
<1> QED
  BY <1>7, <1>8 DEF RC!Start, numberOf, tryOf, outcomeOf

LEMMA MovesTryAgain ==
  ASSUME TypeOK, NEW c \in Callers, NEW result, executed' = executed,
         call[c].state # "done", call[c].try < MaxTries(c),
         Moved(c, "trying", call[c].try + 1, result)
  PROVE  RC!TryAgain(c)
<1>1. \A d \in Callers : Number(d)' = Number(d) /\ Outcome(d)' = Outcome(d)
  <2> SUFFICES ASSUME NEW d \in Callers
               PROVE  Number(d)' = Number(d) /\ Outcome(d)' = Outcome(d)
    OBVIOUS
  <2>1. CASE d = c
    BY <2>1 DEF Moved, Outcome, Number, Done
  <2>2. CASE d # c
    BY <2>2, SameOutcome DEF Moved
  <2> QED
    BY <2>1, <2>2
<1>2. Outcome(c) = "open"
  BY OpenOutcome
<1> QED
  BY <1>1, <1>2 DEF RC!TryAgain, Moved

\* What the invariant says of a call that has just ended.
LEMMA MovesEnd ==
  ASSUME TypeOK, TypeOK', RestInv', NEW c \in Callers, NEW result \in Statuses \cup Failures,
         executed' = executed, call[c].state # "done", Moved(c, "done", call[c].try, result)
  PROVE  \E how \in {"good", "refused", "doubt"} : RC!End(c, how)
<1>1. /\ Number(c)' = Number(c) /\ Number(c) \in Nat /\ Number(c) > 0
      /\ call'[c].try = call[c].try /\ call'[c].state = "done"
      /\ \A d \in Callers : d # c => call'[d] = call[d]
  BY CallFacts DEF Moved, Number, TypeOK, OpenCalls
<1>2. Outcome(c)' \in {"good", "refused", "doubt"}
  BY <1>1 DEF Outcome, Done, Moved, Statuses, Failures
<1>3. \A d \in Callers : d # c => Number(d)' = Number(d) /\ Outcome(d)' = Outcome(d)
  BY <1>1, SameOutcome
<1>4. AnswerMeansDone' /\ RefusedUntouched'
  BY AnswerFromInv, RefusedFromInv, PTL
<1>5. Outcome(c)' = "good" => <<c, Number(c), call[c].try>> \in ranOf
  <2> SUFFICES ASSUME Outcome(c)' = "good" PROVE <<c, Number(c), call[c].try>> \in ranOf
    OBVIOUS
  <2>1. Done(c, {"200"})' /\ (Plan(Ticket(c)) # "probe")'
    BY OpenOutcome DEF Outcome
  <2>2. PICK o \in executed : o.ticket = Ticket(c)'
    BY <1>4, <2>1 DEF AnswerMeansDone
  <2> QED
    BY <1>1, <2>2 DEF ranOf, Ticket
<1>6. Outcome(c)' = "refused" =>
          \A k \in 1..MaxTries(c) : <<c, Number(c), k>> \notin ranOf
  BY <1>1, <1>4 DEF Outcome, RefusedUntouched, ranOf, Of
<1>7. Outcome(c) = "open"
  BY OpenOutcome
<1> QED
  BY <1>1, <1>2, <1>3, <1>5, <1>6, <1>7 DEF RC!End, ranOf

LEMMA ClientRefines ==
  ASSUME TypeOK, TypeOK', RestInv, RestInv', NEW c \in Callers, Client(c)
  PROVE  RC!Next \/ UNCHANGED RC!vars
<1>1. executed' = executed
  BY ClientReplies DEF RestInv
<1>2. ASSUME NEW result \in Statuses \cup Failures, call[c].state # "done",
             call' = Repeated(c, result) \/ call' = Ended(c, result)
      PROVE  RC!Next
  <2>1. CASE Moved(c, "done", call[c].try, result)
    BY <1>1, <1>2, <2>1, MovesEnd DEF RC!Next
  <2>2. CASE /\ call[c].try < MaxTries(c)
             /\ Moved(c, "trying", call[c].try + 1, call[c].result)
    BY <1>1, <1>2, <2>2, MovesTryAgain DEF RC!Next
  <2> QED
    BY <1>2, <2>1, <2>2, EndedMoves, RepeatedMoves
<1>3. CASE Begin(c)
  BY <1>3, BeginStarts DEF RC!Next
<1>4. CASE Transmit(c)
  <2>1. Moved(c, "sent", call[c].try, call[c].result) /\ call[c].state # "done"
    BY <1>4, TransmitMoves DEF Transmit
  <2> QED
    BY <1>1, <2>1, StillOpen
<1>5. CASE Unreachable(c)
  BY <1>2, <1>5 DEF Unreachable, Failures
<1>6. CASE TimesOut(c) \/ BreaksOff(c)
  BY <1>2, <1>6 DEF TimesOut, BreaksOff, NoResponse, Waiting, Failures
<1>7. CASE Receive(c)
  <2>1. PICK p \in replies :
          call' = IF c \in HttpCallers /\ p.status \in {"503", "504"}
                  THEN Repeated(c, "exhausted") ELSE Ended(c, p.status)
    BY <1>7 DEF Receive
  <2>2. /\ p.status \in Statuses /\ "exhausted" \in Failures
        /\ call[c].state # "done"
    BY <1>7 DEF TypeOK, ReplyOK, Failures, Receive, Waiting
  <2> QED
    BY <1>2, <2>1, <2>2
<1> QED
  BY <1>3, <1>4, <1>5, <1>6, <1>7 DEF Client

-----------------------------------------------------------------------------
(* The steps of the services.                                               *)

LEMMA ExecuteRuns ==
  ASSUME TypeOK, RestInv, NEW o \in wire, Execute(o)
  PROVE  RC!Next \/ UNCHANGED RC!vars
<1> DEFINE t == o.ticket
           run == <<t.by, t.n, t.try>>
<1>1. call' = call /\ executed' = executed \cup {o}
  BY DEF Execute
<1>2. /\ TicketOK(t) /\ t \in Live
      /\ t.by \in Callers /\ t.n \in 1..Number(t.by) /\ t.try \in 1..MaxTries(t.by)
      /\ t = [by |-> t.by, n |-> t.n, try |-> t.try]
  BY DEF TypeOK, OrderOK, TicketOK, Live
<1>3. \A c \in Callers : Number(c)' = Number(c) /\ Outcome(c)' = Outcome(c)
  BY <1>1, SameOutcome
<1>4. ranOf' = ranOf \cup {run}
  BY <1>1 DEF ranOf
<1>5. CASE run \in ranOf
  BY <1>1, <1>3, <1>4, <1>5 DEF RC!vars, ranOf
<1>6. CASE run \notin ranOf
  <2>1. ASSUME t.n = Number(t.by)
        PROVE  /\ t.try <= call[t.by].try
               /\ Outcome(t.by) # "refused"
               /\ Outcome(t.by) = "good" => t.try < call[t.by].try
    <3>1. t.try <= call[t.by].try
      BY <1>2, <2>1 DEF RestInv, SentTries
    <3>2. Outcome(t.by) # "refused"
      BY <1>2, <2>1, RefusedFromInv, OpenOutcome DEF RefusedUntouched, Of
    <3>3. ASSUME Outcome(t.by) = "good" PROVE t.try # call[t.by].try
      <4>1. PICK e \in executed : e.ticket = Ticket(t.by)
        BY <1>2, <3>3, AnswerFromInv, OpenOutcome DEF AnswerMeansDone
      <4>2. <<t.by, Number(t.by), call[t.by].try>> \in ranOf
        BY <4>1 DEF ranOf, Ticket
      <4> QED
        BY <1>6, <2>1, <4>2
    <3>4. t.try \in Nat /\ call[t.by].try \in Nat
      BY <1>2, CallFacts DEF TicketOK, TypeOK
    <3> QED
      BY <3>1, <3>2, <3>3, <3>4
  <2>2. ASSUME t.by \in SshCallers, NEW j \in 1..MaxTries(t.by), <<t.by, t.n, j>> \in ranOf
        PROVE  j = t.try
    BY <2>2, TunnelledFromInv DEF TunnelledOnce, ranOf, Of
  <2>3. RC!Run(t.by, t.n, t.try)
    BY <1>1, <1>2, <1>3, <1>4, <2>1, <2>2 DEF RC!Run, ranOf
  <2> QED
    BY <1>2, <2>3 DEF RC!Next
<1> QED
  BY <1>5, <1>6

LEMMA StepRefines ==
  ASSUME TypeOK, TypeOK', RestInv, RestInv', [Next]_vars
  PROVE  RC!Next \/ UNCHANGED RC!vars
<1>1. CASE \E c \in Callers : Client(c)
  BY <1>1, ClientRefines
<1>2. CASE Server
  BY <1>2, Unseen DEF Server, Refuse, Handle, Discard, Succeed, Fail, HandlerTimesOut,
                      LinkBreaks, GiveUp
<1>3. CASE Amarisoft
  BY <1>3, Unseen, ExecuteRuns DEF Amarisoft, Reject, Swallow
<1>4. CASE UNCHANGED vars
  BY <1>4, Unseen DEF vars
<1> QED
  BY <1>1, <1>2, <1>3, <1>4 DEF Next

LEMMA InitRefines ==
  ASSUME Init
  PROVE  RC!Init
<1>1. \A c \in Callers :
         /\ call[c].try = 0 /\ call[c].state = "done" /\ call[c].result = "none"
         /\ Number(c) = 0
  BY EmptySeq DEF Init, Number
<1>2. \A c \in Callers : Outcome(c) = "none"
  BY <1>1 DEF Outcome, Done, Refusing
<1> QED
  BY <1>1, <1>2 DEF RC!Init, Init

\* The callers, the event loop, its handlers and the services together promise
\* what RepeatedCall does, for any number of callers, tries, calls and routes.
THEOREM RestRefines == Spec => ImplementsRepeatedCall
<1>1. TypeOK /\ TypeOK' /\ RestInv /\ RestInv' /\ [Next]_vars => [RC!Next]_RC!vars
  BY StepRefines
<1> QED
  BY <1>1, InitRefines, RestTypeCorrect, RestInvAlways, PTL
     DEF Spec, ImplementsRepeatedCall, RC!Spec

-----------------------------------------------------------------------------
(* What becomes of an argument, in the tables of RestTables and then in any *)
(* argument list. First what the operators of Forms make of one argument.   *)

LEMMA ValuesDiffer ==
  /\ \A p, v : Given(p) # Literal(v) /\ Zero(p) # Literal(v)
  /\ \A p : Given(p)[1] # "literal" /\ Zero(p)[1] # "literal" /\ ~Truthy(Zero(p))
  /\ \A u, v : Literal(u) = Literal(v) => u = v
  /\ \A v : Literal(v)[1] = "literal"
  /\ Truthy(Literal("True"))
BY DEF Given, Zero, Literal, Truthy

LEMMA ValueOfArgument ==
  ASSUME NEW args, ArgumentList(args), NEW a \in args
  PROVE  ValueOf(args, a[1]) = a[2]
BY DEF ArgumentList, ValueOf

LEMMA ArgumentNamed ==
  ASSUME NEW args, ArgumentList(args), NEW p \in Names(args)
  PROVE  /\ <<p, ValueOf(args, p)>> \in args
         /\ \A v : ValueOf(args, p) # Literal(v)
         /\ ValueOf(args, p)[1] # "literal"
<1>1. PICK a \in args : a[1] = p
  BY DEF Names
<1>2. a = <<a[1], a[2]>> /\ a[2] \in {Given(a[1]), Zero(a[1])}
  BY DEF ArgumentList
<1>3. ValueOf(args, p) = a[2]
  BY <1>1, ValueOfArgument
<1> QED
  BY <1>1, <1>2, <1>3, ValuesDiffer

\* A truthy argument that a form keeps is passed on, as it is or as a flag.
PassedOn(f, a) == <<NewName(f, a[1]), IF a[1] \in f.flags THEN Literal("True") ELSE a[2]>>

LEMMA KeptIsPassed ==
  ASSUME NEW f, NEW args, NEW a \in args, Truthy(a[2]), Keeps(f, a[1])
  PROVE  PassedOn(f, a) \in Passed(f, args)
BY DEF Keeps, Sends, Passed, PassedOn

LEMMA PlainPasses ==
  ASSUME NEW f, Plain(f)
  PROVE  \A a : Keeps(f, a[1]) /\ (a = <<a[1], a[2]>> => PassedOn(f, a) = a)
BY DEF Plain, Keeps, PassedOn, NewName

\* Every argument a form passes on is a fixed one, a default of its own or
\* one it was given.
LEMMA PassedFrom ==
  ASSUME NEW f, NEW args, NEW b \in Passed(f, args), f.fixed = {}
  PROVE  \E a \in args \cup f.presets :
            b = PassedOn(f, a) /\ (a[1] \in f.flags \cup f.drops => Truthy(a[2]))
BY DEF Passed, Sends, PassedOn

-----------------------------------------------------------------------------
(* Where a request lands.                                                   *)

LEMMA SlotNames ==
  ASSUME NEW path, NEW i \in DOMAIN path, IsSlot(path[i])
  PROVE  SlotAt(path, i) \in SlotsIn(path) /\ path[i] = SlotOf[SlotAt(path, i)]
<1>1. \E p \in DOMAIN SlotOf : path[i] = SlotOf[p]
  BY DEF IsSlot
<1>2. SlotAt(path, i) \in DOMAIN SlotOf /\ path[i] = SlotOf[SlotAt(path, i)]
  BY <1>1 DEF SlotAt
<1> QED
  BY <1>2 DEF SlotsIn

LEMMA LeastNumber ==
  ASSUME NEW S \in SUBSET Nat, S # {}
  PROVE  \E n \in S : \A m \in S : n <= m
<1> DEFINE less == {ss \in Nat \X Nat : ss[1] < ss[2]}
<1>1. IsWellFoundedOn(less, Nat)
  BY NatLessThanWellFounded DEF OpToRel
<1> HIDE DEF less
<1>2. PICK n \in S : \A m \in S : ~(<<m, n>> \in less)
  BY <1>1, WFMin
<1>3. ASSUME NEW m \in S PROVE n <= m
  <2>1. <<m, n>> \in Nat \X Nat /\ <<m, n>>[1] = m /\ <<m, n>>[2] = n
    OBVIOUS
  <2> QED
    BY <1>2, <2>1 DEF less
<1> QED
  BY <1>3

LEMMA Landed ==
  ASSUME NEW req, Verdict(req) = "none"
  PROVE  /\ RouteOf(req) \in AllRoutes /\ Serves(RouteOf(req), req)
         /\ ~Invalid(RouteOf(req), req)
<1> DEFINE hits == Hits(req)
<1>1. hits # {} /\ VerdictOf(First(hits), req) = "none"
  BY DEF Verdict, VerdictFor
<1>2. \A h \in hits : h[1] \in DOMAIN Routes /\ h[2] \in Routes[h[1]] /\ Serves(h[2], req)
  BY DEF Hits, Placed
<1>3. \E h \in hits : \A g \in hits : h[1] <= g[1]
  <2>1. {h[1] : h \in hits} \in SUBSET Nat /\ {h[1] : h \in hits} # {}
    BY <1>1, <1>2, RoutesAreListed
  <2>2. PICK n \in {h[1] : h \in hits} : \A m \in {h[1] : h \in hits} : n <= m
    BY <2>1, LeastNumber
  <2> QED
    BY <2>2
<1>4. PICK h \in hits : RouteOf(req) = h[2]
  BY <1>3 DEF RouteOf, First
<1> QED
  BY <1>1, <1>2, <1>4 DEF VerdictOf, RouteOf, AllRoutes

LEMMA FilledPath ==
  ASSUME NEW path, NEW args, path \in Seq(STRING)
  PROVE  /\ DOMAIN Filled(path, args) = DOMAIN path
         /\ Len(Filled(path, args)) = Len(path)
         /\ \A i \in DOMAIN path :
               Filled(path, args)[i] = IF IsSlot(path[i]) THEN ValueOf(args, SlotAt(path, i))
                                                          ELSE Literal(path[i])
<1>1. DOMAIN path = 1..Len(path) /\ Len(path) \in Nat
  BY LenProperties
<1>2. DOMAIN Filled(path, args) = DOMAIN path
  BY DEF Filled
<1>3. Len(Filled(path, args)) = Len(path)
  <2>1. Filled(path, args) \in Seq({Filled(path, args)[i] : i \in 1..Len(path)})
    BY <1>1, <1>2, SeqDef DEF Filled
  <2> QED
    BY <1>1, <1>2, <2>1, LenProperties
<1> QED
  BY <1>2, <1>3 DEF Filled

\* A request whose path has arguments in its slots lands only where the shape
\* of the path allows.
LEMMA ReachesRoute ==
  ASSUME NEW req, NEW r \in AllRoutes, Serves(r, req), ~Invalid(r, req),
         NEW path \in Seq(STRING), NEW args, ArgumentList(args),
         req.url = Filled(path, args), SlotsIn(path) \subseteq Names(args)
  PROVE  Reaches(req.verb, path, r)
<1>1. r.verb = req.verb /\ Len(r.path) = Len(path)
  BY FilledPath DEF Serves, PathMatches
<1>2. r.path \in Seq(STRING) /\ DOMAIN r.path = DOMAIN path
  BY <1>1, RoutesAreListed, LenProperties
<1> SUFFICES ASSUME NEW i \in DOMAIN path
             PROVE  IF IsSlot(path[i]) THEN IsSlot(r.path[i])
                    ELSE \/ r.path[i] = path[i]
                         \/ IsSlot(r.path[i]) /\ SlotAt(r.path, i) \in TextSlots
  BY <1>1 DEF Reaches
<1>3. IsSlot(r.path[i]) \/ req.url[i] = Literal(r.path[i])
  BY FilledPath DEF Serves, PathMatches
<1>4. CASE IsSlot(path[i])
  <2>1. req.url[i] = ValueOf(args, SlotAt(path, i)) /\ SlotAt(path, i) \in Names(args)
    BY <1>4, FilledPath, SlotNames
  <2> QED
    BY <2>1, <1>3, <1>4, ArgumentNamed
<1>5. CASE ~IsSlot(path[i])
  <2>1. req.url[i] = Literal(path[i])
    BY <1>5, FilledPath
  <2>2. IsSlot(r.path[i]) => SlotAt(r.path, i) \in TextSlots
    BY <2>1, <1>2, ValuesDiffer DEF Invalid
  <2> QED
    BY <2>1, <2>2, <1>3, <1>5, ValuesDiffer
<1> QED
  BY <1>4, <1>5

\* What the route receives for a slot is what the request has there.
LEMMA FromPathReceived ==
  ASSUME NEW req, NEW r \in AllRoutes,
         NEW path \in Seq(STRING), NEW args, ArgumentList(args),
         req.url = Filled(path, args), Reaches(req.verb, path, r),
         NEW a \in args, NEW n \in FromPath(path, r, a[1])
  PROVE  <<n, a[2]>> \in Received(r, req)
<1>1. PICK i \in DOMAIN path : /\ IsSlot(path[i]) /\ SlotAt(path, i) = a[1]
                               /\ n = SlotAt(r.path, i)
  BY DEF FromPath
<1>2. i \in DOMAIN r.path /\ IsSlot(r.path[i])
  BY <1>1, RoutesAreListed, LenProperties DEF Reaches
<1>3. req.url[i] = a[2]
  BY <1>1, FilledPath, ValueOfArgument
<1> QED
  BY <1>1, <1>2, <1>3 DEF Received

LEMMA QueryReceived ==
  ASSUME NEW req, NEW r, NEW b \in req.query, b[1] \in r.required \cup r.optional
  PROVE  b \in Received(r, req)
BY DEF Received

LEMMA BodyReceived ==
  ASSUME NEW req, NEW r, NEW b \in req.body, r.body # "none",
         r.open \/ b[1] \in r.asks \cup r.takes
  PROVE  b \in Received(r, req)
BY DEF Received

-----------------------------------------------------------------------------
(* Arrival: what a handler receives reaches the service.                    *)

\* The i-th call of a handler that makes one only.
OnlyCall(r, req, i) ==
    r.plan = "once" => i \in DOMAIN Steps(r, req) /\ StepCallable(r, req, i)

LEMMA OnlyStep ==
  ASSUME NEW req, NEW r, r.plan = "once", NEW i, i \in DOMAIN Steps(r, req)
  PROVE  /\ StepCommand(r, req, i) =
              Command(r.path[1], r.name, Passed(r, Received(r, req)))
         /\ StepCallable(r, req, i) =
              Callable(r.path[1], r.name, Passed(r, Received(r, req)))
<1>1. Steps(r, req) = <<<<r.name, Passed(r, Received(r, req))>>>>
  BY DEF Steps
<1>2. i = 1
  BY <1>1
<1> QED
  BY <1>1, <1>2 DEF StepCommand, StepCallable, ServiceOf

LEMMA MethodChosen ==
  ASSUME NEW svc, NEW name, NEW args, Callable(svc, name, args)
  PROVE  \E m \in MethodsNamed(svc, name) : \A any :
            Command(svc, name, any) =
              [service |-> svc, message |-> m.message, args |-> Stamped(Passed(m, any))]
BY DEF Callable, Command

\* An argument that a route receives as n, with its value or as a flag.
LEMMA DeliveredArrives ==
  ASSUME NEW req, NEW r, r.plan = "once", NEW i, OnlyCall(r, req, i),
         NEW a, Truthy(a[2]),
         NEW flags, NEW n, NEW v, <<n, v>> \in Received(r, req),
         v = IF a[1] \in flags THEN Literal("True") ELSE a[2],
         Delivers(flags, r, n, a[1])
  PROVE  Arrives(a, StepCommand(r, req, i))
<1> DEFINE rec  == Received(r, req)
           args == Passed(r, rec)
<1>1. PICK m \in MethodsNamed(r.path[1], r.name) :
         StepCommand(r, req, i).args = Stamped(Passed(m, args))
  BY OnlyStep, MethodChosen DEF OnlyCall
<1>2. /\ Keeps(r, n) /\ Keeps(m, NewName(r, n))
      /\ NewName(m, NewName(r, n)) # "message_id"
      /\ a[1] \in flags \/ n \in r.flags \/ NewName(r, n) \in m.flags
            => NewName(m, NewName(r, n)) = a[1]
  BY <1>1 DEF Delivers
<1> DEFINE b == <<n, v>>
           c == PassedOn(r, b)
           d == PassedOn(m, c)
<1>3. Truthy(b[2]) /\ b[1] = n
  BY ValuesDiffer
<1>4. c \in args
  BY <1>2, <1>3, KeptIsPassed
<1>5. /\ c[1] = NewName(r, n)
      /\ c[2] = IF n \in r.flags THEN Literal("True") ELSE v
      /\ Truthy(c[2])
  BY <1>3, ValuesDiffer DEF PassedOn
<1>6. d \in Passed(m, args)
  BY <1>2, <1>4, <1>5, KeptIsPassed
<1>7. /\ d[1] = NewName(m, NewName(r, n))
      /\ d[2] = IF NewName(r, n) \in m.flags THEN Literal("True") ELSE c[2]
      /\ d = <<d[1], d[2]>>
  BY <1>5 DEF PassedOn
<1> HIDE DEF b, c, d, rec, args
<1>8. d \in StepCommand(r, req, i).args
  BY <1>1, <1>2, <1>6, <1>7 DEF Stamped
<1>9. d[2] = a[2] \/ d = <<a[1], Literal("True")>>
  BY <1>2, <1>5, <1>7
<1> QED
  BY <1>8, <1>9 DEF Arrives

\* What an open body holds is passed on as it is.
LEMMA OpenArrives ==
  ASSUME NEW req, NEW r, r.plan = "once", NEW i, OnlyCall(r, req, i),
         NEW a, Truthy(a[2]), a = <<a[1], a[2]>>,
         a \in Received(r, req), a[1] # "message_id", Plain(r),
         \A m \in MethodsNamed(r.path[1], r.name) : Plain(m)
  PROVE  Arrives(a, StepCommand(r, req, i))
<1> DEFINE args == Passed(r, Received(r, req))
<1>1. PICK m \in MethodsNamed(r.path[1], r.name) :
         StepCommand(r, req, i).args = Stamped(Passed(m, args))
  BY OnlyStep, MethodChosen DEF OnlyCall
<1>2. a \in args
  BY PlainPasses, KeptIsPassed
<1>3. a \in Passed(m, args)
  BY <1>1, <1>2, PlainPasses, KeptIsPassed
<1> QED
  BY <1>1, <1>3 DEF Stamped, Arrives

-----------------------------------------------------------------------------
(* The request of a method of the HTTP client, and where it lands.          *)

LEMMA FormChosen ==
  ASSUME NEW q, NEW svc \in DOMAIN HttpMethods, NEW f \in HttpMethods[svc],
         ByMethod(q, svc, f)
  PROVE  \E g \in HttpMethods[svc] :
            /\ g.name = f.name /\ Fits(g, q.args)
            /\ g.when = {} => \A h \in HttpMethods[svc] :
                                 h.name = f.name /\ Fits(h, q.args) => h.when = {}
            /\ Parameters(g) = Parameters(f) /\ g.open = f.open
            /\ SlotsIn(PathOf(svc, g)) \subseteq Names(q.args)
            /\ q.request = RequestBy(g, svc, q.args)
<1> DEFINE all == {g \in HttpMethods[svc] : g.name = f.name}
           Fit(g) == Fits(g, q.args)
                     /\ (g.when = {} => \A h \in all : Fits(h, q.args) => h.when = {})
<1>1. \E g \in all : Fit(g)
  <2>1. PICK g \in all : g.when = {}
    BY FormForAnyArguments
  <2>2. Fits(g, q.args)
    BY <2>1 DEF Fits
  <2>3. CASE \E h \in all : Fits(h, q.args) /\ h.when # {}
    BY <2>3
  <2>4. CASE \A h \in all : Fits(h, q.args) => h.when = {}
    BY <2>1, <2>2, <2>4
  <2> QED
    BY <2>3, <2>4
<1>2. PICK g \in all : FormOf(svc, f.name, q.args) = g /\ Fit(g)
  BY <1>1 DEF FormOf, FormFor
<1>3. /\ Parameters(g) = Parameters(f) /\ g.open = f.open /\ g.required = f.required
      /\ SlotsIn(PathOf(svc, g)) \subseteq g.required \cup g.when
  BY <1>2, FormsOfOneMethod, PathsOfForms
<1>4. f.required \subseteq Names(q.args) /\ g.when \subseteq Names(q.args)
  BY <1>2 DEF ByMethod, Accepts, Fits
<1>5. q.request = RequestBy(g, svc, q.args)
  BY <1>2 DEF ByMethod, RequestOf
<1> QED
  BY <1>2, <1>3, <1>4, <1>5

\* The parts of a request of the form g.
Rest(g, args) == {a \in args : a[1] \notin SlotsIn(g.path) \ g.twice}

LEMMA RequestParts ==
  ASSUME NEW g, NEW svc, NEW args
  PROVE  LET req == RequestBy(g, svc, args)
         IN  /\ req.verb = g.verb /\ req.url = Filled(PathOf(svc, g), args)
             /\ req.query = IF g.where = "query" THEN Passed(g, Rest(g, args)) ELSE {}
             /\ req.body = IF g.where \in {"query", "nowhere"} THEN {}
                           ELSE Passed(g, Rest(g, args))
             /\ req.hasBody => g.where \in {"body", "bodyIfAny"}
BY DEF RequestBy, PathOf, Rest

LEMMA MethodLands ==
  ASSUME NEW svc \in DOMAIN HttpMethods, NEW g \in HttpMethods[svc],
         NEW args, ArgumentList(args), SlotsIn(PathOf(svc, g)) \subseteq Names(args),
         NEW req, req = RequestBy(g, svc, args), Verdict(req) = "none"
  PROVE  RouteOf(req) \in AllRoutes /\ MayServe(svc, g, RouteOf(req))
<1> DEFINE r == RouteOf(req)
<1>1. r \in AllRoutes /\ Serves(r, req) /\ ~Invalid(r, req)
  BY Landed
<1>2. PathOf(svc, g) \in Seq(STRING)
  BY PathsOfForms
<1>3. Reaches(g.verb, PathOf(svc, g), r)
  BY <1>1, <1>2, RequestParts, ReachesRoute
<1>4. Brings(g, r)
  <2>1. r.required \subseteq Names(req.query) /\ (r.body = "required" => req.hasBody)
    BY <1>1 DEF Invalid
  <2> QED
    BY <2>1, RequestParts DEF Brings, Names
<1> QED
  BY <1>1, <1>3, <1>4 DEF MayServe

LEMMA MethodArrives ==
  ASSUME NEW q, NEW svc \in DOMAIN HttpMethods, NEW f \in HttpMethods[svc],
         ByMethod(q, svc, f), NEW req, req = q.request, Verdict(req) = "none",
         NEW r, r = RouteOf(req), r.plan # "probe",
         NEW i, OnlyCall(r, req, i),
         NEW a \in q.args, Truthy(a[2]), ~ChosenInReply(q, a[1])
  PROVE  r.plan = "once" /\ Arrives(a, StepCommand(r, req, i))
<1>1. PICK g \in HttpMethods[svc] :
            /\ g.name = f.name /\ Fits(g, q.args)
            /\ g.when = {} => \A h \in HttpMethods[svc] :
                                 h.name = f.name /\ Fits(h, q.args) => h.when = {}
            /\ Parameters(g) = Parameters(f) /\ g.open = f.open
            /\ SlotsIn(PathOf(svc, g)) \subseteq Names(q.args)
            /\ q.request = RequestBy(g, svc, q.args)
  BY FormChosen
<1>2. /\ ArgumentList(q.args) /\ a = <<a[1], a[2]>> /\ q.name = g.name
      /\ g.open \/ Names(q.args) \subseteq Parameters(g)
      /\ a[1] \in Names(q.args)
  BY <1>1 DEF ByMethod, ArgumentList, Accepts, Names
<1>3. r \in AllRoutes /\ MayServe(svc, g, r)
  BY <1>1, <1>2, MethodLands
<1> DEFINE p == a[1]
<1>4. CASE p \in Parameters(g)
  <2>1. ~Spared(g.name, p)
    BY <1>2 DEF ChosenInReply, Spared
  <2>2. ~Elsewhere(svc, g, p)
    <3>1. CASE g.name = "ue_get" /\ p = "imsi" /\ g.when # {}
      <4>1. PICK id \in Parameters(g) \ {"imsi"} :
               g.when = {id} /\ Parameters(g) = {"imsi", id} /\ ~g.open
        BY <3>1, FormsOfUeGet
      <4>2. Names(q.args) = {"imsi", id}
        BY <4>1, <3>1, <1>1, <1>2 DEF Fits
      <4>3. Cardinality(Names(q.args)) = 2
        <5>1. IsFiniteSet({"imsi"}) /\ Cardinality({"imsi"}) = 1
          BY FS_Singleton
        <5>2. Names(q.args) = {"imsi"} \cup {id} /\ id \notin {"imsi"}
          BY <4>1, <4>2
        <5>3. Cardinality({"imsi"} \cup {id}) = Cardinality({"imsi"}) + 1
          BY <5>1, <5>2, FS_AddElement
        <5> QED
          BY <5>1, <5>2, <5>3
      <4> QED
        BY <4>3, <3>1, <1>2 DEF ChosenInReply
    <3>2. CASE g.when = {} /\ \E h \in HttpMethods[svc] : h.name = g.name /\ h.when = {p}
      BY <3>2, <1>1, <1>2 DEF Fits
    <3> QED
      BY <3>1, <3>2 DEF Elsewhere
  <2>3. PICK n \in FromMethod(svc, g, r, p) : r.plan = "once" /\ Delivers(g.flags, r, n, p)
    BY <1>3, <1>4, <2>1, <2>2, MethodsDeliver
  <2>4. CASE n \in FromPath(PathOf(svc, g), r, p)
    <3>1. <<n, a[2]>> \in Received(r, req)
      BY <2>4, <1>1, <1>2, <1>3, PathsOfForms, RequestParts, FromPathReceived
         DEF MayServe
    <3>2. Delivers({}, r, n, p)
      BY <2>3 DEF Delivers
    <3> QED
      BY <2>3, <3>1, <3>2, DeliveredArrives
  <2>5. ASSUME g.where \in {"query", "body", "bodyIfAny"}, Unfilled(g, p), Keeps(g, p)
        PROVE  PassedOn(g, a) \in Passed(g, Rest(g, q.args))
    <3>1. a \in Rest(g, q.args)
      BY <2>5 DEF Unfilled, Rest
    <3> QED
      BY <3>1, <2>5, KeptIsPassed
  <2>6. PassedOn(g, a)[1] = NewName(g, p)
    BY DEF PassedOn
  <2>7. CASE /\ n \in FromQuery(r, NewName(g, p)) /\ g.where = "query"
             /\ Unfilled(g, p) /\ Keeps(g, p)
    <3>1. PassedOn(g, a) \in req.query
      BY <2>5, <2>7, <1>1, RequestParts
    <3>2. n = NewName(g, p) /\ n \in r.required \cup r.optional
      BY <2>7 DEF FromQuery
    <3>3. PassedOn(g, a) \in Received(r, req)
      BY <3>1, <3>2, <2>6, QueryReceived
    <3> QED
      BY <3>2, <3>3, <2>3, DeliveredArrives DEF PassedOn
  <2>8. CASE /\ n \in FromBody(r, NewName(g, p)) /\ g.where \in {"body", "bodyIfAny"}
             /\ Unfilled(g, p) /\ Keeps(g, p)
    <3>1. PassedOn(g, a) \in req.body
      BY <2>5, <2>8, <1>1, RequestParts
    <3>2. n = NewName(g, p) /\ r.body # "none" /\ (r.open \/ n \in r.asks \cup r.takes)
      BY <2>8 DEF FromBody
    <3>3. PassedOn(g, a) \in Received(r, req)
      BY <3>1, <3>2, <2>6, BodyReceived
    <3> QED
      BY <3>2, <3>3, <2>3, DeliveredArrives DEF PassedOn
  <2> QED
    BY <2>3, <2>4, <2>7, <2>8 DEF FromMethod
<1>5. CASE p \notin Parameters(g)
  <2>1. /\ g.where = "body" /\ r.plan = "once" /\ r.body # "none" /\ r.open
        /\ Plain(g) /\ Plain(r)
        /\ \A m \in MethodsNamed(r.path[1], r.name) : Plain(m)
    BY <1>2, <1>3, <1>5, MethodsDeliver
  <2>2. p \notin SlotsIn(g.path)
    BY <1>5, PathsOfForms DEF Parameters
  <2>3. a \in req.body
    <3>1. a \in Rest(g, q.args)
      BY <2>2 DEF Rest
    <3>2. a \in Passed(g, Rest(g, q.args))
      BY <3>1, <2>1, <1>2, PlainPasses, KeptIsPassed
    <3> QED
      BY <3>2, <2>1, <1>1, RequestParts
  <2>4. a \in Received(r, req)
    BY <2>1, <2>3, BodyReceived
  <2>5. p # "message_id"
    BY DEF ChosenInReply
  <2> QED
    BY <2>1, <2>4, <2>5, <1>2, OpenArrives
<1> QED
  BY <1>4, <1>5

-----------------------------------------------------------------------------
(* The request to a route, and the route where it lands.                    *)

\* The fields of a request that go into its body.
InBodyOf(s, args) == IF s.open THEN Names(args) \ SlotsIn(s.path) ELSE s.asks \cup s.takes

LEMMA RouteParts ==
  ASSUME NEW s, NEW args
  PROVE  /\ RequestTo(s, s.path, args).verb = s.verb
         /\ RequestTo(s, s.path, args).url = Filled(s.path, args)
         /\ \A a \in args : /\ a[1] \in s.required \cup s.optional
                                 => a \in RequestTo(s, s.path, args).query
                            /\ a[1] \in InBodyOf(s, args)
                                 => a \in RequestTo(s, s.path, args).body
BY DEF RequestTo, InBodyOf

LEMMA ServiceNamed ==
  ASSUME NEW q, NEW s, ByRoute(q, s)
  PROVE  /\ q.request.verb = s.verb
         /\ \/ q.request.url = Filled(s.path, q.args)
            \/ \E v : q.request.url = [Filled(s.path, q.args) EXCEPT ![2] = v]
<1> DEFINE req == RequestTo(s, s.path, q.args)
<1>1. req.verb = s.verb /\ req.url = Filled(s.path, q.args)
  BY RouteParts
<1>2. CASE q.request = req
  BY <1>1, <1>2
<1>3. ASSUME NEW svc \in Services, q.request = [req EXCEPT !.url[2] = Literal(svc)]
      PROVE  /\ q.request.verb = req.verb
             /\ q.request.url = [req.url EXCEPT ![2] = Literal(svc)]
  <2>1. req = [verb |-> req.verb, url |-> req.url, query |-> req.query,
               body |-> req.body, hasBody |-> req.hasBody]
    BY DEF RequestTo
  <2> HIDE DEF req
  <2> QED
    BY <2>1, <1>3
<1> QED
  BY <1>1, <1>2, <1>3 DEF ByRoute

\* A request that names a service lands in a route that reports on services.
LEMMA ServiceRouteProbes ==
  ASSUME NEW q, NEW s \in AllRoutes, ByRoute(q, s), "service" \in SlotsIn(s.path),
         Verdict(q.request) = "none"
  PROVE  RouteOf(q.request).plan = "probe"
<1> DEFINE req == q.request
           r   == RouteOf(req)
           url == Filled(s.path, q.args)
<1>1. r \in AllRoutes /\ Serves(r, req)
  BY Landed
<1>2. req.verb = s.verb /\ (req.url = url \/ \E v : req.url = [url EXCEPT ![2] = v])
  BY ServiceNamed
<1>3. s.path \in Seq(STRING) /\ r.path \in Seq(STRING)
  BY <1>1, RoutesAreListed
<1>4. Len(s.path) > 1 /\ ~IsSlot(s.path[1]) /\ DOMAIN s.path = 1..Len(s.path)
  BY <1>3, ServicesProbe, LenProperties
<1>5. /\ DOMAIN url = DOMAIN s.path /\ Len(url) = Len(s.path)
      /\ url[1] = Literal(s.path[1])
  BY <1>3, <1>4, FilledPath
<1>6. /\ Len(req.url) = Len(url) /\ DOMAIN req.url = DOMAIN url
      /\ req.url[1] = Literal(s.path[1])
  <2>1. CASE req.url = url
    BY <2>1, <1>5
  <2>2. ASSUME NEW v, req.url = [url EXCEPT ![2] = v] PROVE <1>6!:
    <3>1. DOMAIN req.url = DOMAIN url /\ req.url[1] = url[1]
      BY <2>2, <1>4, <1>5
    <3>2. req.url \in [1..Len(s.path) -> {req.url[i] : i \in 1..Len(s.path)}]
      BY <3>1, <2>2, <1>4, <1>5
    <3>3. Len(s.path) \in Nat
      BY <1>3, LenProperties
    <3>4. req.url \in Seq({req.url[i] : i \in 1..Len(s.path)})
      BY <3>2, <3>3, SeqDef
    <3> QED
      BY <3>1, <3>3, <3>4, <1>4, <1>5, LenProperties
  <2> QED
    BY <1>2, <2>1, <2>2
<1>7. /\ r.verb = s.verb /\ Len(r.path) = Len(s.path)
      /\ IsSlot(r.path[1]) \/ r.path[1] = s.path[1]
  BY <1>1, <1>2, <1>4, <1>5, <1>6, ValuesDiffer DEF Serves, PathMatches
<1> QED
  BY <1>1, <1>7, ServicesProbe

LEMMA RouteArrives ==
  ASSUME NEW q, NEW s \in AllRoutes, ByRoute(q, s),
         NEW req, req = q.request, Verdict(req) = "none",
         NEW r, r = RouteOf(req), r.plan # "probe",
         NEW i, OnlyCall(r, req, i),
         NEW a \in q.args, Truthy(a[2]), ~ChosenInReply(q, a[1])
  PROVE  r.plan = "once" /\ Arrives(a, StepCommand(r, req, i))
<1>1. req = RequestTo(s, s.path, q.args)
  BY ServiceRouteProbes DEF ByRoute
<1>2. /\ ArgumentList(q.args) /\ a = <<a[1], a[2]>> /\ q.name = s.name
      /\ s.open \/ Names(q.args) \subseteq Asked(s) \cup Taken(s)
      /\ a[1] \in Names(q.args) /\ SlotsIn(s.path) \subseteq Names(q.args)
  BY DEF ByRoute, ArgumentList, Names, Asked
<1>3. req.verb = s.verb /\ req.url = Filled(s.path, q.args)
  BY <1>1, RouteParts
<1>4. s.path \in Seq(STRING)
  BY RoutesAreListed
<1>5. r \in AllRoutes /\ Reaches(s.verb, s.path, r)
  <2>1. r \in AllRoutes /\ Serves(r, req) /\ ~Invalid(r, req)
    BY Landed
  <2> QED
    BY <2>1, <1>2, <1>3, <1>4, ReachesRoute
<1> DEFINE p == a[1]
<1>6. CASE p \in Asked(s) \cup Taken(s)
  <2>1. ~Spared(s.name, p)
    BY <1>2 DEF ChosenInReply, Spared
  <2>2. PICK n \in FromRoute(s, r, p) : r.plan = "once" /\ Delivers({}, r, n, p)
    BY <1>5, <1>6, <2>1, RoutesDeliver
  <2>3. <<n, a[2]>> \in Received(r, req)
    <3>1. CASE n \in FromPath(s.path, r, p)
      BY <3>1, <1>2, <1>5, <1>3, <1>4, FromPathReceived
    <3>2. CASE n \in FromQuery(r, p) /\ p \in s.required \cup s.optional
      <4>1. a \in req.query /\ n = p /\ n \in r.required \cup r.optional
        BY <3>2, <1>1, RouteParts DEF FromQuery
      <4> QED
        BY <4>1, <1>2, QueryReceived
    <3>3. CASE /\ n \in FromBody(r, p)
               /\ IF s.open THEN p \notin SlotsIn(s.path) ELSE p \in s.asks \cup s.takes
      <4>1. a \in req.body
        BY <3>3, <1>1, <1>2, RouteParts DEF InBodyOf
      <4>2. n = p /\ r.body # "none" /\ (r.open \/ n \in r.asks \cup r.takes)
        BY <3>3 DEF FromBody
      <4> QED
        BY <4>1, <4>2, <1>2, BodyReceived
    <3> QED
      BY <3>1, <3>2, <3>3 DEF FromRoute
  <2> QED
    BY <2>2, <2>3, DeliveredArrives
<1>7. CASE p \notin Asked(s) \cup Taken(s)
  <2>1. /\ s.open /\ r.plan = "once" /\ r.body # "none" /\ r.open /\ Plain(r)
        /\ \A m \in MethodsNamed(r.path[1], r.name) : Plain(m)
    BY <1>2, <1>5, <1>7, RoutesDeliver
  <2>2. a \in req.body
    BY <2>1, <1>1, <1>2, <1>7, RouteParts DEF Asked, InBodyOf
  <2>3. a \in Received(r, req) /\ p # "message_id"
    BY <2>1, <2>2, BodyReceived DEF ChosenInReply
  <2> QED
    BY <2>1, <2>3, <1>2, OpenArrives
<1> QED
  BY <1>6, <1>7

-----------------------------------------------------------------------------
(* The same command: what a method of the HTTP client makes of the arguments *)
(* on the way to the method of its name of the WebSocket API.               *)

\* What reaches that method m: an argument as the caller gave it, a flag that
\* was truthy, or a falsy value that m does not send.
OfCaller(m, args, c) ==
    \/ c \in args
    \/ /\ c = <<c[1], Literal("True")>> /\ c[1] \in m.flags
       /\ \E a \in args : a[1] = c[1] /\ Truthy(a[2])
    \/ c[1] \in m.flags \cup m.drops /\ ~Truthy(c[2])

LEMMA SameArguments ==
  ASSUME NEW m, m.yields = {}, m.presets = {}, NEW args, NEW given,
         \A c \in given : OfCaller(m, args, c)
  PROVE  Passed(m, given) \subseteq Passed(m, args)
<1> SUFFICES ASSUME NEW e \in Passed(m, given)
             PROVE  e \in Passed(m, args)
  OBVIOUS
<1>1. CASE e \in m.fixed
  BY <1>1 DEF Passed
<1>2. ASSUME NEW c \in given, e = PassedOn(m, c), Sends(m, c, given)
      PROVE  e \in Passed(m, args)
  <2>1. CASE c \in args
    <3>1. Sends(m, c, args)
      BY <1>2 DEF Sends
    <3> QED
      BY <1>2, <2>1, <3>1 DEF Passed, PassedOn
  <2>2. ASSUME c = <<c[1], Literal("True")>>, c[1] \in m.flags,
               NEW a \in args, a[1] = c[1], Truthy(a[2])
        PROVE  e \in Passed(m, args)
    <3>1. Sends(m, a, args) /\ PassedOn(m, a) = PassedOn(m, c)
      BY <1>2, <2>2 DEF Sends, PassedOn
    <3> QED
      BY <1>2, <3>1 DEF Passed, PassedOn
  <2>3. ~(c[1] \in m.flags \cup m.drops /\ ~Truthy(c[2]))
    BY <1>2 DEF Sends
  <2> QED
    BY <2>1, <2>2, <2>3 DEF OfCaller
<1>3. e \in m.fixed \/ \E c \in given : e = PassedOn(m, c) /\ Sends(m, c, given)
  BY DEF Passed, PassedOn
<1> QED
  BY <1>1, <1>2, <1>3

\* The form g, the route r and the method m of one name.
LEMMA ReceivedOfCaller ==
  ASSUME NEW svc \in Services \cap DOMAIN HttpMethods, NEW g \in HttpMethods[svc],
         NEW r \in AllRoutes, MayServe(svc, g, r),
         NEW m \in MethodsNamed(svc, g.name),
         NEW args, ArgumentList(args), SlotsIn(PathOf(svc, g)) \subseteq Names(args),
         g.open \/ Names(args) \subseteq Parameters(g),
         NEW c \in Passed(r, Received(r, RequestBy(g, svc, args)))
  PROVE  OfCaller(m, args, c)
<1> DEFINE req == RequestBy(g, svc, args)
           path == PathOf(svc, g)
<1>1. /\ g.fixed = {} /\ g.presets = {} /\ r.fixed = {} /\ r.flags = {}
      /\ g.flags \subseteq m.flags
  BY MethodsAgree
<1>2. \A d \in r.presets : NewName(r, d[1]) \in m.flags \cup m.drops /\ ~Truthy(d[2])
  BY MethodsAgree
<1>3. \A p \in Parameters(g) : NewName(r, NewName(g, p)) = p
  BY MethodsAgree
<1>4. \A i \in DOMAIN r.path :
         IsSlot(r.path[i]) => IsSlot(path[i]) /\ NewName(r, SlotAt(r.path, i)) = SlotAt(path, i)
  BY MethodsAgree
<1>5. g.open => Plain(g) /\ Plain(r)
  BY MethodsAgree
<1>6. PICK b \in Received(r, req) \cup r.presets : c = PassedOn(r, b)
  BY <1>1, PassedFrom
<1>7. c = <<NewName(r, b[1]), b[2]>>
  BY <1>1, <1>6 DEF PassedOn
<1>8. CASE b \in r.presets
  BY <1>2, <1>7, <1>8 DEF OfCaller
<1>9. CASE \E i \in DOMAIN r.path : IsSlot(r.path[i]) /\ b = <<SlotAt(r.path, i), req.url[i]>>
  <2>1. PICK i \in DOMAIN r.path : IsSlot(r.path[i]) /\ b = <<SlotAt(r.path, i), req.url[i]>>
    BY <1>9
  <2>2. /\ path \in Seq(STRING) /\ i \in DOMAIN path
        /\ req.url = Filled(path, args)
    <3>1. path \in Seq(STRING)
      BY PathsOfForms
    <3>2. DOMAIN r.path = DOMAIN path
      BY <3>1, RoutesAreListed, LenProperties DEF MayServe, Reaches
    <3> QED
      BY <2>1, <3>1, <3>2, RequestParts
  <2>3. req.url[i] = ValueOf(args, SlotAt(path, i)) /\ SlotAt(path, i) \in Names(args)
    BY <2>1, <2>2, <1>4, FilledPath, SlotNames
  <2>4. <<SlotAt(path, i), req.url[i]>> \in args
    BY <2>3, ArgumentNamed
  <2>5. c = <<SlotAt(path, i), req.url[i]>>
    BY <2>1, <1>4, <1>7
  <2> QED
    BY <2>4, <2>5 DEF OfCaller
<1>10. CASE b \in req.query \cup req.body
  <2>1. b \in Passed(g, Rest(g, args))
    BY <1>10, RequestParts
  <2>2. PICK a \in args : b = PassedOn(g, a) /\ (a[1] \in g.flags => Truthy(a[2]))
    BY <2>1, <1>1, PassedFrom DEF Rest
  <2>3. a = <<a[1], a[2]>> /\ a[1] \in Names(args)
    BY DEF ArgumentList, Names
  <2>4. NewName(r, NewName(g, a[1])) = a[1]
    BY <1>3, <1>5, <2>3 DEF Plain, NewName
  <2>5. c = <<a[1], IF a[1] \in g.flags THEN Literal("True") ELSE a[2]>>
    BY <2>2, <2>4, <1>7 DEF PassedOn
  <2> QED
    BY <2>2, <2>3, <2>5, <1>1 DEF OfCaller
<1> QED
  BY <1>6, <1>8, <1>9, <1>10 DEF Received

LEMMA MethodSame ==
  ASSUME NEW q, NEW svc \in Services \cap DOMAIN HttpMethods, NEW f \in HttpMethods[svc],
         ByMethod(q, svc, f), NEW req, req = q.request, Verdict(req) = "none",
         NEW r, r = RouteOf(req), Callable(svc, q.name, q.args),
         NEW i, OnlyCall(r, req, i)
  PROVE  LET sent   == StepCommand(r, req, i)
             direct == Command(svc, q.name, q.args)
         IN  /\ r.plan = "once"
             /\ sent.service = direct.service /\ sent.message = direct.message
             /\ sent.args \subseteq direct.args
<1>1. PICK g \in HttpMethods[svc] :
            /\ g.name = f.name /\ Fits(g, q.args)
            /\ g.when = {} => \A h \in HttpMethods[svc] :
                                 h.name = f.name /\ Fits(h, q.args) => h.when = {}
            /\ Parameters(g) = Parameters(f) /\ g.open = f.open
            /\ SlotsIn(PathOf(svc, g)) \subseteq Names(q.args)
            /\ q.request = RequestBy(g, svc, q.args)
  BY FormChosen
<1>2. /\ ArgumentList(q.args) /\ q.name = g.name
      /\ g.open \/ Names(q.args) \subseteq Parameters(g)
  BY <1>1 DEF ByMethod, Accepts
<1>3. r \in AllRoutes /\ MayServe(svc, g, r)
  BY <1>1, <1>2, MethodLands
<1>4. PICK m \in MethodsNamed(svc, q.name) : \A any :
         Command(svc, q.name, any) =
            [service |-> svc, message |-> m.message, args |-> Stamped(Passed(m, any))]
  BY MethodChosen
<1>5. r.plan = "once" /\ r.path[1] = svc /\ r.name = q.name /\ m.yields = {} /\ m.presets = {}
  BY <1>2, <1>3, <1>4, MethodsAgree
<1> DEFINE given == Passed(r, Received(r, req))
<1>6. StepCommand(r, req, i) = Command(svc, q.name, given)
  BY <1>5, OnlyStep DEF OnlyCall
<1>7. \A c \in given : OfCaller(m, q.args, c)
  BY <1>1, <1>2, <1>3, <1>4, ReceivedOfCaller
<1>8. Passed(m, given) \subseteq Passed(m, q.args)
  BY <1>5, <1>7, SameArguments
<1> HIDE DEF given
<1>9. Stamped(Passed(m, given)) \subseteq Stamped(Passed(m, q.args))
  BY <1>8 DEF Stamped
<1>10. /\ Command(svc, q.name, given)
            = [service |-> svc, message |-> m.message, args |-> Stamped(Passed(m, given))]
       /\ Command(svc, q.name, q.args)
            = [service |-> svc, message |-> m.message, args |-> Stamped(Passed(m, q.args))]
  BY <1>4
<1> QED
  BY <1>5, <1>6, <1>9, <1>10

-----------------------------------------------------------------------------
(* Orders on the wire, and the calls and routes they come from.             *)

CallableOrders == \A o \in wire \cup executed : CommandOf(o) # NoCall

LEMMA NewOrders ==
  ASSUME TypeOK, [Next]_vars, NEW o \in wire' \cup executed', o \notin wire \cup executed
  PROVE  TicketOK(o.ticket) /\ CommandOf(o) # NoCall
<1>1. ASSUME NEW t, TicketOK(t), NEW i, Perform(t, i), executed' = executed
      PROVE  TicketOK(o.ticket) /\ CommandOf(o) # NoCall
  <2>1. o = [ticket |-> t, step |-> i] /\ StepOf(t, i) # NoCall
    BY <1>1 DEF Perform
  <2> QED
    BY <1>1, <2>1 DEF CommandOf
<1>2. ASSUME NEW t \in inbox, Handle(t) PROVE TicketOK(o.ticket) /\ CommandOf(o) # NoCall
  BY <1>1, <1>2 DEF Handle, TypeOK
<1>3. CASE Succeed \/ Fail \/ HandlerTimesOut \/ LinkBreaks
  <2>1. handler # NoCall /\ executed' = executed
    BY <1>3 DEF Succeed, Fail, HandlerTimesOut, LinkBreaks, GiveUp, Running
  <2>2. UNCHANGED wire \/ \E i : Perform(handler.ticket, i)
    BY <1>3 DEF Succeed, Fail, HandlerTimesOut, LinkBreaks, GiveUp
  <2> QED
    BY <1>1, <2>1, <2>2, HandlerFacts
<1>4. CASE \E c \in Callers : Client(c)
  BY <1>4 DEF Client, Begin, Transmit, Unreachable, TimesOut, BreaksOff, NoResponse, Receive
<1>5. CASE \E t \in inbox : Refuse(t) \/ Discard(t)
  BY <1>5 DEF Refuse, Discard
<1>6. CASE Amarisoft
  BY <1>6 DEF Amarisoft, Execute, Reject, Swallow
<1>7. CASE UNCHANGED vars
  BY <1>7 DEF vars
<1> QED
  BY <1>2, <1>3, <1>4, <1>5, <1>6, <1>7 DEF Next, Server

LEMMA CallableOrdersStep == TypeOK /\ CallableOrders /\ [Next]_vars => CallableOrders'
<1> SUFFICES ASSUME TypeOK, CallableOrders, [Next]_vars, NEW o \in wire' \cup executed'
             PROVE  CommandOf(o)' # NoCall
  BY DEF CallableOrders
<1>1. TicketOK(o.ticket) /\ CommandOf(o) # NoCall
  BY NewOrders DEF TypeOK, OrderOK, CallableOrders
<1>2. CommandOf(o)' = CommandOf(o)
  BY <1>1, CallStep, TicketsStay DEF TypeOK, CommandOf
<1> QED
  BY <1>1, <1>2

LEMMA CallableOrdersAlways == Spec => []CallableOrders
<1>1. Init => CallableOrders
  BY DEF Init, CallableOrders
<1> QED
  BY <1>1, RestTypeCorrect, CallableOrdersStep, PTL DEF Spec

\* Where an order comes from: a call the service takes, and its route.
LEMMA OrderFrom ==
  ASSUME TypeOK, ServedOnly, CallableOrders, NEW o \in wire \cup executed
  PROVE  \E q \in Requests :
            /\ What(o.ticket) = CallOf(q) /\ Verdict(q.request) = "none"
            /\ Plan(o.ticket) = RouteOf(q.request).plan
            /\ OnlyCall(RouteOf(q.request), q.request, o.step)
            /\ RouteOf(q.request).plan = "once"
                  => CommandOf(o) = StepCommand(RouteOf(q.request), q.request, o.step)
<1>1. TicketOK(o.ticket) /\ o.step \in Nat \ {0} /\ o.step <= LastStep(o.ticket)
  BY DEF TypeOK, OrderOK
<1>2. PICK q \in Requests : What(o.ticket) = CallOf(q)
  BY <1>1, AskedIsCall DEF Calls
<1> DEFINE req == q.request
           r   == RouteOf(req)
<1>3. Handling(req).verdict = "none" /\ What(o.ticket).handling = Handling(req)
  BY <1>2 DEF ServedOnly, Served, Refusal, CallOf
<1>4. Verdict(req) = "none" /\ Handling(req) = HandledBy(r, req)
  BY <1>3 DEF Handling, RefusedWith
<1>5. /\ Plan(o.ticket) = r.plan
      /\ What(o.ticket).handling.steps =
            [i \in DOMAIN Steps(r, req) |->
               IF StepCallable(r, req, i) THEN StepCommand(r, req, i) ELSE NoCall]
  BY <1>3, <1>4 DEF Plan, HandledBy
<1>6. ASSUME r.plan = "once"
      PROVE  /\ o.step \in DOMAIN Steps(r, req) /\ StepCallable(r, req, o.step)
             /\ CommandOf(o) = StepCommand(r, req, o.step)
  <2>1. DOMAIN Steps(r, req) = 1..1
    BY <1>6 DEF Steps
  <2>2. LastStep(o.ticket) = 1
    BY <2>1, <1>5 DEF LastStep
  <2>3. o.step \in DOMAIN Steps(r, req)
    BY <2>1, <2>2, <1>1
  <2>4. CommandOf(o) = IF StepCallable(r, req, o.step) THEN StepCommand(r, req, o.step)
                                                       ELSE NoCall
    BY <2>3, <1>5 DEF CommandOf, StepOf
  <2> QED
    BY <2>3, <2>4 DEF CallableOrders
<1> QED
  BY <1>2, <1>4, <1>5, <1>6 DEF OnlyCall

-----------------------------------------------------------------------------
\* The calls that a program can make: any arguments that a method or a route
\* has, in any number, each of them truthy or not.
AllRegular == \A q \in Requests : Regular(q)

LEMMA SameFromInv ==
  ASSUME AllRegular, TypeOK, ServedOnly, CallableOrders
  PROVE  SameCommand
<1> SUFFICES ASSUME NEW o \in wire \cup executed, What(o.ticket) \in DOMAIN Direct
             PROVE  LET direct == Direct[What(o.ticket)]
                    IN  /\ CommandOf(o).service = direct.service
                        /\ CommandOf(o).message = direct.message
                        /\ CommandOf(o).args \subseteq direct.args
  BY DEF SameCommand
<1>1. PICK q \in Requests :
            /\ What(o.ticket) = CallOf(q) /\ Verdict(q.request) = "none"
            /\ OnlyCall(RouteOf(q.request), q.request, o.step)
            /\ RouteOf(q.request).plan = "once"
                  => CommandOf(o) = StepCommand(RouteOf(q.request), q.request, o.step)
  BY OrderFrom
<1>2. /\ CallOf(q).via = q.via /\ CallOf(q).service = q.service
      /\ CallOf(q).name = q.name /\ CallOf(q).args = q.args
  BY DEF CallOf
<1>3. /\ q.via = "method" /\ q.service \in Services
      /\ Callable(q.service, q.name, q.args)
      /\ Direct[CallOf(q)] = Command(q.service, q.name, q.args)
  BY <1>1, <1>2 DEF Direct
<1>4. PICK svc \in DOMAIN HttpMethods : \E f \in HttpMethods[svc] : ByMethod(q, svc, f)
  BY <1>3 DEF AllRegular, Regular, ByRoute
<1>5. svc = q.service
  BY <1>4 DEF ByMethod
<1> DEFINE sent   == StepCommand(RouteOf(q.request), q.request, o.step)
           direct == Command(q.service, q.name, q.args)
<1>6. /\ RouteOf(q.request).plan = "once"
      /\ sent.service = direct.service /\ sent.message = direct.message
      /\ sent.args \subseteq direct.args
  BY <1>1, <1>3, <1>4, <1>5, MethodSame
<1>7. CommandOf(o) = sent /\ Direct[What(o.ticket)] = direct
  BY <1>1, <1>3, <1>6
<1> HIDE DEF sent, direct
<1> QED
  BY <1>6, <1>7

\* A method of the HTTP client and the method of its name of the WebSocket API
\* send the service the same command, whatever the arguments of the call are,
\* whoever else calls and whatever is repeated, delayed or lost on the way.
THEOREM SameCommandCorrect ==
  ASSUME AllRegular
  PROVE  Spec => []SameCommand
<1>1. TypeOK /\ RestInv /\ CallableOrders => SameCommand
  BY SameFromInv DEF RestInv
<1> QED
  BY <1>1, RestTypeCorrect, RestInvAlways, CallableOrdersAlways, PTL

LEMMA ArriveFromInv ==
  ASSUME AllRegular, TypeOK, ServedOnly, CallableOrders
  PROVE  ArgumentsArrive
<1> SUFFICES ASSUME NEW o \in wire \cup executed, NEW a \in What(o.ticket).args,
                    Truthy(a[2]), ~ChosenInReply(What(o.ticket), a[1]),
                    Plan(o.ticket) # "probe"
             PROVE  Arrives(a, CommandOf(o))
  BY DEF ArgumentsArrive
<1>1. PICK q \in Requests :
            /\ What(o.ticket) = CallOf(q) /\ Verdict(q.request) = "none"
            /\ Plan(o.ticket) = RouteOf(q.request).plan
            /\ OnlyCall(RouteOf(q.request), q.request, o.step)
            /\ RouteOf(q.request).plan = "once"
                  => CommandOf(o) = StepCommand(RouteOf(q.request), q.request, o.step)
  BY OrderFrom
<1>2. /\ CallOf(q).name = q.name /\ CallOf(q).args = q.args
  BY DEF CallOf
<1>3. a \in q.args /\ ~ChosenInReply(q, a[1])
  BY <1>1, <1>2 DEF ChosenInReply
<1> DEFINE r == RouteOf(q.request)
<1>4. r.plan = "once" /\ Arrives(a, StepCommand(r, q.request, o.step))
  <2>1. ASSUME NEW svc \in DOMAIN HttpMethods, NEW f \in HttpMethods[svc],
               ByMethod(q, svc, f)
        PROVE  <1>4!:
    BY <2>1, <1>1, <1>3, MethodArrives
  <2>2. ASSUME NEW s \in AllRoutes, ByRoute(q, s) PROVE <1>4!:
    BY <2>2, <1>1, <1>3, RouteArrives
  <2> QED
    BY <2>1, <2>2 DEF AllRegular, Regular
<1> QED
  BY <1>1, <1>4

\* Every argument that Python does not take for false reaches the service, in
\* every call of a method or route, with whatever other arguments.
THEOREM ArgumentsArriveCorrect ==
  ASSUME AllRegular
  PROVE  Spec => []ArgumentsArrive
<1>1. TypeOK /\ RestInv /\ CallableOrders => ArgumentsArrive
  BY ArriveFromInv DEF RestInv
<1> QED
  BY <1>1, RestTypeCorrect, RestInvAlways, CallableOrdersAlways, PTL
==============================================================================
