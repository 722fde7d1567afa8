------------------------------- MODULE RestCall -------------------------------
(****************************************************************************)
(* A call that crosses the whole REST path: a caller, through the HTTP      *)
(* client or through the SSH tunnel client, makes a request of the service; *)
(* the event loop of the service runs the blocking handlers one at a time;  *)
(* a handler sends one or two commands to an Amarisoft service over a       *)
(* WebSocket and waits for the answers. Each of the three gives up on its   *)
(* own: the caller's socket times out or breaks, the WebSocket does, and a  *)
(* request or command that nobody waits for any more may still be executed. *)
(****************************************************************************)
EXTENDS RestRequests, FiniteSets

CONSTANTS
    HttpCallers,    \* users of client.http: urllib3 repeats their requests
    SshCallers,     \* users of client.http_ssh, which has a loop of its own
    Requests,       \* the calls they make, and the request each makes
    HttpRetries,    \* the retries argument of client.http
    SshRetries,     \* the retries argument of client.http_ssh
    MaxCalls,       \* bound: calls of all callers together
    Mingled,        \* bound: calls made before, beside or after others
    NoCall          \* no call yet, no handler running

Callers == HttpCallers \cup SshCallers

ASSUME RetriesAssumption == HttpRetries \in Nat /\ SshRetries \in Nat
ASSUME CallersAssumption == HttpCallers \cap SshCallers = {}

VARIABLES
    call,       \* what each caller is doing
    inbox,      \* requests that reached the service, not yet handled
    handler,    \* the handler the event loop runs, or NoCall
    wire,       \* commands sent to the Amarisoft services
    executed,   \* commands they have executed
    replies     \* responses on their way to the callers

vars == <<call, inbox, handler, wire, executed, replies>>

-----------------------------------------------------------------------------
(* Calls, and what the service does with each.                              *)

\* What the service does with a request: it refuses it, or a handler performs
\* its steps, each a command, or NoCall where the call of the API raises.
RefusedWith(verdict) == [verdict |-> verdict, plan |-> "none", steps |-> << >>]
HandledBy(r, req) ==
    [verdict |-> "none", plan |-> r.plan,
     steps |-> [i \in DOMAIN Steps(r, req) |->
                  IF StepCallable(r, req, i) THEN StepCommand(r, req, i) ELSE NoCall]]
Handling(req) ==
    IF Verdict(req) # "none" THEN RefusedWith(Verdict(req)) ELSE HandledBy(RouteOf(req), req)

CallOf(q) == [via |-> q.via, service |-> q.service, name |-> q.name, args |-> q.args,
              handling |-> Handling(q.request)]
Calls    == {CallOf(q) : q \in Requests}
Joinable == {CallOf(q) : q \in Requests \cap Mingled}

\* The tries of a call: Retry(total=retries) repeats, range(retries) counts.
MaxTries(c) == IF c \in HttpCallers THEN HttpRetries + 1 ELSE SshRetries

\* How a call ends: with a status, or with an exception of the client.
Statuses == {"200", "400", "401", "404", "405", "422", "500", "503", "504"}
Failures == {"connection", "timeout", "exhausted"}

Number(c) == Len(call[c].asked)
Made == UNION {{c} \X DOMAIN call[c].asked : c \in Callers}
Ticket(c) == [by |-> c, n |-> Number(c), try |-> call[c].try]
What(t)   == call[t.by].asked[t.n]
Waiting(c) == call[c].state = "sent"
Awaited(t) == Waiting(t.by) /\ t = Ticket(t.by)

Init ==
    /\ call = [c \in Callers |->
                 [asked |-> << >>, state |-> "done", try |-> 0, result |-> "none"]]
    /\ inbox = {} /\ handler = NoCall /\ wire = {} /\ executed = {} /\ replies = {}

-----------------------------------------------------------------------------
(* The clients.                                                             *)

\* Users of client.http call its methods. The tunnel client has none: its users
\* name verb and path themselves, and so, we assume, a documented route.
Way(c) == IF c \in HttpCallers THEN "method" ELSE "route"

\* Bound: a call that is not one of Mingled is the only one of its run.
Menu ==
    CASE Made = {}                                                  -> Calls
      [] \E m \in Made : call[m[1]].asked[m[2]] \notin Joinable     -> {}
      [] OTHER                                                      -> Joinable
Choices(c) == {k \in Menu : k.via = Way(c)}

\* range(0) makes no try at all: "Request failed after retries".
Begin(c) ==
    /\ call[c].state = "done" /\ Cardinality(Made) < MaxCalls
    /\ \E k \in Choices(c) :
          call' = [call EXCEPT ![c] =
                     [asked |-> Append(@.asked, k), try |-> 1,
                      state |-> IF MaxTries(c) = 0 THEN "done" ELSE "trying",
                      result |-> IF MaxTries(c) = 0 THEN "exhausted" ELSE "none"]]
    /\ UNCHANGED <<inbox, handler, wire, executed, replies>>

Transmit(c) ==
    /\ call[c].state = "trying"
    /\ call' = [call EXCEPT ![c].state = "sent"]
    /\ inbox' = inbox \cup {Ticket(c)}
    /\ UNCHANGED <<handler, wire, executed, replies>>

Ended(c, result) == [call EXCEPT ![c].state = "done", ![c].result = result]

\* Mutation: an off-by-one in the count of the tries.
RepeatedOnceMore(c, result) ==
    IF call[c].try <= MaxTries(c)
    THEN [call EXCEPT ![c].state = "trying", ![c].try = @ + 1]
    ELSE Ended(c, result)

\* Mutation: the tries are not counted.
RepeatedForever(c, result) ==
    IF call[c].try < MaxTries(c)
    THEN [call EXCEPT ![c].state = "trying"]
    ELSE Ended(c, result)

\* A failed try is repeated while tries are left.
Repeated(c, result) ==
    IF call[c].try < MaxTries(c)
    THEN [call EXCEPT ![c].state = "trying", ![c].try = @ + 1]
    ELSE Ended(c, result)

\* Connecting or sending failed: urllib3 and the loop of HTTPOverSSHClient
\* (URLError) both try again.
Unreachable(c) ==
    /\ call[c].state = "trying"
    /\ call' = Repeated(c, "connection")
    /\ UNCHANGED <<inbox, handler, wire, executed, replies>>

\* Mutation: the tunnel client repeats what it has sent.
NoResponseRepeats(c, result) ==
    /\ Waiting(c)
    /\ call' = Repeated(c, "connection")
    /\ replies' = {p \in replies : p.ticket # Ticket(c)}
    /\ UNCHANGED <<inbox, handler, wire, executed>>

\* No response: the read timed out or the connection broke. urllib3 counts
\* both as read errors and repeats every method of allowed_methods;
\* HTTPOverSSHClient raises.
NoResponse(c, result) ==
    /\ Waiting(c)
    /\ call' = IF c \in HttpCallers THEN Repeated(c, "connection")
                                    ELSE Ended(c, result)
    /\ replies' = {p \in replies : p.ticket # Ticket(c)}
    /\ UNCHANGED <<inbox, handler, wire, executed>>

TimesOut(c)  == NoResponse(c, "timeout")
BreaksOff(c) == NoResponse(c, "connection")

\* 503 and 504 are in status_forcelist; an exhausted Retry raises.
Receive(c) ==
    /\ Waiting(c)
    /\ \E p \in replies :
        /\ p.ticket = Ticket(c)
        /\ replies' = {q \in replies : q.ticket # Ticket(c)}
        /\ call' = IF c \in HttpCallers /\ p.status \in {"503", "504"}
                   THEN Repeated(c, "exhausted") ELSE Ended(c, p.status)
        /\ UNCHANGED <<inbox, handler, wire, executed>>

-----------------------------------------------------------------------------
(* The service: one event loop, and handlers that block it.                 *)

Refusal(t)     == What(t).handling.verdict
Plan(t)        == What(t).handling.plan
LastStep(t)    == Len(What(t).handling.steps)
StepOf(t, i)   == What(t).handling.steps[i]     \* a command, or NoCall

\* A response finds its caller, or a socket that was closed.
Answered(t, status) ==
    replies' = IF Awaited(t) THEN replies \cup {[ticket |-> t, status |-> status]}
                             ELSE replies
Reply(t, status)    == handler' = NoCall /\ Answered(t, status)

\* Routing, validation and conversion answer without a handler's call.
Refuse(t) ==
    /\ handler = NoCall /\ t \in inbox /\ Refusal(t) # "none"
    /\ inbox' = inbox \ {t}
    /\ Answered(t, Refusal(t))
    /\ UNCHANGED <<call, handler, wire, executed>>

\* The i-th call of a handler: _ensure_client connects or raises, the method
\* is looked up and its arguments are bound, the command is sent. An OSError of
\* the WebSocket, an AttributeError and a TypeError are all 500. A probe
\* swallows every exception, and sends nothing to a service not connected.
Perform(t, i) ==
    \/ /\ IF Plan(t) = "probe" THEN Reply(t, "200")
          ELSE \E status \in {"401", "500", "503", "504"} : Reply(t, status)
       /\ UNCHANGED wire
    \/ /\ i <= LastStep(t) /\ StepOf(t, i) # NoCall
       /\ handler' = [ticket |-> t, step |-> i, state |-> "waiting"]
       /\ wire' = wire \cup {[ticket |-> t, step |-> i]}
       /\ UNCHANGED replies

Handle(t) ==
    /\ handler = NoCall /\ t \in inbox /\ Refusal(t) = "none"
    /\ inbox' = inbox \ {t}
    /\ Perform(t, 1)
    /\ UNCHANGED <<call, executed>>

\* The server drops a request whose client has gone before its turn.
Discard(t) ==
    /\ handler = NoCall /\ t \in inbox /\ ~Awaited(t)
    /\ inbox' = inbox \ {t}
    /\ UNCHANGED <<call, handler, wire, executed, replies>>

Current == [ticket |-> handler.ticket, step |-> handler.step]
Running(states) == handler # NoCall /\ handler.state \in states

\* The services execute commands or refuse them, also ones that nobody
\* waits for any more; a connection that broke may have swallowed one.
Execute(o) ==
    /\ o \in wire
    /\ wire' = wire \ {o} /\ executed' = executed \cup {o}
    /\ handler' = IF Running({"waiting"}) /\ o = Current
                  THEN [handler EXCEPT !.state = "answered"] ELSE handler
    /\ UNCHANGED <<call, inbox, replies>>

Reject(o) ==
    /\ o \in wire
    /\ wire' = wire \ {o}
    /\ handler' = IF Running({"waiting"}) /\ o = Current
                  THEN [handler EXCEPT !.state = "refused"] ELSE handler
    /\ UNCHANGED <<call, inbox, executed, replies>>

Swallow(o) ==
    /\ o \in wire /\ ~(Running({"waiting"}) /\ o = Current)
    /\ wire' = wire \ {o}
    /\ UNCHANGED <<call, inbox, handler, executed, replies>>

\* The answer arrived: a lookup goes on if it found a UE, a probe may ask
\* again, any other handler returns the answer.
Succeed ==
    /\ Running({"answered"})
    /\ LET t == handler.ticket i == handler.step
       IN  \/ Reply(t, "200") /\ UNCHANGED wire
           \/ /\ Plan(t) \in {"lookup", "probe"} /\ i < LastStep(t)
              /\ Perform(t, i + 1)
    /\ UNCHANGED <<call, inbox, executed>>

\* Mutation: a command the service refuses is reported as not found.
StatusOfNotFound(t, i, status) ==
    CASE Plan(t) = "probe" -> "200"
      [] status = "400"    -> "404"
      [] OTHER             -> status

\* Mutation: the fallback hides the failure of its second call.
StatusOfSwallowed(t, i, status) ==
    CASE Plan(t) = "probe"               -> "200"
      [] Plan(t) = "fallback" /\ i = 2   -> "200"
      [] OTHER                           -> status

\* What the handler makes of an exception. A fallback reports the first one,
\* the CommandError, whatever AmariError config_get raised.
StatusOf(t, i, status) ==
    CASE Plan(t) = "probe"               -> "200"
      [] Plan(t) = "fallback" /\ i = 2 /\ status # "500" -> "400"
      [] OTHER                           -> status

\* CommandError: 400, but cell_list may be unknown to the service.
Fail ==
    /\ Running({"refused"})
    /\ LET t == handler.ticket i == handler.step
       IN  \/ Reply(t, StatusOf(t, i, "400")) /\ UNCHANGED wire
           \/ Plan(t) = "fallback" /\ i = 1 /\ Perform(t, 2)
           \/ Plan(t) = "probe" /\ i < LastStep(t) /\ Perform(t, i + 1)
    /\ UNCHANGED <<call, inbox, executed>>

\* Mutation: the handler waits for the answer once more.
GiveUpAgain(status) ==
    /\ Running({"waiting", "answered"})
    /\ handler' = [handler EXCEPT !.state = "waiting"]
    /\ UNCHANGED <<call, inbox, wire, executed, replies>>

\* AmariTimeoutError and AmariConnectionError, or the OSError of a reset socket
\* that the WebSocket client lets through; the command stays sent.
GiveUp(status) ==
    /\ Running({"waiting", "answered"})
    /\ LET t == handler.ticket i == handler.step
       IN  \/ Reply(t, StatusOf(t, i, status)) /\ UNCHANGED wire
           \/ Plan(t) = "probe" /\ i < LastStep(t) /\ Perform(t, i + 1)
    /\ UNCHANGED <<call, inbox, executed>>

HandlerTimesOut == GiveUp("504")
LinkBreaks      == \E status \in {"500", "503"} : GiveUp(status)

-----------------------------------------------------------------------------
Client(c) ==
    \/ Begin(c) \/ Transmit(c) \/ Unreachable(c) \/ TimesOut(c) \/ BreaksOff(c) \/ Receive(c)

Server ==
    \/ \E t \in inbox : Refuse(t) \/ Handle(t) \/ Discard(t)
    \/ Succeed \/ Fail \/ HandlerTimesOut \/ LinkBreaks

Amarisoft == \E o \in wire : Execute(o) \/ Reject(o) \/ Swallow(o)

Next == (\E c \in Callers : Client(c)) \/ Server \/ Amarisoft

Spec == Init /\ [][Next]_vars

\* Sockets and WebSockets have timeouts, and the clients and the loop go on;
\* nothing is assumed of the Amarisoft services, nor that a request that
\* waits for the loop is ever the one it takes.
FairSpec ==
    /\ Spec
    /\ \A c \in Callers : /\ WF_vars(Transmit(c) \/ Unreachable(c))
                          /\ WF_vars(TimesOut(c) \/ Receive(c))
    /\ WF_vars(Succeed \/ Fail \/ HandlerTimesOut)

-----------------------------------------------------------------------------
(* Properties.                                                              *)

CommandOf(o)     == StepOf(o.ticket, o.step)
Done(c, results) == call[c].state = "done" /\ call[c].result \in results
Refusing         == {"404", "405", "422"}
Of(t, c, n)      == t.by = c /\ t.n = n

TicketOK(t) ==
    /\ t \in [by : Callers, n : Nat, try : Nat]
    /\ t.n \in 1..Number(t.by) /\ t.try \in 1..MaxTries(t.by)
OrderOK(o) ==
    /\ o = [ticket |-> o.ticket, step |-> o.step]
    /\ TicketOK(o.ticket) /\ o.step \in Nat \ {0} /\ o.step <= LastStep(o.ticket)

CallTypes ==
    call \in [Callers -> [asked : Seq(Calls), try : Nat,
                          state : {"trying", "sent", "done"},
                          result : Statuses \cup Failures \cup {"none"}]]
OpenCalls ==
    \A c \in Callers : call[c].state # "done" =>
        Number(c) > 0 /\ call[c].try \in 1..MaxTries(c)
HandlerOK ==
    handler # NoCall =>
        /\ handler = [ticket |-> handler.ticket, step |-> handler.step,
                      state |-> handler.state]
        /\ OrderOK(Current) /\ handler.state \in {"waiting", "answered", "refused"}
ReplyOK(p) == /\ p = [ticket |-> p.ticket, status |-> p.status]
              /\ p.status \in Statuses /\ TicketOK(p.ticket)

\* Types: what each variable may hold. A call under way has tries left to be
\* at, a command is one that the plan of its handler has.
TypeOK ==
    /\ CallTypes /\ OpenCalls /\ HandlerOK
    /\ \A t \in inbox : TicketOK(t)
    /\ \A o \in wire \cup executed : OrderOK(o)
    /\ \A p \in replies : ReplyOK(p)

\* A call that ends with 200 was executed by the service in the very try that
\* was answered; only status reports answer 200 whatever became of theirs.
AnswerMeansDone ==
    \A c \in Callers :
        Done(c, {"200"}) /\ Plan(Ticket(c)) # "probe"
        => \E o \in executed : o.ticket = Ticket(c)

\* A call refused for its path, verb or fields has touched nothing,
\* in none of its tries, and never will.
RefusedUntouched ==
    \A c \in Callers :
        Done(c, Refusing)
        => \A o \in wire \cup executed : ~Of(o.ticket, c, Number(c))

\* The client over the SSH tunnel repeats only what it could not send: no two
\* tries of one of its calls ever reach a service.
TunnelledOnce ==
    \A o1, o2 \in wire \cup executed :
        o1.ticket.by \in SshCallers /\ Of(o2.ticket, o1.ticket.by, o1.ticket.n)
        => o1.ticket.try = o2.ticket.try

\* The tries under way, and what is known of each: it was sent, so it is not
\* the one its caller is about to send; a tunnelled call has only one.
Live == inbox \cup {o.ticket : o \in wire \cup executed}
              \cup {h.ticket : h \in {handler} \ {NoCall}}
SentTries ==
    \A t \in Live : t.n = Number(t.by) =>
        /\ t.try <= call[t.by].try
        /\ call[t.by].state = "trying" =>
              t.try < call[t.by].try /\ t.by \notin SshCallers
        /\ t.by \in SshCallers => t.try = call[t.by].try
OneTunnelledTry ==
    \A t1, t2 \in Live :
        t1.by \in SshCallers /\ Of(t2, t1.by, t1.n) => t1.try = t2.try

\* What is served can be called; what is answered was executed.
Served(t) == Refusal(t) = "none" /\ StepOf(t, 1) # NoCall
ServedOnly ==
    /\ \A o \in wire \cup executed : Served(o.ticket)
    /\ handler # NoCall => Served(handler.ticket)
    /\ Running({"answered"}) => Current \in executed

\* What a status says, in a response and as the result of a call.
Says(t, status) ==
    /\ status = "200" /\ Plan(t) # "probe" => \E o \in executed : o.ticket = t
    /\ status \in Refusing => ~Served(t)
StatusesTrue ==
    /\ \A p \in replies : Awaited(p.ticket) /\ Says(p.ticket, p.status)
    /\ \A c \in Callers :
          call[c].state = "done" => Says(Ticket(c), call[c].result)

\* The inductive invariant behind the three properties above: every try that
\* is under way was sent, what is answered was executed, and a status that
\* reaches a caller says what happened.
RestInv == SentTries /\ OneTunnelledTry /\ ServedOnly /\ StatusesTrue

\* The path of a call, with its retries, late executions and refusals, is a
\* repeated call: the service runs each of the tries or does not, early or late.
Outcome(c) ==
    CASE call[c].state # "done" -> "open"
      [] Done(c, {"none"}) -> "none"
      [] Done(c, {"200"}) /\ Plan(Ticket(c)) # "probe" -> "good"
      [] Done(c, Refusing) -> "refused"
      [] OTHER -> "doubt"
RC == INSTANCE RepeatedCall WITH
    Once    <- SshCallers,
    Tries   <- [c \in Callers |-> MaxTries(c)],
    number  <- [c \in Callers |-> Number(c)],
    try     <- [c \in Callers |-> call[c].try],
    outcome <- [c \in Callers |-> Outcome(c)],
    ran     <- {<<o.ticket.by, o.ticket.n, o.ticket.try>> : o \in executed}
ImplementsRepeatedCall == RC!Spec

\* What the method of the same name of the WebSocket API would send, for the
\* calls that it can be called with too.
Direct ==
    [k \in {k \in Calls : /\ k.via = "method" /\ k.service \in Services
                          /\ Callable(k.service, k.name, k.args)} |->
        Command(k.service, k.name, k.args)]

\* A method of the HTTP client and the method of its name of the WebSocket
\* API send the service the same command, and no argument of their own.
SameCommand ==
    \A o \in wire \cup executed :
        What(o.ticket) \in DOMAIN Direct
        => LET direct == Direct[What(o.ticket)]
           IN  /\ CommandOf(o).service = direct.service
               /\ CommandOf(o).message = direct.message
               /\ CommandOf(o).args \subseteq direct.args

\* Arguments that choose what a reply shows, or are replaced: imsi next to an
\* id, cell_id of a listing, the id of a looked-up UE, and message_id, over
\* which the WebSocket client writes its own number.
ChosenInReply(k, p) ==
    \/ k.name = "ue_get" /\ p = "imsi" /\ Cardinality(Names(k.args)) = 2
    \/ k.name \in {"cells_get", "cell_list"} /\ p = "cell_id"
    \/ k.name \in {"ursp_rules", "guti_realloc"} /\ p = "mme_ue_id"
    \/ p = "message_id"
Arrives(a, command) ==
    \E b \in command.args : b[2] = a[2] \/ b = <<a[1], Literal("True")>>

\* Every argument a caller gives that Python does not take for false reaches
\* the service, through both renamings, in whatever part of the request.
ArgumentsArrive ==
    \A o \in wire \cup executed :
        LET k == What(o.ticket)
        IN  \A a \in k.args :
                Truthy(a[2]) /\ ~ChosenInReply(k, a[1]) /\ Plan(o.ticket) # "probe"
                => Arrives(a, CommandOf(o))

\* The classes of client/http provide "the same interface": a call of one of
\* their methods, with nothing that Python takes for false, is never refused
\* for its path, verb or fields.
CallsLand ==
    \A c \in Callers :
        Done(c, Refusing) /\ What(Ticket(c)).via = "method"
        => \E a \in What(Ticket(c)).args : ~Truthy(a[2])

\* Every call ends, and the event loop comes back from every handler.
CallsReturn   == \A c \in Callers : call[c].state # "done" ~> call[c].state = "done"
LoopComesBack == handler # NoCall ~> handler = NoCall
==============================================================================
