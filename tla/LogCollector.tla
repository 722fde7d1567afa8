------------------------------ MODULE LogCollector ------------------------------
(****************************************************************************)
(* The log collector of websocket/logging.py: collect_once() by a user's    *)
(* thread, and by the background thread of start_continuous(), which polls  *)
(* log_get from the last known index until stop_continuous().               *)
(*                                                                          *)
(* Only `_logs` is guarded by the collector's lock.  The indices, the stop  *)
(* event and the thread handle are read and written without it, so every    *)
(* access to them is a step of its own.                                     *)
(****************************************************************************)
EXTENDS Integers, Sequences

CONSTANTS
    Users,      \* the threads that call the collector's methods
    Services,   \* the services with a log
    Layers,     \* the layers of log lines
    Filters,    \* what collect_once() may be asked for: sets of layers; None is Layers
    Ops,        \* the methods the users call
    QuietClear, \* clear() is called only when nobody collects
    Malformed,  \* a service may write lines that cannot be parsed
    MaxLines,   \* bound: lines in the log of a service
    MaxLoops    \* bound: background threads started

OpKinds == {"collect", "start", "stop", "clear"}
Loops   == 1..MaxLoops
Threads == Users \cup Loops

ASSUME UsersAssumption == Users \cap Nat = {}
ASSUME ServicesAssumption == Services # {}
ASSUME FiltersAssumption == Filters \subseteq SUBSET Layers
ASSUME CollectorOpsAssumption == Ops \subseteq OpKinds
ASSUME RegimeAssumption == {QuietClear, Malformed} \subseteq BOOLEAN
ASSUME CollectorBoundAssumption == MaxLines \in Nat /\ MaxLoops \in Nat

VARIABLES
    lines,      \* the services' logs: the layer of each line, oldest first
    \* the collector
    logs,       \* _logs
    indices,    \* _log_indices
    stop,       \* _stop_event
    thread,     \* _collector_thread, 0 for None
    spawned,    \* background threads started so far
    \* a thread inside a method
    pc,
    todo,       \* services the collection still has to ask
    service,    \* the service it is asking
    wanted,     \* `layers`
    at,         \* min_idx, then the index of the next entry of the answer
    end,        \* the answer ends before this index
    new         \* new_entries

collectorVars == <<logs, indices, stop, thread, spawned>>
passVars      == <<todo, service, wanted, at, end, new>>
vars          == <<lines, collectorVars, pc, passVars>>

\* Asking: log_get has been sent.  Reading: an entry of the answer is next.
Labels == {"idle", "clearing", "spawning", "joining",
           "next", "asking", "reading", "advancing",
           "unborn", "testing", "waiting", "ended"}

Entry(s, i) == [service |-> s, index |-> i, layer |-> lines[s][i + 1]]

Entries == [service : Services, index : 0..MaxLines, layer : Layers]

Holds(seq, e) == \E k \in DOMAIN seq : seq[k] = e

\* Inside collect_once().
InPass(t) == pc[t] \in {"next", "asking", "reading", "advancing"}

Goto(t, label) == pc' = [pc EXCEPT ![t] = label]

Init ==
    /\ lines = [s \in Services |-> << >>]
    /\ logs = << >>
    /\ indices = [s \in Services |-> 0]
    /\ stop = FALSE /\ thread = 0 /\ spawned = 0
    /\ pc = [t \in Threads |-> IF t \in Users THEN "idle" ELSE "unborn"]
    /\ todo = [t \in Threads |-> {}]
    /\ service = [t \in Threads |-> CHOOSE s \in Services : TRUE]
    /\ wanted = [t \in Threads |-> Layers]
    /\ at = [t \in Threads |-> 0]
    /\ end = [t \in Threads |-> 0]
    /\ new = [t \in Threads |-> << >>]

\* A service writes a line to its log.
Write(s, l) ==
    /\ Len(lines[s]) < MaxLines
    /\ lines' = [lines EXCEPT ![s] = Append(@, l)]
    /\ UNCHANGED <<collectorVars, pc, passVars>>

----------------------------------------------------------------------------
(* collect_once()                                                           *)

\* A collection of these services; one that is not connected is one that fails.
StartPass(t, services, layers) ==
    /\ Goto(t, "next")
    /\ todo' = [todo EXCEPT ![t] = services]
    /\ wanted' = [wanted EXCEPT ![t] = layers]
    /\ UNCHANGED <<lines, collectorVars, service, at, end, new>>

CollectOnce(u, services, layers) ==
    /\ "collect" \in Ops /\ pc[u] = "idle"
    /\ StartPass(u, services, layers)

\* The last known index of a service is read, and its log asked for from there on.
Ask(t, s) ==
    /\ pc[t] = "next" /\ s \in todo[t]
    /\ Goto(t, "asking")
    /\ todo' = [todo EXCEPT ![t] = @ \ {s}]
    /\ service' = [service EXCEPT ![t] = s]
    /\ at' = [at EXCEPT ![t] = indices[s]]
    /\ UNCHANGED <<lines, collectorVars, wanted, end, new>>

\* Mutation: the index moves as soon as the answer is there.
AnsweredMovesIndex(t) ==
    /\ pc[t] = "asking"
    /\ Goto(t, "reading")
    /\ end' = [end EXCEPT ![t] = Len(lines[service[t]])]
    /\ indices' = [indices EXCEPT ![service[t]] = Len(lines[service[t]])]
    /\ UNCHANGED <<lines, logs, stop, thread, spawned, todo, service, wanted, at, new>>

\* The answer: the lines there are.
Answered(t) ==
    /\ pc[t] = "asking"
    /\ Goto(t, "reading")
    /\ end' = [end EXCEPT ![t] = Len(lines[service[t]])]
    /\ UNCHANGED <<lines, collectorVars, todo, service, wanted, at, new>>

\* On to the next service.
Leave(t) ==
    /\ Goto(t, "next")
    /\ at' = [at EXCEPT ![t] = 0]
    /\ end' = [end EXCEPT ![t] = 0]
    /\ UNCHANGED <<lines, collectorVars, todo, service, wanted, new>>

\* Mutation: the exception is not caught, and ends the background thread.
FailedUncaught(t) ==
    /\ pc[t] = "asking"
    /\ Goto(t, "ended")
    /\ UNCHANGED <<lines, collectorVars, passVars>>

\* log_get raises: the service is left for the next collection.
Failed(t) == pc[t] = "asking" /\ Leave(t)

\* An entry that cannot be parsed ends the service's turn; what was read is kept.
ParseFails(t) ==
    /\ Malformed
    /\ pc[t] = "reading" /\ at[t] < end[t]
    /\ Leave(t)

\* An entry is kept if its layer is wanted, and compared with the known index.
TakeEntry(t) ==
    LET e == Entry(service[t], at[t]) IN
    /\ pc[t] = "reading" /\ at[t] < end[t]
    /\ new' = [new EXCEPT ![t] = IF e.layer \in wanted[t] THEN Append(@, e) ELSE @]
    /\ IF at[t] >= indices[service[t]]
       THEN Goto(t, "advancing") /\ UNCHANGED at
       ELSE at' = [at EXCEPT ![t] = @ + 1] /\ UNCHANGED pc
    /\ UNCHANGED <<lines, collectorVars, todo, service, wanted, end>>

\* Mutation: the index is that of the entry.
AdvanceToEntry(t) ==
    /\ pc[t] = "advancing"
    /\ Goto(t, "reading")
    /\ indices' = [indices EXCEPT ![service[t]] = at[t]]
    /\ at' = [at EXCEPT ![t] = @ + 1]
    /\ UNCHANGED <<lines, logs, stop, thread, spawned, todo, service, wanted, end, new>>

\* Mutation: the index moves past the end of the answer.
AdvancePastAnswer(t) ==
    /\ pc[t] = "advancing"
    /\ Goto(t, "reading")
    /\ indices' = [indices EXCEPT ![service[t]] = end[t] + 1]
    /\ at' = [at EXCEPT ![t] = @ + 1]
    /\ UNCHANGED <<lines, logs, stop, thread, spawned, todo, service, wanted, end, new>>

\* The index moves past the entry.
Advance(t) ==
    /\ pc[t] = "advancing"
    /\ Goto(t, "reading")
    /\ indices' = [indices EXCEPT ![service[t]] = at[t] + 1]
    /\ at' = [at EXCEPT ![t] = @ + 1]
    /\ UNCHANGED <<lines, logs, stop, thread, spawned, todo, service, wanted, end, new>>

AnswerRead(t) == pc[t] = "reading" /\ at[t] >= end[t] /\ Leave(t)

\* The new entries are added to the logs, under the lock, and returned.
Store(t) ==
    /\ pc[t] = "next" /\ todo[t] = {}
    /\ logs' = logs \o new[t]
    /\ new' = [new EXCEPT ![t] = << >>]
    /\ wanted' = [wanted EXCEPT ![t] = Layers]
    /\ Goto(t, IF t \in Users THEN "idle" ELSE "waiting")
    /\ UNCHANGED <<lines, indices, stop, thread, spawned, todo, service, at, end>>

----------------------------------------------------------------------------
(* The background thread.  Its callback changes nothing here; the time it   *)
(* takes is time between two of the thread's steps.                         *)

\* Mutation: the stop event is not looked at.
LoopForever(l) == pc[l] = "testing" /\ StartPass(l, Services, Layers)

\* while not self._stop_event.is_set()
LoopTest(l) ==
    /\ pc[l] = "testing"
    /\ \/ stop /\ Goto(l, "ended") /\ UNCHANGED <<lines, collectorVars, passVars>>
       \/ ~stop /\ StartPass(l, Services, Layers)

\* self._stop_event.wait(interval): the event, or the interval is over.
LoopWakes(l) ==
    /\ pc[l] = "waiting"
    /\ Goto(l, "testing")
    /\ UNCHANGED <<lines, collectorVars, passVars>>

----------------------------------------------------------------------------
(* start_continuous(), stop_continuous(), clear()                           *)

\* Raises when there is a thread already.
StartContinuous(u) ==
    /\ "start" \in Ops /\ pc[u] = "idle" /\ spawned < MaxLoops
    /\ thread = 0
    /\ Goto(u, "clearing")
    /\ UNCHANGED <<lines, collectorVars, passVars>>

ClearStopEvent(u) ==
    /\ pc[u] = "clearing"
    /\ stop' = FALSE
    /\ Goto(u, "spawning")
    /\ UNCHANGED <<lines, logs, indices, thread, spawned, passVars>>

Spawn(u) ==
    /\ pc[u] = "spawning" /\ spawned < MaxLoops
    /\ spawned' = spawned + 1
    /\ thread' = spawned'
    /\ pc' = [pc EXCEPT ![u] = "idle", ![spawned'] = "testing"]
    /\ UNCHANGED <<lines, logs, indices, stop, passVars>>

\* Returns at once when there is no thread.
StopContinuous(u) ==
    /\ "stop" \in Ops /\ pc[u] = "idle"
    /\ thread # 0
    /\ stop' = TRUE
    /\ Goto(u, "joining")
    /\ UNCHANGED <<lines, logs, indices, thread, spawned, passVars>>

\* Mutation: the stop event is cleared for the next start as soon as the join is over.
JoinAndReset(u) ==
    /\ pc[u] = "joining"
    /\ thread' = 0 /\ stop' = FALSE
    /\ Goto(u, "idle")
    /\ UNCHANGED <<lines, logs, indices, spawned, passVars>>

\* join(timeout=5.0): the thread has ended, or it has not, as log_get alone may take
\* ten seconds. It is forgotten all the same.
Join(u) ==
    /\ pc[u] = "joining"
    /\ thread' = 0
    /\ Goto(u, "idle")
    /\ UNCHANGED <<lines, logs, indices, stop, spawned, passVars>>

\* Under the lock.
Clear(u) ==
    /\ "clear" \in Ops /\ pc[u] = "idle"
    /\ QuietClear => \A t \in Threads : ~InPass(t)
    /\ logs' = << >>
    /\ indices' = [s \in Services |-> 0]
    /\ UNCHANGED <<lines, stop, thread, spawned, pc, passVars>>

----------------------------------------------------------------------------
Pass(t) ==
    \/ \E s \in Services : Ask(t, s)
    \/ Answered(t) \/ Failed(t)
    \/ TakeEntry(t) \/ ParseFails(t) \/ Advance(t) \/ AnswerRead(t)
    \/ Store(t)

Method(u) == ClearStopEvent(u) \/ Spawn(u) \/ Join(u)

Call(u) ==
    \/ \E services \in SUBSET Services, layers \in Filters :
          CollectOnce(u, services, layers)
    \/ StartContinuous(u) \/ StopContinuous(u) \/ Clear(u)

Next ==
    \/ \E s \in Services, l \in Layers : Write(s, l)
    \/ \E t \in Threads : Pass(t)
    \/ \E l \in Loops : LoopTest(l) \/ LoopWakes(l)
    \/ \E u \in Users : Method(u) \/ Call(u)

Spec == Init /\ [][Next]_vars

\* Threads run and log_get has a timeout.  That each service, asked again and again,
\* answers in the end, with lines that can be parsed, is assumed of the services.
FairSpec ==
    /\ Spec
    /\ \A t \in Threads : WF_vars(Pass(t))
    /\ \A l \in Loops : WF_vars(LoopTest(l) \/ LoopWakes(l))
    /\ \A l \in Loops, s \in Services : /\ SF_vars(service[l] = s /\ Answered(l))
                                      /\ SF_vars(service[l] = s /\ TakeEntry(l))
    /\ \A u \in Users : WF_vars(Method(u))

----------------------------------------------------------------------------
(* Properties                                                               *)

CollectorTypes ==
    /\ lines \in [Services -> Seq(Layers)]
    /\ logs \in Seq(Entries)
    /\ indices \in [Services -> 0..MaxLines]
    /\ stop \in BOOLEAN
    /\ thread \in 0..MaxLoops
    /\ spawned \in 0..MaxLoops

PassTypes ==
    /\ pc \in [Threads -> Labels]
    /\ todo \in [Threads -> SUBSET Services]
    /\ service \in [Threads -> Services]
    /\ wanted \in [Threads -> SUBSET Layers]
    /\ at \in [Threads -> 0..MaxLines]
    /\ end \in [Threads -> 0..MaxLines]
    /\ new \in [Threads -> Seq(Entries)]

\* Every value is of its type; no index is past the lines it counts.
TypeOK ==
    /\ CollectorTypes /\ PassTypes
    /\ \A s \in Services : Len(lines[s]) <= MaxLines /\ indices[s] <= Len(lines[s])

\* What a thread reads is in the log of the service.
ReadsLines ==
    \A t \in Threads :
        /\ pc[t] \in {"asking", "reading", "advancing"} => at[t] <= Len(lines[service[t]])
        /\ pc[t] \in {"reading", "advancing"} => end[t] <= Len(lines[service[t]])
        /\ pc[t] = "advancing" => at[t] < end[t]

\* Nobody's filter drops this line.
WantedByAll(s, i) == \A f \in Filters : lines[s][i + 1] \in f

\* The entry, if nobody drops it, is in the logs, or in the hands of a thread that
\* will store it.
Kept(s, i) ==
    WantedByAll(s, i) =>
        \/ Holds(logs, Entry(s, i))
        \/ \E t \in Threads : Holds(new[t], Entry(s, i))

\* What is before the last known index has been collected: the index never moves
\* past an entry that nobody has, whoever collects, fails or is told to stop.
NothingSkipped == \A s \in Services : \A i \in 0..(indices[s] - 1) : Kept(s, i)

\* A thread has dealt with the entries before this one.
Before(t) == IF pc[t] = "advancing" THEN at[t] + 1 ELSE at[t]

\* The strengthening of NothingSkipped: the answer a thread is reading starts at
\* an entry before which nothing is missing, and what it has read it has kept.
NothingSkippedInv ==
    /\ NothingSkipped
    /\ \A t \in Threads : pc[t] \in {"asking", "reading", "advancing"} =>
          \A i \in 0..(Before(t) - 1) : Kept(service[t], i)
    /\ \A t \in Threads : wanted[t] \in Filters \cup {Layers}

\* The logs have each line of a service once, in the service's order.
InOrder ==
    \A j \in DOMAIN logs : \A k \in DOMAIN logs :
        j < k /\ logs[j].service = logs[k].service => logs[j].index < logs[k].index

Running(l) == pc[l] \notin {"unborn", "ended"}

\* A background thread that has been stopped, and not started anew, ends.
StopEnds == \A l \in Loops :
    (stop /\ Running(l)) ~> (~stop \/ ~Running(l))

\* While a background thread runs, every line a service writes reaches the logs,
\* unless somebody's filter drops it, or the logs are cleared again and again.
Collected == \A s \in Services : \A i \in 1..MaxLines :
    \/ []<><<\E u \in Users : Clear(u)>>_vars
    \/ (thread # 0 /\ ~stop /\ Len(lines[s]) >= i /\ WantedByAll(s, i - 1))
           ~> (stop \/ thread = 0 \/ \E k \in DOMAIN logs :
                                           logs[k].service = s /\ logs[k].index = i - 1)
=============================================================================
