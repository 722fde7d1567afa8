------------------------------ MODULE RemoteCall ------------------------------
(****************************************************************************)
(* What a client of a remote service promises its callers, without          *)
(* connections, ids or messages: a call hands over some requests; the       *)
(* service executes each of them at most once, perhaps after the caller has *)
(* given up; the call returns the answers to exactly its own requests, in   *)
(* order, each of them executed, or it fails.                               *)
(****************************************************************************)
EXTENDS Naturals, Sequences

CONSTANTS
    Threads,
    MaxParts,   \* most requests in one call
    Request     \* records with the fields by, call and part

VARIABLES
    number,     \* calls each thread has made
    parts,      \* requests in its current call
    answers,    \* requests of that call answered so far
    result,     \* "busy", "done" or "failed"
    execs       \* how often each request was executed

vars == <<number, parts, answers, result, execs>>

Init ==
    /\ number = [t \in Threads |-> 0]
    /\ parts = [t \in Threads |-> 0]
    /\ answers = [t \in Threads |-> << >>]
    /\ result = [t \in Threads |-> "done"]
    /\ execs = [r \in Request |-> 0]

Begin(t, n) ==
    /\ result[t] # "busy"
    /\ number' = [number EXCEPT ![t] = @ + 1]
    /\ parts' = [parts EXCEPT ![t] = n]
    /\ answers' = [answers EXCEPT ![t] = << >>]
    /\ result' = [result EXCEPT ![t] = "busy"]
    /\ UNCHANGED execs

\* The service executes requests it was given and had not executed.
Execute(S) ==
    /\ \A r \in S : r.call <= number[r.by] /\ execs[r] = 0
    /\ execs' = [r \in Request |-> IF r \in S THEN 1 ELSE execs[r]]
    /\ UNCHANGED <<number, parts, answers, result>>

\* The next answer of the call; the last one completes it.
Answer(t, r) ==
    /\ result[t] = "busy" /\ execs[r] = 1
    /\ r.by = t /\ r.call = number[t] /\ r.part = Len(answers[t]) + 1
    /\ r.part <= parts[t]
    /\ answers' = [answers EXCEPT ![t] = Append(@, r)]
    /\ result' = [result EXCEPT ![t] = IF r.part = parts[t] THEN "done" ELSE @]
    /\ UNCHANGED <<number, parts, execs>>

\* A call without requests of its own ends as it likes; any call may fail.
End(t) ==
    /\ result[t] = "busy"
    /\ \E how \in {"done", "failed"} :
          /\ how = "done" => parts[t] = 0
          /\ result' = [result EXCEPT ![t] = how]
    /\ UNCHANGED <<number, parts, answers, execs>>

Next ==
    \/ \E t \in Threads : End(t) \/ (\E n \in 0..MaxParts : Begin(t, n))
                                 \/ (\E r \in Request : Answer(t, r))
    \/ \E S \in SUBSET Request : Execute(S)

Spec == Init /\ [][Next]_vars
=============================================================================
