----------------------------- MODULE RepeatedCall -----------------------------
(****************************************************************************)
(* What a caller may rely on when a call is repeated on the way: a call is  *)
(* tried a bounded number of times, and the service may run a try at any    *)
(* time after it was made, also when the call has long ended. A call that   *)
(* ends well was run; one that ends in a refusal never is; one that ends in *)
(* doubt may be. The calls of some callers are run for one try at most.     *)
(****************************************************************************)
EXTENDS Naturals

CONSTANTS
    Callers,
    Once,       \* the callers whose calls are run for one try at most
    Tries       \* how often a caller tries a call

VARIABLES
    number,     \* calls each caller has made
    try,        \* tries of its current call
    outcome,    \* "none", "open", "good", "refused" or "doubt"
    ran         \* the tries that were run: caller, call and try

vars == <<number, try, outcome, ran>>

Init ==
    /\ number = [c \in Callers |-> 0]
    /\ try = [c \in Callers |-> 0]
    /\ outcome = [c \in Callers |-> "none"]
    /\ ran = {}

\* A caller that tries no call at all is in doubt at once.
Start(c) ==
    /\ outcome[c] # "open"
    /\ number' = [number EXCEPT ![c] = @ + 1]
    /\ try' = [try EXCEPT ![c] = 1]
    /\ outcome' = [outcome EXCEPT ![c] = IF Tries[c] = 0 THEN "doubt" ELSE "open"]
    /\ UNCHANGED ran

TryAgain(c) ==
    /\ outcome[c] = "open" /\ try[c] < Tries[c]
    /\ try' = [try EXCEPT ![c] = @ + 1]
    /\ UNCHANGED <<number, outcome, ran>>

Run(c, n, k) ==
    /\ n \in 1..number[c] /\ k \in 1..Tries[c]
    /\ n = number[c] => /\ k <= try[c]
                        /\ outcome[c] # "refused"
                        /\ outcome[c] = "good" => k < try[c]
    /\ c \in Once => \A j \in 1..Tries[c] : <<c, n, j>> \in ran => j = k
    /\ ran' = ran \cup {<<c, n, k>>}
    /\ UNCHANGED <<number, try, outcome>>

End(c, how) ==
    /\ outcome[c] = "open"
    /\ how = "good" => <<c, number[c], try[c]>> \in ran
    /\ how = "refused" => \A k \in 1..Tries[c] : <<c, number[c], k>> \notin ran
    /\ outcome' = [outcome EXCEPT ![c] = how]
    /\ UNCHANGED <<number, try, ran>>

Next ==
    \E c \in Callers :
        \/ Start(c) \/ TryAgain(c)
        \/ \E n \in 1..number[c], k \in 1..Tries[c] : Run(c, n, k)
        \/ \E how \in {"good", "refused", "doubt"} : End(c, how)

Spec == Init /\ [][Next]_vars
==============================================================================
