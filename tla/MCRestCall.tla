------------------------------ MODULE MCRestCall ------------------------------
(****************************************************************************)
(* What TLC needs to check RestCall: which calls the callers make.          *)
(****************************************************************************)
EXTENDS RestCall, RestTables

AllRequests == MethodCalls \cup RouteCalls \cup ServiceCalls

\* They are among the calls that the theorems speak of.
ASSUME RegularRequests == \A q \in AllRequests : Regular(q)

\* The calls that mingle with others, one for each way to make it: of the plan
\* that includes what one of a single command does, and may send a second
\* command after a refusal.
OneOf(Q) == CHOOSE q \in Q : Verdict(q.request) = "none"
                              /\ RouteOf(q.request).plan = "fallback"
FewRequests == {OneOf(MethodCalls), OneOf(RouteCalls)}
==============================================================================
