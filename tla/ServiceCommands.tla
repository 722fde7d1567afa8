---------------------------- MODULE ServiceCommands ----------------------------
(****************************************************************************)
(* The four service APIs together: which command a method call sends to its *)
(* service, and with which arguments.                                       *)
(****************************************************************************)
EXTENDS ServiceApi, ENBApi, MMEApi, IMSApi, UEApi

\* A method of the class of the service hides the one of ServiceApi.
OwnMethods ==
    [enb |-> ENBApiMethods, mme |-> MMEApiMethods,
     ims |-> IMSApiMethods, ue |-> UEApiMethods]

MethodsNamed(svc, name) ==
    LET own == {m \in OwnMethods[svc] : m.name = name}
    IN  IF own # {} THEN own ELSE {m \in CommonMethods : m.name = name}

\* Attribute lookup and binding of the arguments: AttributeError, TypeError.
Callable(svc, name, args) == \E m \in MethodsNamed(svc, name) : Accepts(m, args)

\* WebSocketClient.send puts its own message_id in the place of a caller's.
Stamped(args) == {a \in args : a[1] # "message_id"}

Command(svc, name, args) ==
    LET m == CHOOSE m \in MethodsNamed(svc, name) : TRUE
    IN  [service |-> svc, message |-> m.message, args |-> Stamped(Passed(m, args))]

\* A name stands for one method.
ASSUME OneMethodPerName ==
    \A svc \in Services : \A m1, m2 \in OwnMethods[svc] :
        m1.name = m2.name => m1 = m2
==============================================================================
