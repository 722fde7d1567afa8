-------------------------------- MODULE Routers --------------------------------
(****************************************************************************)
(* The REST service as a function of a request: the route that serves it,   *)
(* what validation refuses, and the calls its handler makes. A request is   *)
(* a verb, a path whose segments are literals or arguments, a query and,    *)
(* perhaps, a body.                                                         *)
(****************************************************************************)
EXTENDS ENBRouter, MMERouter, IMSRouter, UERouter, ServiceCommands

\* A status report asks the MME, if connected, for its version; connect_all
\* asks when it connects and again when it reports.
HealthRoutes == UNION {
    Probes(1, At("GET", {<<"get_status", "health">>, <<"get_status", "version">>,
                         <<"get_status", "health", "ready">>,
                         <<"get_status", "services">>})),
    Probes(0, At("GET", {<<"liveness", "health", "live">>})) }

ServiceRoutes == UNION {
    Takes({}, {"connect"},
      Probes(1, At("GET", {<<"check_service", "services", "{service}">>}))),
    Probes(1, At("POST", {<<"check_service", "services", "{service}", "connect">>,
                          <<"disconnect_service", "services", "{service}", "disconnect">>,
                          <<"reconnect_service", "services", "{service}", "reconnect">>})),
    Probes(2, At("POST", {<<"connect_all", "services", "connect">>})),
    Probes(0, At("POST", {<<"close_all", "services", "disconnect">>})) }

Under(svc, chunks) ==
    [i \in DOMAIN chunks |-> {[r EXCEPT !.path = <<svc>> \o @] : r \in chunks[i]}]

\* create_app includes the routers in this order.
Routes ==
    <<HealthRoutes \cup ServiceRoutes>> \o Under("enb", ENBRoutes) \o Under("mme", MMERoutes)
                     \o Under("ims", IMSRoutes) \o Under("ue", UERoutes)

-----------------------------------------------------------------------------
PathMatches(r, url) ==
    /\ Len(r.path) = Len(url)
    /\ \A i \in DOMAIN url : IsSlot(r.path[i]) \/ url[i] = Literal(r.path[i])

Serves(r, req) == r.verb = req.verb /\ PathMatches(r, req.url)

\* The routes that match path and verb, and the first of them.
Placed      == UNION {{<<i, r>> : r \in Routes[i]} : i \in DOMAIN Routes}
Hits(req)   == {h \in Placed : Serves(h[2], req)}
First(hits) == (CHOOSE h \in hits : \A g \in hits : h[1] <= g[1])[2]
RouteOf(req) == First(Hits(req))

\* The values of Field(ge=1), and the slots declared int.
AtLeastOne == {"qci", "arp_priority"}

Invalid(r, req) ==
    \/ \E i \in DOMAIN r.path : /\ IsSlot(r.path[i]) /\ req.url[i][1] = "literal"
                                /\ SlotAt(r.path, i) \notin TextSlots
    \/ ~(r.required \subseteq Names(req.query))
    \/ r.body = "required" /\ ~req.hasBody
    \/ /\ r.body # "none" /\ req.hasBody
       /\ \/ ~(r.asks \subseteq Names(req.body))
          \/ \E a \in req.body : a[1] \in (r.asks \cup r.takes) \cap AtLeastOne
                                 /\ ~Truthy(a[2])

\* Mutation: the query is not read.
ReceivedNoQuery(r, req) ==
    {<<SlotAt(r.path, i), req.url[i]>> : i \in {j \in DOMAIN r.path : IsSlot(r.path[j])}}
    \cup {a \in req.body : r.body # "none" /\ (r.open \/ a[1] \in r.asks \cup r.takes)}

\* What the handler receives: unknown fields are ignored.
Received(r, req) ==
    {<<SlotAt(r.path, i), req.url[i]>> : i \in {j \in DOMAIN r.path : IsSlot(r.path[j])}}
    \cup {a \in req.query : a[1] \in r.required \cup r.optional}
    \cup {a \in req.body : r.body # "none" /\ (r.open \/ a[1] \in r.asks \cup r.takes)}

\* ValueError in the handler or the manager before a command is sent: 400. (A
\* report on a service that does not exist asks the MME first; left out.)
Unconvertible(r, req) ==
    \E a \in Received(r, req) :
        \/ a = <<"scell_ids", Zero("scell_ids")>>
        \/ a[1] = "service" /\ a[2] \notin {Literal(svc) : svc \in Services}

KnownPath(req) == \E h \in Placed : PathMatches(h[2], req.url)

\* The status a request gets before any call of the manager, if it gets one.
VerdictOf(r, req) ==
    CASE Invalid(r, req)                             -> "422"
      [] ~Invalid(r, req) /\ Unconvertible(r, req)   -> "400"
      [] OTHER                                       -> "none"
VerdictFor(hits, req) ==
    IF hits # {} THEN VerdictOf(First(hits), req)
    ELSE IF KnownPath(req) THEN "405" ELSE "404"
Verdict(req) == VerdictFor(Hits(req), req)

\* The part-th call of the handler: method and arguments.
Steps(r, req) ==
    LET args == Passed(r, Received(r, req))
    IN  CASE r.plan = "once"     -> <<<<r.name, args>>>>
          [] r.plan = "fallback" -> <<<<"cell_list", {}>>, <<"config_get", {}>>>>
          [] r.plan = "lookup"   -> <<<<"ue_get", args>>,
                                      <<r.name, {<<"imsi", Literal("found")>>}>>>>
          [] r.plan = "probe"    -> [i \in 1..r.probes |-> <<"version", {}>>]

\* Mutation: the handlers of the IMS were copied, and ask the MME.
ServiceOfCopied(r) == IF r.plan = "probe" \/ r.path[1] = "ims" THEN "mme" ELSE r.path[1]

ServiceOf(r) == IF r.plan = "probe" THEN "mme" ELSE r.path[1]

StepCallable(r, req, i) ==
    Callable(ServiceOf(r), Steps(r, req)[i][1], Steps(r, req)[i][2])
StepCommand(r, req, i) ==
    Command(ServiceOf(r), Steps(r, req)[i][1], Steps(r, req)[i][2])

\* In a group the order of the routes makes no difference.
ASSUME OneRoutePerRequest ==
    \A i \in DOMAIN Routes : \A r1, r2 \in Routes[i] :
        r1.verb = r2.verb /\ Len(r1.path) = Len(r2.path) /\ r1 # r2
        => \E k \in DOMAIN r1.path : /\ r1.path[k] # r2.path[k]
                                     /\ ~IsSlot(r1.path[k]) /\ ~IsSlot(r2.path[k])
==============================================================================
