----------------------------- MODULE RestRequests -----------------------------
(****************************************************************************)
(* The requests a user of the REST service makes: through a method of the   *)
(* HTTP client's Callbox, or to a documented route directly.                *)
(****************************************************************************)
EXTENDS HTTPApis, Routers

CallboxMethods == UNION {
    At("GET", {<<"health_check", "health">>, <<"system_info", "system", "info">>}),
    InBodyIfAny(Takes({}, {"service"}, Drops({"service"},
      At("POST", {<<"system_restart", "system", "restart">>})))) }

HttpMethods ==
    [enb |-> ENBHttpMethods, mme |-> MMEHttpMethods, ims |-> IMSHttpMethods,
     ue |-> UEHttpMethods, callbox |-> CallboxMethods]

\* A method whose path depends on an argument has a form for each case.
Fits(f, args)      == f.when \subseteq Names(args)
FormFor(all, args) ==
    CHOOSE f \in all : Fits(f, args) /\ (f.when = {} => \A g \in all : Fits(g, args) => g.when = {})
FormOf(svc, name, args) == FormFor({f \in HttpMethods[svc] : f.name = name}, args)

ValueOf(args, p) == (CHOOSE a \in args : a[1] = p)[2]

Filled(path, args) ==
    [i \in DOMAIN path |-> IF IsSlot(path[i]) THEN ValueOf(args, SlotAt(path, i))
                                              ELSE Literal(path[i])]

\* The request of a method call; the service APIs prefix their paths.
RequestBy(f, svc, args) ==
    LET path == IF svc = "callbox" THEN f.path ELSE <<svc>> \o f.path
        rest == {a \in args : a[1] \notin SlotsIn(f.path) \ f.twice}
        sent == IF f.where = "nowhere" THEN {} ELSE Passed(f, rest)
    IN  [verb |-> f.verb, url |-> Filled(path, args),
         query |-> IF f.where = "query" THEN sent ELSE {},
         body |-> IF f.where = "query" THEN {} ELSE sent,
         hasBody |-> f.where = "body" \/ (f.where = "bodyIfAny" /\ sent # {})]
RequestOf(svc, name, args) == RequestBy(FormOf(svc, name, args), svc, args)

\* A request to a route with what it asks for and some of what it takes.
RequestTo(r, path, args) ==
    LET inBody == IF r.open THEN Names(args) \ SlotsIn(path) ELSE r.asks \cup r.takes
        body   == {a \in args : a[1] \in inBody}
    IN  [verb |-> r.verb, url |-> Filled(path, args),
         query |-> {a \in args : a[1] \in r.required \cup r.optional},
         body |-> body,
         hasBody |-> r.body = "required" \/ body # {}]

-----------------------------------------------------------------------------
(* Argument lists: what is required, with none, one or all of the optional  *)
(* parameters, and at most one value that Python takes for false.           *)

Args(must, may, fixedPlace, open) ==
    LET all   == must \cup may
        give  == {<<p, Given(p)>> : p \in must}
        some  == {give, give \cup {<<p, Given(p)>> : p \in may}}
                 \cup {give \cup {<<p, Given(p)>>} : p \in may}
        more  == IF open THEN {s \cup {<<"more", Given("more")>>} : s \in some} ELSE {}
        zeros == {{<<p, IF p = z THEN Zero(p) ELSE Given(p)>> : p \in all} :
                     z \in all \ fixedPlace}
    IN  some \cup more \cup zeros

\* Calls of the HTTP client's methods.
MethodCalls ==
    UNION {UNION {
        {[via |-> "method", service |-> svc, name |-> f.name, args |-> a,
          request |-> RequestOf(svc, f.name, a)] :
            a \in Args(f.required, f.optional \cup Names(f.presets) \cup f.flags,
                       SlotsIn(f.path) \cap TextSlots, f.open)} :
        f \in HttpMethods[svc]} : svc \in DOMAIN HttpMethods}

\* Requests to documented routes, through get, post, put and delete.
RouteCalls ==
    UNION {UNION {
        {[via |-> "route", service |-> r.path[1], name |-> r.name, args |-> a,
          request |-> RequestTo(r, r.path, a)] :
            a \in Args(r.required \cup r.asks \cup SlotsIn(r.path),
                       r.optional \cup r.takes,
                       SlotsIn(r.path) \cap TextSlots, r.open)} :
        r \in Routes[i]} : i \in DOMAIN Routes}

\* The routes that name a service, with the name of one.
ServiceCalls ==
    {[k EXCEPT !.request.url[2] = Literal("mme")] :
        k \in {k \in RouteCalls : "service" \in Names(k.args)}}
==============================================================================
