------------------------------ MODULE RestTables ------------------------------
(****************************************************************************)
(* How the tables of the REST path fit together, argument by argument: what *)
(* the theorems need to know of them to speak of every argument list, not   *)
(* only of the ones TLC tries. The assumptions are facts of the tables, and *)
(* TLC evaluates them for all rows; what the operators of Forms, Routers    *)
(* and RestRequests then make of any arguments is proved.                   *)
(****************************************************************************)
EXTENDS RestRequests, FiniteSets

AllRoutes == UNION {Routes[i] : i \in DOMAIN Routes}
PathOf(svc, f) == IF svc = "callbox" THEN f.path ELSE <<svc>> \o f.path

-----------------------------------------------------------------------------
(* Calls with any arguments that the signature of a method or route admits. *)

ArgumentList(args) ==
    /\ \A a \in args : a = <<a[1], a[2]>> /\ a[2] \in {Given(a[1]), Zero(a[1])}
    /\ \A a, b \in args : a[1] = b[1] => a = b

ByMethod(q, svc, f) ==
    /\ q.via = "method" /\ q.service = svc /\ q.name = f.name
    /\ ArgumentList(q.args) /\ Accepts(f, q.args)
    /\ q.request = RequestOf(svc, f.name, q.args)

Asked(r) == r.required \cup r.asks \cup SlotsIn(r.path)
Taken(r) == r.optional \cup r.takes

ByRoute(q, r) ==
    /\ q.via = "route" /\ q.service = r.path[1] /\ q.name = r.name
    /\ ArgumentList(q.args) /\ Asked(r) \subseteq Names(q.args)
    /\ r.open \/ Names(q.args) \subseteq Asked(r) \cup Taken(r)
    /\ LET request == RequestTo(r, r.path, q.args)
       IN  \/ q.request = request
           \/ /\ "service" \in SlotsIn(r.path)
              /\ \E svc \in Services : q.request = [request EXCEPT !.url[2] = Literal(svc)]

Regular(q) ==
    \/ \E svc \in DOMAIN HttpMethods : \E f \in HttpMethods[svc] : ByMethod(q, svc, f)
    \/ \E r \in AllRoutes : ByRoute(q, r)

-----------------------------------------------------------------------------
(* Which routes a request may reach, by its verb and the shape of its path: *)
(* a value matches a slot only, and a literal a slot of text.               *)

Reaches(verb, path, r) ==
    /\ r.verb = verb /\ Len(r.path) = Len(path)
    /\ \A i \in DOMAIN path :
          IF IsSlot(path[i]) THEN IsSlot(r.path[i])
          ELSE r.path[i] = path[i] \/ (IsSlot(r.path[i]) /\ SlotAt(r.path, i) \in TextSlots)

\* Validation lets through what brings the required fields.
Brings(f, r) ==
    /\ r.required # {} => f.where = "query"
    /\ r.body = "required" => f.where \in {"body", "bodyIfAny"}
MayServe(svc, f, r) == Reaches(f.verb, PathOf(svc, f), r) /\ Brings(f, r)

-----------------------------------------------------------------------------
(* The way of one argument, from form to form.                              *)

\* A truthy argument n is passed on, under its new name.
Keeps(f, n) == n \notin f.ignores /\ \A y \in f.yields : y[1] # n

\* A form that passes on what it is given as it is given.
Plain(f) == /\ f.renames = {} /\ f.drops = {} /\ f.flags = {} /\ f.ignores = {}
            /\ f.yields = {}

\* The names under which a handler receives what the path, the query or the
\* body of a request has as p, or as n.
FromPath(path, r, p) ==
    {SlotAt(r.path, i) : i \in {j \in DOMAIN path : IsSlot(path[j]) /\ SlotAt(path, j) = p}}
FromQuery(r, n) == {n} \cap (r.required \cup r.optional)
FromBody(r, n)  == {x \in {n} : r.body # "none" /\ (r.open \/ n \in r.asks \cup r.takes)}

Unfilled(f, p) == p \notin SlotsIn(f.path) \/ p \in f.twice
FromMethod(svc, f, r, p) ==
    FromPath(PathOf(svc, f), r, p) \cup
    {n \in FromQuery(r, NewName(f, p)) : f.where = "query" /\ Unfilled(f, p) /\ Keeps(f, p)} \cup
    {n \in FromBody(r, NewName(f, p)) :
        f.where \in {"body", "bodyIfAny"} /\ Unfilled(f, p) /\ Keeps(f, p)}
FromRoute(s, r, p) ==
    FromPath(s.path, r, p) \cup
    {n \in FromQuery(r, p) : p \in s.required \cup s.optional} \cup
    {n \in FromBody(r, p) : IF s.open THEN p \notin SlotsIn(s.path) ELSE p \in s.asks \cup s.takes}

\* Received as n, it reaches the service; a flag does so under its own name p.
Delivers(flags, r, n, p) ==
    \A m \in MethodsNamed(r.path[1], r.name) :
        LET sent == NewName(m, NewName(r, n))
        IN  /\ Keeps(r, n) /\ Keeps(m, NewName(r, n)) /\ sent # "message_id"
            /\ p \in flags \/ n \in r.flags \/ NewName(r, n) \in m.flags => sent = p

\* What ChosenInReply says of a form alone; and of two forms of one method, the
\* one without a condition is not for calls that meet the condition.
Spared(name, p) ==
    \/ name \in {"cells_get", "cell_list"} /\ p = "cell_id"
    \/ name \in {"ursp_rules", "guti_realloc"} /\ p = "mme_ue_id"
    \/ p = "message_id"
Elsewhere(svc, f, p) ==
    \/ f.name = "ue_get" /\ p = "imsi" /\ f.when # {}
    \/ f.when = {} /\ \E g \in HttpMethods[svc] : g.name = f.name /\ g.when = {p}

-----------------------------------------------------------------------------
(* The facts.                                                               *)

ASSUME SlotsDiffer == \A p, q \in DOMAIN SlotOf : SlotOf[p] = SlotOf[q] => p = q

ASSUME RoutesAreListed ==
    DOMAIN Routes \subseteq Nat /\ \A r \in AllRoutes : r.path \in Seq(STRING)

\* The forms of one method: one of them is for any arguments, and they differ
\* neither in required fields nor in parameters.
ASSUME FormForAnyArguments ==
    \A svc \in DOMAIN HttpMethods : \A f \in HttpMethods[svc] :
        \E g \in HttpMethods[svc] : g.name = f.name /\ g.when = {}
ASSUME FormsOfOneMethod ==
    \A svc \in DOMAIN HttpMethods : \A f, g \in HttpMethods[svc] :
        g.name = f.name => /\ g.required = f.required /\ g.open = f.open
                           /\ Parameters(g) = Parameters(f)

\* A path is filled from required arguments, or from those the form is for.
ASSUME PathsOfForms ==
    \A svc \in DOMAIN HttpMethods : \A f \in HttpMethods[svc] :
        /\ PathOf(svc, f) \in Seq(STRING) /\ SlotsIn(PathOf(svc, f)) = SlotsIn(f.path)
        /\ SlotsIn(f.path) \subseteq f.required \cup f.when
        /\ f.when \subseteq Parameters(f)

\* ue_get takes an id of its own service, or imsi, or both.
ASSUME FormsOfUeGet ==
    \A svc \in DOMAIN HttpMethods : \A f \in HttpMethods[svc] :
        f.name = "ue_get" /\ f.when # {} =>
            /\ ~f.open
            /\ \E id \in Parameters(f) \ {"imsi"} :
                  f.when = {id} /\ Parameters(f) = {"imsi", id}

\* Every parameter of a method of the HTTP client has a way to the service.
ASSUME MethodsDeliver ==
    \A svc \in DOMAIN HttpMethods : \A f \in HttpMethods[svc] : \A r \in AllRoutes :
        MayServe(svc, f, r) /\ r.plan # "probe" =>
            /\ \A p \in Parameters(f) :
                  \/ Spared(f.name, p) \/ Elsewhere(svc, f, p)
                  \/ /\ r.plan = "once"
                     /\ \E n \in FromMethod(svc, f, r, p) : Delivers(f.flags, r, n, p)
            /\ f.open =>
                  /\ f.where = "body" /\ r.plan = "once" /\ r.body # "none" /\ r.open
                  /\ Plain(f) /\ Plain(r)
                  /\ \A m \in MethodsNamed(r.path[1], r.name) : Plain(m)

\* So has every field of a route, in whichever route a request for it arrives.
ASSUME RoutesDeliver ==
    \A s, r \in AllRoutes :
        Reaches(s.verb, s.path, r) /\ r.plan # "probe" =>
            /\ \A p \in Asked(s) \cup Taken(s) :
                  \/ Spared(s.name, p)
                  \/ /\ r.plan = "once"
                     /\ \E n \in FromRoute(s, r, p) : Delivers({}, r, n, p)
            /\ s.open =>
                  /\ r.plan = "once" /\ r.body # "none" /\ r.open /\ Plain(r)
                  /\ \A m \in MethodsNamed(r.path[1], r.name) : Plain(m)

ASSUME ServicesProbe ==
    \A s \in AllRoutes :
        "service" \in SlotsIn(s.path) =>
            /\ Len(s.path) > 1 /\ ~IsSlot(s.path[1])
            /\ \A r \in AllRoutes :
                  /\ r.verb = s.verb /\ Len(r.path) = Len(s.path)
                  /\ IsSlot(r.path[1]) \/ r.path[1] = s.path[1]
                  => r.plan = "probe"

\* Where a method of the HTTP client has a method of its name in the WebSocket
\* API, the route it reaches calls that one, and gives each argument its name
\* back; a route's default is one that the method does not send.
ASSUME MethodsAgree ==
    \A svc \in Services : \A f \in HttpMethods[svc] : \A r \in AllRoutes :
        MayServe(svc, f, r) =>
            \A m \in MethodsNamed(svc, f.name) :
                /\ r.plan = "once" /\ r.path[1] = svc /\ r.name = f.name
                /\ f.fixed = {} /\ f.presets = {} /\ r.fixed = {} /\ r.flags = {}
                /\ m.yields = {} /\ m.presets = {} /\ f.flags \subseteq m.flags
                /\ \A d \in r.presets :
                      NewName(r, d[1]) \in m.flags \cup m.drops /\ ~Truthy(d[2])
                /\ \A p \in Parameters(f) : NewName(r, NewName(f, p)) = p
                /\ \A i \in DOMAIN r.path :
                      IsSlot(r.path[i]) =>
                          /\ IsSlot(PathOf(svc, f)[i])
                          /\ NewName(r, SlotAt(r.path, i)) = SlotAt(PathOf(svc, f), i)
                /\ f.open => Plain(f) /\ Plain(r)
==============================================================================
