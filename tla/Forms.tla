-------------------------------- MODULE Forms --------------------------------
(****************************************************************************)
(* The tables of the system: the methods of the service APIs, the routes of *)
(* the REST service and the methods of its HTTP client are all "forms": a   *)
(* signature and a rule for what becomes of the arguments. An argument list *)
(* is a set of pairs <<name, value>>. A value remembers the parameter the   *)
(* caller gave it for, and whether Python takes it for false; what it is    *)
(* otherwise makes no difference here.                                      *)
(****************************************************************************)
EXTENDS Naturals, Sequences

Services == {"enb", "mme", "ims", "ue"}

Given(p)   == <<"given", p>>
Zero(p)    == <<"zero", p>>       \* 0, "", [] or False
Literal(v) == <<"literal", v>>

Truthy(v)    == v[1] # "zero" /\ v # Literal("False")
Names(args)  == {a[1] : a \in args}
Literals(ps) == {<<p[1], Literal(p[2])>> : p \in ps}

-----------------------------------------------------------------------------
(* Constructors: a group of forms, then what it adds to each of them.       *)

Blank ==
    [name |-> "", message |-> "", verb |-> "", path |-> << >>,
     required |-> {}, optional |-> {},               \* signature, or query
     body |-> "none", asks |-> {}, takes |-> {},      \* body of a route
     presets |-> {}, renames |-> {}, drops |-> {}, flags |-> {},
     ignores |-> {}, fixed |-> {}, yields |-> {}, open |-> FALSE,
     where |-> "nowhere", when |-> {}, twice |-> {},  \* of a client's call
     plan |-> "once", probes |-> 0]

\* Methods that send the command of their own name, and those that do not.
Methods(names, required, optional) ==
    {[Blank EXCEPT !.name = n, !.message = n,
                   !.required = required, !.optional = optional] : n \in names}
Aliases(pairs, required, optional) ==
    {[Blank EXCEPT !.name = p[1], !.message = p[2],
                   !.required = required, !.optional = optional] : p \in pairs}

\* Routes, and calls of a client: <<method, segment, segment, ...>>.
At(verb, entries) ==
    {[Blank EXCEPT !.verb = verb, !.name = e[1], !.path = Tail(e)] : e \in entries}

Takes(required, optional, S) ==
    {[f EXCEPT !.required = required, !.optional = optional] : f \in S}
Open(S)        == {[f EXCEPT !.open = TRUE] : f \in S}
Flags(ps, S)   == {[f EXCEPT !.flags = ps] : f \in S}    \* sent if truthy
Presets(ps, S) == {[f EXCEPT !.presets = Literals(ps)] : f \in S}
Renamed(ps, S) == {[f EXCEPT !.renames = ps] : f \in S}
Fixed(ps, S)   == {[f EXCEPT !.fixed = Literals(ps)] : f \in S}
Drops(ps, S)   == {[f EXCEPT !.drops = ps] : f \in S}    \* if x: ... = x
Ignores(ps, S) == {[f EXCEPT !.ignores = ps] : f \in S}
Either(p, q, S) == {[f EXCEPT !.yields = {<<q, p>>}] : f \in S}  \* if p elif q

Body(asks, takes, S) ==
    {[f EXCEPT !.body = "required", !.asks = asks, !.takes = takes] : f \in S}
MayBody(takes, S) == {[f EXCEPT !.body = "optional", !.takes = takes] : f \in S}
OpenBody(S)       == {[f EXCEPT !.body = "required", !.open = TRUE] : f \in S}
Planned(plan, S)  == {[f EXCEPT !.plan = plan] : f \in S}
Probes(n, S)      == {[f EXCEPT !.plan = "probe", !.probes = n] : f \in S}

InQuery(S)     == {[f EXCEPT !.where = "query"] : f \in S}
InBody(S)      == {[f EXCEPT !.where = "body"] : f \in S}
InBodyIfAny(S) == {[f EXCEPT !.where = "bodyIfAny"] : f \in S}
When(ps, S)    == {[f EXCEPT !.when = ps] : f \in S}
Twice(ps, S)   == {[f EXCEPT !.twice = ps] : f \in S}

-----------------------------------------------------------------------------
(* What a form does.                                                        *)

Parameters(f) == f.required \cup f.optional \cup f.flags \cup Names(f.presets)

\* A Python call binds: else TypeError.
Accepts(f, args) ==
    /\ f.required \subseteq Names(args)
    /\ f.open \/ Names(args) \subseteq Parameters(f)

NewName(f, p) ==
    IF \E r \in f.renames : r[1] = p
    THEN (CHOOSE r \in f.renames : r[1] = p)[2]
    ELSE p

\* Is argument a passed on, given all the arguments?
Sends(f, a, args) ==
    /\ a[1] \notin f.ignores
    /\ a[1] \in f.drops \cup f.flags => Truthy(a[2])
    /\ \A y \in f.yields : y[1] = a[1] => y[2] \notin Names(args)

Passed(f, args) ==
    LET all  == args \cup {d \in f.presets : d[1] \notin Names(args)}
        sent == {a \in all : Sends(f, a, all)}
    IN  f.fixed \cup
        {<<NewName(f, a[1]), IF a[1] \in f.flags THEN Literal("True") ELSE a[2]>> :
            a \in sent}

\* The slots of a path and the parameters they stand for.
SlotOf ==
    [amf_addr |-> "{amf_addr}", bearer_id |-> "{bearer_id}",
     call_id |-> "{call_id}", cell_id |-> "{cell_id}",
     enb_ue_id |-> "{enb_ue_id}", imei |-> "{imei}", impu |-> "{impu}",
     imsi |-> "{imsi}", message_id |-> "{message_id}",
     mme_addr |-> "{mme_addr}", mme_ue_id |-> "{mme_ue_id}",
     ncell_id |-> "{ncell_id}", pdn_id |-> "{pdn_id}",
     service |-> "{service}", ue_id |-> "{ue_id}"]
TextSlots == {"amf_addr", "imei", "impu", "imsi", "mme_addr", "service"}

SlotsIn(path) == {p \in DOMAIN SlotOf : \E i \in DOMAIN path : path[i] = SlotOf[p]}
SlotAt(path, i) == CHOOSE p \in DOMAIN SlotOf : path[i] = SlotOf[p]
IsSlot(seg) == \E p \in DOMAIN SlotOf : seg = SlotOf[p]
=============================================================================
