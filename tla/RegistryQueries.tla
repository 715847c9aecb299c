------------------------------ MODULE RegistryQueries ------------------------------
(***************************************************************************)
(* The read side of the public interface (src/registry.cpp): the queries   *)
(* other than QueryHistory, the inspection view and the statistics.  Every *)
(* operator is what one call computes while it holds the shared lock.      *)
(*                                                                         *)
(* Objects, endpoints and ports have no order here: a loop that stops at a *)
(* bound lists some subset of the right size, a fixed one for a given set. *)
(***************************************************************************)
EXTENDS RegistryGraph, SequencesExt

\* A loop that appends first and compares with the bound afterwards: it always lists one.
UpTo(S, bound) ==
    CHOOSE T \in SUBSET S : Cardinality(T) = Min({Cardinality(S), Max({bound, 1})})

-----------------------------------------------------------------------------
(***************************************************************************)
(* Point queries.                                                          *)
(***************************************************************************)
QueryPort(st, p, policy) ==
    Outcome(endpoint_exists(st, p[1]) /\ port_exists(st, p), derive_port_view(st, p, policy))

\* The ports of the winning registration, whatever the other sources declared.
QueryEndpoint(st, e, include_ports, policy) ==
    LET registration == winning_endpoint(st, e)
        listed == IF include_ports THEN {<<e, n>> : n \in 0 .. registration.port_count - 1}
                  ELSE {}
    IN  Outcome(endpoint_exists(st, e),
                [port_count |-> registration.port_count, capacity |-> registration.capacity,
                 ports |-> [p \in listed |-> derive_port_view(st, p, policy)]])

\* Mutation: without the sides nothing is derived from them.
ObjectView_no_sides(st, o, include_object_sides, policy) ==
    LET view == derive_object_view(st, o, policy)
    IN  IF include_object_sides THEN view
        ELSE [view EXCEPT !.sides = EmptyFunction, !.validation = "Unvalidated",
                          !.lifecycle = derive_lifecycle(st, o, FALSE, FALSE)]

\* Without the sides the loop derives them all the same, but keeps no validation.
ObjectView(st, o, include_object_sides, policy) ==
    LET view == derive_object_view(st, o, policy)
    IN  IF include_object_sides THEN view
        ELSE [view EXCEPT !.sides = EmptyFunction, !.validation = combine_validation(FALSE, TRUE)]

QueryObject(st, o, include_object_sides, policy) ==
    Outcome(object_exists(st, o), ObjectView(st, o, include_object_sides, policy))

\* The order of PortRef; EndpointIds are ordered in some fixed way.
PortLess(p, q) ==
    LET order == SetToSeq(Endpoints)
        Rank(e) == CHOOSE i \in DOMAIN order : order[i] = e
    IN  \/ Rank(p[1]) < Rank(q[1])
        \/ p[1] = q[1] /\ p[2] < q[2]

\* The edges of one object side.  The ports are sorted and repeats removed; the slots stay
\* in the order of the owners, and the two lists are paired by position.
SideEdges(st, s, policy) ==
    LET side == derive_subject(st, s, policy)
        ports == SetToSortSeq(side.ports, PortLess)
        claims == SetToSortSeq(side.top, LAMBDA j, k : OwnerLess(j.owner, k.owner))
    IN  {[port |-> ports[i], slot |-> st.claims[claims[i]].value.slot, claims |-> side.top] :
            i \in DOMAIN ports}

collect_ports_by_state(st, wanted, policy, max_snapshot_entries) ==
    UpTo({p \in PortsWithRecords(st) : derive_port_view(st, p, policy).state = wanted},
         max_snapshot_entries)

\* options: validation_policy, include_object_sides, include_endpoint_ports, and the sets
\* of objects and endpoints the caller asks for (all of them, or one).  A query about one
\* object lists no ports.  Each of the three lists ends at max_snapshot_entries.
QueryTopology(st, options, max_snapshot_entries) ==
    LET policy == options.validation_policy
        listed(S) == UpTo(S, max_snapshot_entries)
        objects == [o \in listed(Named(st, "object") \cap options.objects) |->
                        ObjectView(st, o, options.include_object_sides, policy)]
        ports == [p \in listed({q \in PortsWithRecords(st) : q[1] \in options.endpoints
                                                             /\ options.objects = Objects}) |->
                        derive_port_view(st, p, policy)]
    IN  [objects |-> objects, ports |-> ports,
         endpoints |-> [e \in listed(Named(st, "endpoint") \cap options.endpoints) |->
                            QueryEndpoint(st, e, options.include_endpoint_ports, policy)],
         summary |-> summarize(ports, objects),
         fenced |-> count_fenced_claims(st), pending |-> count_pending_claims(st)]

-----------------------------------------------------------------------------
(***************************************************************************)
(* Sessions, inspection and statistics.                                    *)
(***************************************************************************)
\* The session table as answered: what fences it comes from the source record.
Sessions(st) ==
    [w \in DOMAIN st.sessions |->
        [live |-> st.sessions[w].live, high_water |-> st.sessions[w].high_water,
         authority |-> st.sources[w[1]].authority,
         fenced_by |-> IF session_is_fenced(st, w)
                       THEN {st.sources[w[1]].current_incarnation} ELSE {}]]

\* The claims a source made under lower incarnations than this one.
count_claims_before(st, source, incarnation) ==
    TotalWeight(st, {k \in DOMAIN st.claims :
                        /\ k.owner[1] = source /\ k.owner[2] < incarnation
                        /\ k.map \notin {"object", "endpoint"}})

\* The first record of a port, in (owner, slot) order.
FirstRecord(st, p) ==
    CHOOSE k \in KeysOf(st, "port", p) : \A j \in KeysOf(st, "port", p) :
        \/ OwnerLess(k.owner, j.owner)
        \/ k.owner = j.owner /\ k.slot <= j.slot

\* A port is listed as pending by its first record alone, and an unvalidated port only
\* when its references exist.
InspectPort(st, p) ==
    LET first == st.claims[FirstRecord(st, p)]
        view == derive_port_view(st, p, "IncludeAll")
    IN  IF ~object_exists(st, first.value.subject[1]) \/ ~port_exists(st, p) THEN "pending"
        ELSE IF view.validation = "Unvalidated" /\ view.state # "Unknown" THEN "unvalidated"
        ELSE "resolved"

\* The walk over the ports ends with the port that fills the list of unvalidated ones.
InspectWalk(found, bound) ==
    LET all == SetToSeq(DOMAIN found)
        full == {i \in DOMAIN all :
                    Cardinality({j \in 1 .. i : found[all[j]] = "unvalidated"}) >= Max({bound, 1})}
    IN  {all[i] : i \in 1 .. Min(full \cup {Len(all)})}

Inspect(st, bound) ==
    LET found == [p \in PortsWithRecords(st) |-> InspectPort(st, p)]
        walked == InspectWalk(found, bound)
        fenced == {w \in DOMAIN st.sessions : session_is_fenced(st, w)}
        objects == fenced_claims_by_object(st)
    IN  [fenced_sessions |-> [w \in UpTo(fenced, bound) |-> count_session_claims(st, w)],
         fenced_objects |-> [o \in UpTo(DOMAIN objects, bound) |-> objects[o]],
         unvalidated_ports |-> {p \in walked : found[p] = "unvalidated"},
         pending_references |-> {FirstRecord(st, p) :
                                    p \in {q \in walked : found[q] = "pending"}},
         summary |-> summarize([p \in UpTo(PortsWithRecords(st), bound) |->
                                    derive_port_view(st, p, "IncludeAll")],
                               [o \in UpTo(Named(st, "object"), bound) |->
                                    ObjectView(st, o, FALSE, "IncludeAll")]),
         fenced |-> count_fenced_claims(st), pending |-> count_pending_claims(st)]

\* The counts of the statistics that are read from the folded state.
build_stats(st) ==
    LET records(maps) == Cardinality({k \in DOMAIN st.claims : k.map \in maps})
    IN  [objects |-> Cardinality(Named(st, "object")),
         endpoints |-> Cardinality(Named(st, "endpoint")),
         ports |-> MapThenSumSet(LAMBDA e : endpoint_port_count(st, e), Named(st, "endpoint")),
         sources |-> Cardinality(DOMAIN st.sources),
         sessions |-> Cardinality(DOMAIN st.sessions),
         live_sessions |-> Cardinality({w \in DOMAIN st.sessions : st.sessions[w].live}),
         claim_records |-> records({"subject"}), port_records |-> records({"port"}),
         lifecycle_records |-> records({"lifecycle"}),
         capability_records |-> records({"object_cap", "port_cap"}),
         evidence_superseded |-> MapThenSumSet(LAMBDA k : Cardinality(st.claims[k].superseded),
                                               DOMAIN st.claims),
         evidence_fenced |-> count_fenced_claims(st),
         evidence_pending |-> count_pending_claims(st)]
==================================================================================
