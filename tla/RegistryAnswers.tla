------------------------------ MODULE RegistryAnswers ------------------------------
(***************************************************************************)
(* What the answers of a running registry promise each other and their     *)
(* readers.  The registry is that of module Registry; a query may be made  *)
(* in any of its states.                                                   *)
(***************************************************************************)
EXTENDS Registry, AnswerCodec

\* The whole graph, without the sides of its objects.
Everything ==
    [validation_policy |-> "IncludeAll", include_object_sides |-> FALSE,
     include_endpoint_ports |-> FALSE, objects |-> Objects, endpoints |-> Endpoints]

\* The calls that describe the whole graph describe the same one: the topology (asked for
\* without side detail), the inspection view, the snapshot, the ports by state, the
\* statistics and the session table agree in every count they share.
DescriptionsAgree ==
    LET topology == QueryTopology(state, Everything, Plenty)
        inspection == Inspect(state, Plenty)
        snapshot == build_snapshot(state)
        stats == build_stats(state)
    IN  /\ topology.summary = snapshot.summary
        /\ inspection.summary = snapshot.summary
        /\ \A n \in DOMAIN snapshot.summary.ports :
              snapshot.summary.ports[n]
                = Cardinality(collect_ports_by_state(state, n, "IncludeAll", Plenty))
        /\ stats.objects = Cardinality(DOMAIN topology.objects)
        /\ stats.evidence_fenced = snapshot.fenced
        /\ {w \in DOMAIN Sessions(state) : Sessions(state)[w].fenced_by # {}}
              = DOMAIN inspection.fenced_sessions

-----------------------------------------------------------------------------
(***************************************************************************)
(* Statements of the documentation that the code does not meet.            *)
(***************************************************************************)
\* README: "a move and a replacement are transitions recorded in the object history with
\* their own event kinds".  Every event has the kind of the record it cites.
KindOf(e) ==
    CASE e.kind = "Attach" -> "Attached"
      [] e.kind = "Detach" -> "Detached"
      [] e.kind = "Move" -> "Moved"
      [] OTHER -> "other"

HistoryKeepsKinds ==
    \A o \in Named(state, "object") : \A v \in collect_history(state, o) :
        \A e \in {x \in accepted : x.kind \in {"Attach", "Detach", "Move"} /\ Cites(v, x)} :
            v.kind = KindOf(e)

\* PendingReferenceView: "one evidence record whose reference does not exist yet".  An
\* inspection with pending claims lists at least one.
InspectListsPending ==
    count_pending_claims(state) > 0 => Inspect(state, Plenty).pending_references # {}

\* EndpointView: "the authoritative answer for one endpoint".  With port detail it lists
\* every port QueryPort answers for.
EndpointListsItsPorts ==
    \A e \in Named(state, "endpoint") : \A n \in 0 .. MaxPorts - 1 :
        QueryPort(state, <<e, n>>, "IncludeAll") # NotFound =>
            \A view \in QueryEndpoint(state, e, TRUE, "IncludeAll") :
                <<e, n>> \in DOMAIN view.ports

\* graph.hpp, Unvalidated: "nothing behind this answer was asserted in this registry
\* lifetime".  Leaving out the side detail does not make an answer Unvalidated.
DetailChangesNoAnswer ==
    \A o \in Named(state, "object") :
        ObjectView(state, o, FALSE, "IncludeAll").validation
            = ObjectView(state, o, TRUE, "IncludeAll").validation

\* ConflictNote: "claims are always cited: a conflict is never reported as a bare boolean".
ConflictsCited ==
    \A o \in Named(state, "object") :
        \A note \in derive_object_view(state, o, "IncludeAll").conflicts : note.claims # {}

\* AttachmentSlot: "slot of one attachment inside a port".  The slot of an edge of an
\* object side is one that some cited claim names at the port of that edge.
EdgeSlotClaimed ==
    \A k \in SubjectKeys(state) : \A x \in SideEdges(state, k.id, "IncludeAll") :
        \E j \in x.claims : /\ state.claims[j].value.port = x.port
                            /\ state.claims[j].value.slot = x.slot

\* AttachmentEdge: the claims are "corroborating winning claims".  Every claim an edge of
\* an object side cites places the side at the port of that edge.
EdgeClaimsCorroborate ==
    \A k \in SubjectKeys(state) : \A x \in SideEdges(state, k.id, "IncludeAll") :
        \A j \in x.claims : state.claims[j].value.port = x.port

\* A reader with the limits the registry runs with.  The limits the model does not bound
\* are ample, and at least one overridden claim is reported.
Own ==
    [claims |-> MaxClaimsPerPort, history |-> Max({1, HistoryPerKey}), sides |-> MaxSides,
     ports |-> MaxPorts, events |-> Plenty, entries |-> Plenty, batch |-> Plenty,
     sources |-> MaxSources, objects |-> MaxObjects, u32 |-> Plenty * Plenty]
Reported == 1

\* The round trip of tests/test_snapshot.cpp: what a registry exports decodes under the
\* limits the registry itself runs with.
SnapshotRoundTrips ==
    decode_snapshot(state, build_snapshot(state), Own)

\* The same of the answers to single questions: a port, an endpoint with its ports, an
\* object with its sides and history, a history, the inspection view.
AnswersRoundTrip ==
    LET events(o) == UNION {h.events : h \in QueryHistory(state, o, Plenty)}
    IN  /\ \A p \in PortsWithRecords(state) :
              decode_port_view(derive_port_view(state, p, "IncludeAll"), Reported, Own)
        /\ \A e \in Endpoints : \A view \in QueryEndpoint(state, e, TRUE, "IncludeAll") :
              decode_endpoint_view(view, Reported, Own)
        /\ \A o \in Objects : \A view \in QueryObject(state, o, TRUE, "IncludeAll") :
              decode_object_view(view, [n \in DOMAIN view.sides |-> EncodedSide(state, <<o, n>>)],
                                 events(o), Own)
        /\ \A o \in Objects : \A history \in QueryHistory(state, o, Plenty) :
              decode_object_history(history, Own)
        /\ decode_inspection_view(state, Inspect(state, Plenty), Reported, Own)

\* README: "collections sorted into canonical order at encode time, so a snapshot
\* assembled by hand is canonicalised too".  No list has two elements with one sort key.
SnapshotCanonical ==
    /\ canonicalise_ports(build_snapshot(state))
    /\ canonicalise_objects(state, build_snapshot(state))

\* AttachPayload: the slot "must be zero on a port that declares one attachment".
SlotsOfExclusivePorts ==
    \A k \in DOMAIN state.claims :
        (k.map = "port" /\ port_exists(state, k.id) /\ port_capability_of(state, k.id) = 1) =>
            k.slot = 0

\* OpenSessionResult::fenced_claims: "claims fenced by this call".  The count leaves out
\* what an earlier incarnation had fenced already.
FencedByThisCall ==
    [][\A s \in DOMAIN state.sources :
        LET from == state.sources[s].current_incarnation
            to == state'.sources[s].current_incarnation
            fenced_claims == count_claims_before(state, s, to)
            fenced_already == count_claims_before(state, s, from)
            fenced_now == count_claims_before(state', s, to)
        IN  to > from => fenced_claims = fenced_now - fenced_already]_vars
==================================================================================
