------------------------------ MODULE RegistryGraph ------------------------------
(***************************************************************************)
(* The authoritative graph: the port and object answers, the counters of   *)
(* the summary, the canonical snapshot whose encoding is digested and its  *)
(* envelope, and the history of an object.                                 *)
(***************************************************************************)
EXTENDS RegistryViews

\* The ids that some record of the map carries.
Named(st, map) == {k.id : k \in {j \in DOMAIN st.claims : j.map = map}}

PortsWithRecords(st) == Named(st, "port")

\* An occupied port record counts only while the same source still places the
\* same side there, at the same slot, by the same generation.
StillAsserted(st, k) ==
    LET value == st.claims[k].value
        own == SubjectKey(value.subject, k.owner)
    IN  /\ own \in DOMAIN st.claims
        /\ st.claims[own].generation = st.claims[k].generation
        /\ st.claims[own].value.attached
        /\ st.claims[own].value.port = k.id
        /\ st.claims[own].value.slot = k.slot
        /\ st.claims[own].value.object_incarnation = value.object_incarnation

LivePortKeys(st, p, policy) ==
    {k \in UnfencedKeys(st, "port", p) :
        LET value == st.claims[k].value
            object == value.subject[1]
        IN  /\ participates(st.claims[k], policy)
            /\ object_exists(st, object) /\ ~object_excluded(st, object)
            /\ value.object_incarnation = object_incarnation_of(st, object)
            /\ value.empty \/ StillAsserted(st, k)}

\* The slot of an edge: the loop keeps the one of the last record, in owner order.
LastSlot(K) ==
    (CHOOSE k \in K : \A j \in K : j.owner = k.owner \/ OwnerLess(j.owner, k.owner)).slot

\* A ConflictNote and the claims it cites; port and detail follow from its place.
ConflictNote(reason, subject, claims) ==
    [reason |-> reason, subject |-> subject, claims |-> claims]

\* The default constructed ObjectSideRef of a note that is not about one side.
NilSide == << >>

NoteIf(condition, note) == IF condition THEN {note} ELSE {}

\* The answer for a port whose records that count are live.
PortAnswer(st, p, policy, live) ==
    LET best == TopAuthority(st, live)
        empty == {k \in best : st.claims[k].value.empty}
        occupied == best \ empty
        subjects == {st.claims[k].value.subject : k \in occupied}
        too_many == Cardinality(subjects) > port_capability_of(st, p)
        mixed == empty # {}
        double_booked == {s \in subjects : subject_double_booked(st, s, policy)}
        claims(s) == {k \in occupied : st.claims[k].value.subject = s}
        attachment == IF too_many \/ mixed \/ double_booked # {}
                      THEN "Conflicting" ELSE "Attached"
    IN  [state |-> IF occupied # {} THEN attachment
                   ELSE IF empty # {} THEN "Empty" ELSE "Unknown",
         validation |-> ValidationOf(st, best),
         capability |-> port_capability_of(st, p),
         edges |-> {[subject |-> s, claims |-> claims(s), slot |-> LastSlot(claims(s)),
                     validation |-> ValidationOf(st, claims(s))] : s \in subjects},
         conflicts |->
            NoteIf(too_many, ConflictNote("TooManyAttachments", NilSide, occupied))
            \cup NoteIf(mixed /\ occupied # {}, ConflictNote("EmptyAndOccupied", NilSide, best))
            \cup {ConflictNote("ObjectSideDoubleBooked", s, derive_subject(st, s, policy).top) :
                    s \in double_booked},
         emptiness_claims |-> empty,
         overridden |-> live \ best]

derive_port_view(st, p, policy) == PortAnswer(st, p, policy, LivePortKeys(st, p, policy))

\* No capability was published for the object; the registered one applies.
RegisteredCapability == 0

\* The answer for a registered object whose sides have these answers.
ObjectAnswer(st, o, side) ==
    LET registrations == TopAuthority(st, KeysOf(st, "object", o))
        published == TopAuthority(st, UnfencedKeys(st, "object_cap", o))
        Disagree(K) == \E j, k \in K : st.claims[j].value # st.claims[k].value
        recorded == {n \in DOMAIN side : side[n].has_records}
    IN  [label |-> winning_registration(st, o).label,
         incarnation |-> object_incarnation_of(st, o),
         capability |-> IF published = {} THEN RegisteredCapability
                        ELSE st.claims[WinningKey(st, published)].value.capability,
         sides |-> side,
         lifecycle |-> derive_lifecycle(st, o,
                           \E n \in DOMAIN side : side[n].state \in {"Attached", "Conflicting"},
                           \E n \in DOMAIN side : side[n].state = "Empty"),
         conflicts |->
            NoteIf(Disagree(published), ConflictNote("PublishedCapability", NilSide, {}))
            \cup NoteIf(Disagree(registrations), ConflictNote("RegisteredCapability", NilSide, {}))
            \cup NoteIf(lifecycle_action_of(st, o).conflicting,
                        ConflictNote("LifecycleConflict", NilSide,
                                     TopAuthority(st, LifecycleCandidates(st, o)))),
         validation |-> combine_validation(
                           \E n \in recorded : side[n].validation # "Unvalidated",
                           \A n \in recorded : side[n].validation = "Validated")]

derive_object_view(st, o, policy) ==
    ObjectAnswer(st, o, [n \in 0 .. winning_registration(st, o).sides - 1 |->
                            derive_subject(st, <<o, n>>, policy)])

-----------------------------------------------------------------------------
(***************************************************************************)
(* Counters.                                                               *)
(***************************************************************************)
\* A winner and the records retained behind it.
Weight(st, k) == 1 + Cardinality(st.claims[k].superseded)

TotalWeight(st, K) == MapThenSumSet(LAMBDA k : Weight(st, k), K)

ClaimObject(st, k) ==
    CASE k.map = "subject" -> k.id[1]
      [] k.map = "port" -> st.claims[k].value.subject[1]
      [] OTHER -> k.id

\* Claims made against an incarnation the object does not have now.
OffIncarnation(st, k) ==
    /\ k.map \in {"subject", "port", "lifecycle"}
    /\ st.claims[k].value.object_incarnation # object_incarnation_of(st, ClaimObject(st, k))

\* Registrations and reincarnations are not counted.
count_fenced_claims(st) ==
    TotalWeight(st,
        {k \in DOMAIN st.claims :
            /\ k.map \notin {"object", "endpoint", "reincarnation"}
            /\ \/ session_is_fenced(st, k.owner)
               \/ OffIncarnation(st, k) /\ object_exists(st, ClaimObject(st, k))})

count_session_claims(st, w) ==
    TotalWeight(st, {k \in DOMAIN st.claims :
                        k.owner = w /\ k.map \notin {"object", "endpoint"}})

\* Restricted to the objects that have such claims.
fenced_claims_by_object(st) ==
    LET fenced == {k \in DOMAIN st.claims : OffIncarnation(st, k)}
        of(o) == {k \in fenced : ClaimObject(st, k) = o}
    IN  [o \in {ClaimObject(st, k) : k \in fenced} |-> TotalWeight(st, of(o))]

\* A reference is missing, or names an incarnation the object has not reached.
PendingClaim(st, k) ==
    LET object == ClaimObject(st, k)
        ahead == /\ k.map \in {"subject", "port"}
                 /\ st.claims[k].value.object_incarnation > object_incarnation_of(st, object)
    IN  CASE k.map = "subject" -> \/ ~object_exists(st, object)
                                  \/ ahead /\ ~session_is_fenced(st, k.owner)
          [] k.map = "port" -> ~port_exists(st, k.id) \/ ~object_exists(st, object) \/ ahead
          [] k.map = "port_cap" -> ~port_exists(st, k.id)
          [] k.map \in {"object", "endpoint"} -> FALSE
          [] OTHER -> ~object_exists(st, object)

count_pending_claims(st) == Cardinality({k \in DOMAIN st.claims : PendingClaim(st, k)})

-----------------------------------------------------------------------------
(***************************************************************************)
(* The canonical snapshot.  Two registries have the same graph digest when *)
(* these values are equal (the registry identity is not part of it).       *)
(***************************************************************************)
\* The winners, without rings, liveness or lifetime flags.
encode_provenance_image(st) ==
    [k \in DOMAIN st.claims |->
        [generation |-> st.claims[k].generation, evidence |-> st.claims[k].evidence,
         authority |-> st.claims[k].authority, value |-> st.claims[k].value]]

\* The totals over port and object answers; a Conflicting lifecycle counts twice, as a
\* state and as a note.
summarize(ports, objects) ==
    LET Notes(views) == MapThenSumSet(LAMBDA x : Cardinality(views[x].conflicts), DOMAIN views)
        InState(n) == Cardinality({p \in DOMAIN ports : ports[p].state = n})
        InLifecycle(n) == Cardinality({o \in DOMAIN objects : objects[o].lifecycle = n})
    IN  [ports |-> [n \in {"Unknown", "Empty", "Attached", "Conflicting"} |-> InState(n)],
         edges |-> MapThenSumSet(LAMBDA p : Cardinality(ports[p].edges), DOMAIN ports),
         objects |-> [n \in LifecycleAction \cup {"Registered", "Unattached", "Attached"} |->
                        InLifecycle(n)],
         conflicts |-> Notes(ports) + Notes(objects) + InLifecycle("Conflicting")]

\* Validation is a property of this lifetime and is not exported.
SnapshotOf(st, object, port) ==
    [objects |-> [o \in DOMAIN object |->
                    [label |-> object[o].label, incarnation |-> object[o].incarnation,
                     capability |-> object[o].capability, lifecycle |-> object[o].lifecycle,
                     sides |-> [n \in DOMAIN object[o].sides |->
                                  [ports |-> object[o].sides[n].ports,
                                   top |-> object[o].sides[n].top]]]],
     endpoints |-> [e \in Named(st, "endpoint") |-> winning_endpoint(st, e)],
     ports |-> [p \in DOMAIN port |->
                    [state |-> port[p].state, capability |-> port[p].capability,
                     conflicts |-> port[p].conflicts,
                     edges |-> {[subject |-> x.subject, claims |-> x.claims,
                                 slot |-> x.slot] : x \in port[p].edges}]],
     summary |-> summarize(port, object),
     fenced_sessions |-> [w \in {v \in DOMAIN st.sessions : session_is_fenced(st, v)} |->
                            [fenced_by |-> st.sources[w[1]].current_incarnation,
                             claims |-> count_session_claims(st, w)]],
     fenced_objects |-> fenced_claims_by_object(st),
     fenced |-> count_fenced_claims(st),
     pending |-> count_pending_claims(st),
     provenance |-> encode_provenance_image(st)]

build_snapshot(st) ==
    SnapshotOf(st, [o \in Named(st, "object") |-> derive_object_view(st, o, "IncludeAll")],
                   [p \in Named(st, "port") |-> derive_port_view(st, p, "IncludeAll")])

\* What SnapshotWithMetadata adds to build_snapshot: the validation of the ports, and of the
\* claims their edges cite.
SnapshotMetadata(st) ==
    LET port == [p \in PortsWithRecords(st) |-> derive_port_view(st, p, "IncludeAll")]
        in(v) == Cardinality({p \in DOMAIN port : port[p].validation = v})
        cited == UNION {UNION {x.claims : x \in port[p].edges} : p \in DOMAIN port}
        live == {k \in cited : st.claims[k].asserted_in_lifetime}
    IN  [claims_live |-> Cardinality(live), claims_recovered |-> Cardinality(cited \ live),
         ports_validated |-> in("Validated"), ports_unvalidated |-> in("Unvalidated"),
         ports_partially_validated |-> in("PartiallyValidated")]

-----------------------------------------------------------------------------
(***************************************************************************)
(* History.  Events carry no timestamps, so a history is the set the code  *)
(* sorts; of one that is too long, some subset of the right size is left.  *)
(***************************************************************************)
\* An Outcome: the value, or the error NotFound.
NotFound == {}

Outcome(found, view) == IF found THEN {view} ELSE NotFound

Event(kind, k, generation, evidence) ==
    [kind |-> kind, side |-> IF k.map = "subject" THEN k.id[2] ELSE 0, source |-> k.owner[1],
     incarnation |-> k.owner[2], generation |-> generation, evidence |-> evidence]

\* The kind an event takes from the winner of its key.
EventKind(st, k) ==
    LET value == st.claims[k].value
    IN  CASE k.map = "object" -> "Registered"
          [] k.map = "reincarnation" -> "Reincarnated"
          [] k.map = "lifecycle" -> IF value.action = "Present" THEN "Released" ELSE value.action
          [] k.map = "subject" -> IF ~value.attached THEN "Detached"
                                  ELSE IF value.move_from # NilPort THEN "Moved" ELSE "Attached"

\* Mutation: the side records of every object are taken.
HistoryKeys_any_object(st, o) ==
    KeysOf(st, "object", o)
    \cup {k \in DOMAIN st.claims : k.map = "subject" /\ ~session_is_fenced(st, k.owner)}
    \cup UnfencedKeys(st, "lifecycle", o) \cup UnfencedKeys(st, "reincarnation", o)

\* Registrations whoever made them; otherwise unfenced owners only, and side records only
\* against the current unit.
HistoryKeys(st, o) ==
    KeysOf(st, "object", o)
    \cup {k \in DOMAIN st.claims :
            /\ k.map = "subject" /\ k.id[1] = o /\ ~session_is_fenced(st, k.owner)
            /\ st.claims[k].value.object_incarnation = object_incarnation_of(st, o)}
    \cup UnfencedKeys(st, "lifecycle", o) \cup UnfencedKeys(st, "reincarnation", o)

\* The winner of each key, and for registrations and sides the ring behind it.
collect_history(st, o) ==
    UNION {{Event(EventKind(st, k), k, st.claims[k].generation, st.claims[k].evidence)}
           \cup (IF k.map \in {"object", "subject"}
                 THEN {Event(EventKind(st, k), k, a.generation, a.evidence) :
                            a \in st.claims[k].superseded}
                 ELSE {}) : k \in HistoryKeys(st, o)}

\* The oldest events go first when there are more than max_events.
QueryHistory(st, o, max_events) ==
    LET events == collect_history(st, o)
        excess == Max({0, Cardinality(events) - max_events})
    IN  Outcome(object_exists(st, o),
                [events |-> CHOOSE T \in SUBSET events :
                                Cardinality(T) = Cardinality(events) - excess,
                 dropped_events |-> excess])
==================================================================================
