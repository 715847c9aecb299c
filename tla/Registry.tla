-------------------------------- MODULE Registry --------------------------------
(***************************************************************************)
(* The registry runtime with no store: one process, whose public methods   *)
(* take the exclusive lock and so are single steps.  Evidence is a fixed   *)
(* set of records that reach the registry in any order and any number of   *)
(* times, or never; Openings is the set of OpenSession calls a source may  *)
(* make.  Queries are the operators of RegistryGraph, evaluated in any     *)
(* state.                                                                  *)
(***************************************************************************)
EXTENDS RegistryIngest, RegistryGraph

CONSTANTS
    Evidence,   \* the evidence records that exist
    Openings    \* the OpenSession calls: records with source, authority, incarnation

ASSUME EvidenceAssumption == Evidence \subseteq EvidenceType

ASSUME OpeningsAssumption ==
    Openings \subseteq [source: SourceId, authority: Nat, incarnation: Nat]

VARIABLES
    state,      \* Impl::state and the label index
    closed,     \* Impl::closed
    accepted    \* history: the records that were acknowledged as accepted

vars == <<state, closed, accepted>>

Init ==
    /\ state = EmptyState
    /\ closed = FALSE
    /\ accepted = {}

OpenSession(o) ==
    /\ ~closed
    /\ IF opens(open_disposition(state, o.source, o.authority, o.incarnation))
       THEN state' = set_session_live(
                        apply_session_open(state, o.source, o.authority, o.incarnation),
                        <<o.source, o.incarnation>>, TRUE)
       ELSE state' = state
    /\ UNCHANGED <<closed, accepted>>

CloseSession(w) ==
    /\ ~closed
    /\ w \in DOMAIN state.sessions
    /\ state' = set_session_live(state, w, FALSE)
    /\ UNCHANGED <<closed, accepted>>

Ingest(e) ==
    /\ ~closed
    /\ LET result == ingest_locked(state, e, TRUE, TRUE)
       IN  /\ state' = result.state
           /\ accepted' = IF is_accepted(result.disposition) THEN accepted \cup {e} ELSE accepted
    /\ UNCHANGED closed

\* Stops accepting work; idempotent.
Close ==
    /\ closed' = TRUE
    /\ UNCHANGED <<state, accepted>>

Next ==
    \/ \E o \in Openings : OpenSession(o)
    \/ \E w \in DOMAIN state.sessions : CloseSession(w)
    \/ \E e \in Evidence : Ingest(e)
    \/ Close

Spec == Init /\ [][Next]_vars

-----------------------------------------------------------------------------
(***************************************************************************)
(* Invariants.                                                             *)
(***************************************************************************)
\* Every stored value has its type.
TypeOK ==
    /\ StateType(state)
    /\ closed \in BOOLEAN
    /\ accepted \subseteq Evidence

\* "For every claim key the registry keeps the record with the highest generation of
\* that source incarnation": whatever the order of arrival, the winner of a key is newer
\* than every record in its ring.  Reincarnation keys are excepted: decide files a
\* newer record that asks for an incarnation already reached in the ring.
NewestGenerationWins ==
    \A k \in DOMAIN state.claims :
        k.map # "reincarnation" =>
            \A a \in state.claims[k].superseded : a.generation < state.claims[k].generation

\* No claim exists without the session it was published under, and the session's
\* high-water mark covers every generation its claims carry.
ClaimsBelongToSessions ==
    \A k \in DOMAIN state.claims :
        /\ k.owner \in DOMAIN state.sessions
        /\ k.owner[1] \in DOMAIN state.sources
        /\ state.claims[k].generation <= state.sessions[k.owner].high_water
        /\ \A a \in state.claims[k].superseded :
              a.generation <= state.sessions[k.owner].high_water

\* The two halves of an attachment are stored together and never torn: while a source
\* places a side at a port slot, that source's record of the slot is at least as new,
\* and if it is of the same generation it names the side as occupant.
SubjectBackedByPort ==
    \A k \in DOMAIN state.claims :
        (k.map = "subject" /\ state.claims[k].value.attached) =>
            LET value == state.claims[k].value
                half == PortKey(value.port, k.owner, value.slot)
            IN  /\ half \in DOMAIN state.claims
                /\ state.claims[half].generation >= state.claims[k].generation
                /\ state.claims[half].generation = state.claims[k].generation =>
                      /\ ~state.claims[half].value.empty
                      /\ state.claims[half].value.subject = k.id

\* "The index is a hint": a valid label index misses no registered label, so the reuse
\* check never overlooks a holder.
LabelIndexComplete == state.label_index_valid => RegisteredLabels(state) \subseteq state.label_index

\* A supersession ring never outgrows history_per_key, and a port never carries more
\* than one claim record beyond max_claim_records_per_port: the two keys of a move are
\* checked against the count before either is added.
BoundedRecords ==
    /\ \A k \in DOMAIN state.claims : Cardinality(state.claims[k].superseded) <= HistoryPerKey
    /\ \A k \in DOMAIN state.claims :
          k.map = "port" => Cardinality(KeysOf(state, "port", k.id)) <= MaxClaimsPerPort + 1
    /\ Cardinality({o \in Objects : object_exists(state, o)}) <= MaxObjects
    /\ Cardinality({x \in Endpoints : endpoint_exists(state, x)}) <= MaxEndpoints
    /\ Cardinality(DOMAIN state.sources) <= MaxSources

\* Delivering again any record that was accepted before changes no winner of any key:
\* retries and duplicated deliveries leave the graph alone, however late they arrive.
\* Excepted is a replacement of an object that has fallen back since, because whoever
\* reported it first was fenced: the later report was accepted and stored nowhere.
RetryKeepsWinners ==
    \A e \in {x \in accepted : ~Unreached(state, x)} :
        encode_provenance_image(ingest_locked(state, e, TRUE, TRUE).state)
            = encode_provenance_image(state)

\* The answers the registry gives about every object and every port it knows.
Answers(st) ==
    [objects |-> [o \in {x \in Objects : object_exists(st, x)} |->
                    derive_object_view(st, o, "IncludeAll")],
     ports |-> [p \in {k.id : k \in {j \in DOMAIN state.claims : j.map = "port"}} |->
                    derive_port_view(st, p, "IncludeAll")]]

\* A fenced source incarnation can say what it likes about attachment, lifecycle or
\* capability, and a live one what it likes about a unit that was replaced: no answer of
\* the registry changes, except that a source that itself asserted something about the
\* replacement may take that back.
FencedEvidenceNeverBinds ==
    \A e \in Evidence :
        (/\ WellFormed(e) /\ KnownSession(state, e)
         /\ e.kind \notin {"RegisterObject", "RegisterEndpoint"}
         /\ \/ session_is_fenced(state, OwnerOf(e))
            \/ /\ decide(state, e).disposition = "AcceptedFencedIncarnation"
               /\ ClaimKeys(e) \cap DOMAIN state.claims = {}) =>
            Answers(ingest_locked(state, e, TRUE, TRUE).state) = Answers(state)

\* More than any instance holds.
Plenty == 100

\* The object a record is about.
EvidenceObject(e) ==
    IF e.kind \in {"Attach", "Detach", "Move"} THEN e.payload.subject[1] ELSE e.payload.object

\* An event of a history names a record by its id, generation and source incarnation.
Cites(v, e) ==
    /\ e.id = v.evidence /\ e.generation = v.generation
    /\ OwnerOf(e) = <<v.source, v.incarnation>>

\* README: every record carries "a unique evidence identifier".
DistinctIds ==
    \A e, f \in Evidence : (e.source = f.source /\ e.id = f.id) => e = f

\* The history of an object is made of records that were accepted and are about that
\* object, each of them listed once, whatever was folded, superseded or fenced since.
HistoryCitesAccepted ==
    \A o \in Objects : \A history \in QueryHistory(state, o, Plenty) :
        /\ \A v \in history.events : \E e \in accepted :
              /\ e.kind \notin {"RegisterEndpoint", "PublishPortCapability"}
              /\ Cites(v, e) /\ EvidenceObject(e) = o
        /\ \A v, x \in history.events :
              (v.evidence = x.evidence /\ v.source = x.source) => v = x

-----------------------------------------------------------------------------
(***************************************************************************)
(* Action properties.                                                      *)
(***************************************************************************)
\* No step forgets: a source never falls back to an earlier incarnation, a session or a
\* claim key never disappears, and a key's winner is never replaced by an older one.
NothingForgotten ==
    [][/\ \A s \in DOMAIN state.sources :
             /\ s \in DOMAIN state'.sources
             /\ state'.sources[s].current_incarnation >= state.sources[s].current_incarnation
       /\ \A w \in DOMAIN state.sessions :
             /\ w \in DOMAIN state'.sessions
             /\ state'.sessions[w].high_water >= state.sessions[w].high_water
       /\ \A k \in DOMAIN state.claims :
             /\ k \in DOMAIN state'.claims
             /\ state'.claims[k].generation >= state.claims[k].generation]_vars

\* The records that retire an object: the Retired records at the best authority.
Retirers(st, o) ==
    {k \in TopAuthority(st, LifecycleCandidates(st, o)) : CandidateAction(st, k) = "Retired"}

\* "Retirement is sticky against another source of equal authority": an object leaves
\* Retired only when a source that retired it corrects itself or is fenced, the unit is
\* replaced, or a strictly higher authority speaks.
RetirementSticky ==
    [][\A o \in Objects :
        (/\ lifecycle_action_of(state, o).action = "Retired"
         /\ lifecycle_action_of(state', o).action # "Retired") =>
            \/ object_incarnation_of(state', o) # object_incarnation_of(state, o)
            \/ \E k \in Retirers(state, o) :
                  \/ session_is_fenced(state', k.owner)
                  \/ state'.claims[k] # state.claims[k]
                  \/ \E j \in LifecycleCandidates(state', o) :
                        \/ state'.claims[j].authority > state.claims[k].authority
                        \/ /\ j.map = "reincarnation"
                           /\ state'.claims[j].authority = state.claims[k].authority]_vars

\* "Reusing a label of a live object is refused": when a registration puts a label on an
\* object, every other object that carries it is retired at that moment.
LabelReuseRefused ==
    [][\A pair \in RegisteredLabels(state') \ RegisteredLabels(state) :
         \A other \in RegisteredLabels(state) :
            (other[1] = pair[1] /\ other[2] # pair[2]) =>
                lifecycle_action_of(state, other[2]).action = "Retired"]_vars

-----------------------------------------------------------------------------
(***************************************************************************)
(* Statements of the documentation that the code does not meet.            *)
(***************************************************************************)
SubjectKeys(st) == {k \in DOMAIN st.claims : k.map = "subject"}

\* evidence.hpp on a claim "fenced by a newer incarnation of the physical object: it can
\* never bind again": once the object has moved past the unit a side record was made
\* against, that record takes part in no later answer.
FencedClaimNeverRebinds ==
    [][\A k \in SubjectKeys(state) :
        (/\ state.claims[k].value.object_incarnation < object_incarnation_of(state, k.id[1])
         /\ state'.claims[k] = state.claims[k]) =>
            k \notin LiveSubjectKeys(state', k.id, "IncludeAll")]_vars

\* README: an attachment "binds the object side to a port and, symmetrically, the port to
\* the object side".  A side that is reported Attached is an edge of its port.
AttachmentIsSymmetric ==
    \A k \in SubjectKeys(state) :
        LET side == derive_subject(state, k.id, "IncludeAll")
        IN  side.state = "Attached" =>
                \A p \in {q \in side.ports : port_exists(state, q)} :
                    \E x \in derive_port_view(state, p, "IncludeAll").edges :
                        x.subject = k.id

\* README: "Across sources, the highest authority wins".  No port shows as plainly
\* Attached a side that the highest authority places at another port.
HighestAuthorityWins ==
    \A k \in {j \in DOMAIN state.claims : j.map = "port" /\ port_exists(state, j.id)} :
        LET port == derive_port_view(state, k.id, "IncludeAll")
        IN  port.state = "Attached" => \A x \in port.edges :
                derive_subject(state, x.subject, "IncludeAll").ports \subseteq {k.id}

\* graph.hpp, Validated: "every winning claim was asserted in this lifetime by a live
\* source".  Closing a session takes the claims it made out of Validated.
ValidatedBySourcesLive ==
    \A k \in SubjectKeys(state) :
        LET side == derive_subject(state, k.id, "IncludeAll")
        IN  side.validation = "Validated" =>
                \A j \in side.top : state.sessions[j.owner].live

\* evidence.hpp: the incarnation of a record "must match an open session".
AcceptedFromOpenSession ==
    [][\A e \in accepted' \ accepted : state.sessions[OwnerOf(e)].live]_vars

\* evidence.hpp: a record is "a duplicate only when its content matches too".
DuplicateMeansSameContent ==
    \A e \in Evidence :
        (/\ WellFormed(e) /\ KnownSession(state, e)
         /\ decide(state, e).disposition = "Duplicate") =>
            \A k \in ClaimKeys(e) : state.claims[k].value = AssertedValue(e, k)

\* README: "A registry that would exceed a bound refuses the work"; among the bounds are
\* the claim records per port.
PortRecordsWithinLimit ==
    \A k \in DOMAIN state.claims :
        k.map = "port" => Cardinality(KeysOf(state, "port", k.id)) <= MaxClaimsPerPort
==================================================================================
