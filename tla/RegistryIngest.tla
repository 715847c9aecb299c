------------------------------ MODULE RegistryIngest ------------------------------
(***************************************************************************)
(* The write path of the registry (src/registry.cpp: validation, decide,   *)
(* apply_change, ingest_locked, OpenSession) as functions of a state, so   *)
(* that live ingestion and log replay use the same definitions.            *)
(*                                                                         *)
(* An evidence record is a record with the header fields id, source,       *)
(* incarnation and generation, a kind and a payload.  An authority (class, *)
(* then rank) is a number; the rest of a source descriptor is left out.    *)
(***************************************************************************)
EXTENDS RegistryViews

CONSTANTS
    MaxObjects,         \* Limits::max_objects
    MaxEndpoints,       \* Limits::max_endpoints
    MaxSources,         \* Limits::max_sources
    MaxSides,           \* Limits::max_sides_per_object
    MaxPorts,           \* Limits::max_ports_per_endpoint
    MaxSlots,           \* Limits::max_port_simultaneous_attachments
    MaxClaimsPerPort,   \* Limits::max_claim_records_per_port
    MaxObjectIncarnation \* kMaxObjectIncarnation

ASSUME LimitsAssumption ==
    /\ MaxObjects \in Nat \ {0} /\ MaxEndpoints \in Nat \ {0} /\ MaxSources \in Nat \ {0}
    /\ MaxSides \in Nat \ {0} /\ MaxPorts \in Nat \ {0} /\ MaxSlots \in Nat \ {0}
    /\ MaxClaimsPerPort \in Nat \ {0} /\ MaxObjectIncarnation \in Nat \ {0}

\* The evidence variants.  A field of a malformed record may be out of range.
EvidenceOf(k, P) ==
    [id: Nat, source: SourceId, incarnation: Nat, generation: Nat, kind: {k}, payload: P]

EvidenceType ==
    EvidenceOf("RegisterObject", [object: Objects, label: Labels \cup {NoLabel}, sides: Nat])
    \cup EvidenceOf("RegisterEndpoint", [endpoint: Endpoints, port_count: Nat, capacity: Nat])
    \cup EvidenceOf("Attach", [subject: ObjectSide, port: Port, object_incarnation: Nat, slot: Nat])
    \cup EvidenceOf("Detach", [subject: ObjectSide, object_incarnation: Nat,
                               from_port: Port \cup {NilPort}, slot: Nat])
    \cup EvidenceOf("Move", [subject: ObjectSide, object_incarnation: Nat, from: Port, to: Port,
                             from_slot: Nat, to_slot: Nat])
    \cup EvidenceOf("SetLifecycle", [object: Objects, object_incarnation: Nat,
                                     action: LifecycleAction])
    \cup EvidenceOf("ReincarnateObject", [object: Objects, from_incarnation: Nat])
    \cup EvidenceOf("PublishObjectCapability", [object: Objects, capability: Nat])
    \cup EvidenceOf("PublishPortCapability", [port: Port, capacity: Nat])

OwnerOf(e) == <<e.source, e.incarnation>>

\* The kinds whose payload names a physical incarnation of the object.
IncarnationKinds == {"Attach", "Detach", "Move", "SetLifecycle"}

\* Mutation: the incarnation of the object is not looked at.
WellFormed_any_unit(e) == e.incarnation > 0 /\ e.generation > 0

\* validate_evidence_shape.  Identities are never nil and strings never too long here.
WellFormed(e) ==
    LET p == e.payload
    IN  /\ e.incarnation > 0 /\ e.generation > 0
        /\ e.kind \in IncarnationKinds => p.object_incarnation > 0
        /\ e.kind = "RegisterObject" => p.sides \in 1 .. MaxSides
        /\ e.kind = "RegisterEndpoint" =>
              p.port_count \in 1 .. MaxPorts /\ p.capacity \in 1 .. MaxSlots
        /\ e.kind \in {"Attach", "Detach"} => p.slot < MaxSlots
        /\ e.kind = "Move" => p.from_slot < MaxSlots /\ p.to_slot < MaxSlots
        /\ e.kind = "PublishPortCapability" => p.capacity \in 1 .. MaxSlots
        /\ e.kind = "ReincarnateObject" =>
              p.from_incarnation > 0 /\ p.from_incarnation + 1 <= MaxObjectIncarnation

-----------------------------------------------------------------------------
(***************************************************************************)
(* What a record says: the claim keys it speaks for and the value each     *)
(* would hold.  A move whose two ends are the same slot has one port key.  *)
(***************************************************************************)
\* Mutation: the destination of a move is not recorded at the port.
MoveKeys_half(p, w) == {SubjectKey(p.subject, w), PortKey(p.from, w, p.from_slot)}

MoveKeys(p, w) ==
    {SubjectKey(p.subject, w), PortKey(p.to, w, p.to_slot), PortKey(p.from, w, p.from_slot)}

ClaimKeys(e) ==
    LET p == e.payload
        w == OwnerOf(e)
    IN  CASE e.kind = "RegisterObject" -> {ObjectKey(p.object, w)}
          [] e.kind = "RegisterEndpoint" -> {EndpointKey(p.endpoint, w)}
          [] e.kind = "Attach" -> {SubjectKey(p.subject, w), PortKey(p.port, w, p.slot)}
          [] e.kind = "Detach" ->
                {SubjectKey(p.subject, w)}
                \cup (IF p.from_port = NilPort THEN {} ELSE {PortKey(p.from_port, w, p.slot)})
          [] e.kind = "Move" -> MoveKeys(p, w)
          [] e.kind = "SetLifecycle" -> {LifecycleKey(p.object, w)}
          [] e.kind = "ReincarnateObject" -> {ReincarnationKey(p.object, w)}
          [] e.kind = "PublishObjectCapability" -> {ObjectCapKey(p.object, w)}
          [] e.kind = "PublishPortCapability" -> {PortCapKey(p.port, w)}

SubjectValue(p, attached, port, slot, move_from) ==
    [object_incarnation |-> p.object_incarnation, attached |-> attached, port |-> port,
     slot |-> slot, move_from |-> move_from]

PortValue(p, empty) ==
    [object_incarnation |-> p.object_incarnation, empty |-> empty, subject |-> p.subject]

AssertedValue(e, k) ==
    LET p == e.payload
    IN  CASE e.kind = "RegisterObject" -> [label |-> p.label, sides |-> p.sides]
          [] e.kind = "RegisterEndpoint" ->
                [port_count |-> p.port_count, capacity |-> p.capacity]
          [] e.kind = "Attach" ->
                IF k.map = "subject" THEN SubjectValue(p, TRUE, p.port, p.slot, NilPort)
                ELSE PortValue(p, FALSE)
          [] e.kind = "Detach" ->
                IF k.map = "subject" THEN SubjectValue(p, FALSE, NilPort, 0, NilPort)
                ELSE PortValue(p, TRUE)
          [] e.kind = "Move" ->
                IF k.map = "subject" THEN SubjectValue(p, TRUE, p.to, p.to_slot, p.from)
                ELSE PortValue(p, k # PortKey(p.to, OwnerOf(e), p.to_slot))
          [] e.kind = "SetLifecycle" ->
                [object_incarnation |-> p.object_incarnation, action |-> p.action]
          [] e.kind = "ReincarnateObject" ->
                [from |-> p.from_incarnation, target |-> p.from_incarnation + 1]
          [] e.kind = "PublishObjectCapability" -> [capability |-> p.capability]
          [] e.kind = "PublishPortCapability" -> [capacity |-> p.capacity]

-----------------------------------------------------------------------------
(***************************************************************************)
(* Folding one attestation into one claim key.                             *)
(***************************************************************************)
\* The order of the supersession ring: by generation, then by evidence id.
Older(a, b) ==
    \/ a.generation < b.generation
    \/ a.generation = b.generation /\ a.evidence < b.evidence

\* Mutation: the ring is never trimmed.
TrimRing_never(ring) == ring

\* The trailing loop of fold and fold_losing: drop the oldest until the ring fits.
TrimRing(ring) == {a \in ring : Cardinality({b \in ring : Older(a, b)}) < HistoryPerKey}

RingHolds(folded, evidence) == \E a \in folded.superseded : a.evidence = evidence

AttestationOf(folded) == [generation |-> folded.generation, evidence |-> folded.evidence]

FoldedRecord(meta, value, ring) ==
    [generation |-> meta.generation, evidence |-> meta.evidence, authority |-> meta.authority,
     asserted_in_lifetime |-> meta.asserted_in_lifetime, value |-> value, superseded |-> ring]

\* A winning record replaces the winner of an existing key; the old one joins the ring.
fold(folded, meta, value) ==
    FoldedRecord(meta, value,
        TrimRing(IF RingHolds(folded, folded.evidence) THEN folded.superseded
                 ELSE folded.superseded \cup {AttestationOf(folded)}))

\* Mutation: a late record leaves no trace.
fold_losing_dropped(folded, meta) == folded

\* A losing record joins the ring unless the key already knows it.
fold_losing(folded, meta) ==
    IF folded.evidence = meta.evidence \/ RingHolds(folded, meta.evidence) THEN folded
    ELSE [folded EXCEPT !.superseded = TrimRing(@ \cup {AttestationOf(meta)})]

-----------------------------------------------------------------------------
(***************************************************************************)
(* decide: what one record does to each key it speaks for.                 *)
(***************************************************************************)
\* A lifecycle record is the same when its action is; every other value is compared whole.
SameContent(k, stored, incoming) ==
    IF k.map = "lifecycle" THEN stored.action = incoming.action ELSE stored = incoming

\* Mutation: the record that arrives last wins.
compare_generation_by_arrival(stored, generation, same_content) ==
    IF generation = stored /\ same_content THEN "Duplicate" ELSE "Insert"

\* Mutation: a record that is already stored is stored again.
compare_generation_again(stored, generation, same_content) ==
    CASE generation >= stored -> "Insert"
      [] generation < stored -> "Superseded"

compare_generation(stored, generation, same_content) ==
    CASE generation > stored -> "Insert"
      [] generation < stored -> "Superseded"
      [] OTHER -> IF same_content THEN "Duplicate" ELSE "Collision"

existing_outcome(st, e, k) ==
    IF k \notin DOMAIN st.claims THEN "Insert"
    ELSE compare_generation(st.claims[k].generation, e.generation,
                            SameContent(k, st.claims[k].value, AssertedValue(e, k)))

KeysWith(st, e, outcome) == {k \in ClaimKeys(e) : existing_outcome(st, e, k) = outcome}

port_capacity_reached(st, k) ==
    /\ k.map = "port" /\ k \notin DOMAIN st.claims
    /\ Cardinality(KeysOf(st, "port", k.id)) >= MaxClaimsPerPort

\* Mutation: an absent label is indexed like any other.
RegisteredLabels_unlabelled(st) ==
    {<<st.claims[k].value.label, k.id>> : k \in {j \in DOMAIN st.claims : j.map = "object"}}

\* Every (label, object) pair some registration record carries.
RegisteredLabels(st) ==
    {<<st.claims[k].value.label, k.id>> :
        k \in {j \in DOMAIN st.claims :
                 j.map = "object" /\ st.claims[j].value.label # NoLabel}}

\* label_holders builds the index on first use and then trusts it for completeness.
label_index_after_lookup(st) ==
    IF st.label_index_valid THEN st.label_index ELSE RegisteredLabels(st)

\* Mutation: the label of a removed object may be reused too.
LabelHeldElsewhere_removed(st, e) ==
    /\ e.kind = "RegisterObject" /\ e.payload.label # NoLabel
    /\ \E pair \in label_index_after_lookup(st) :
          /\ pair[1] = e.payload.label /\ pair[2] # e.payload.object
          /\ pair \in RegisteredLabels(st)
          /\ lifecycle_action_of(st, pair[2]).action \notin {"Retired", "Removed"}

\* Another object that carries the label and is not retired.
LabelHeldElsewhere(st, e) ==
    /\ e.kind = "RegisterObject" /\ e.payload.label # NoLabel
    /\ \E pair \in label_index_after_lookup(st) :
          /\ pair[1] = e.payload.label /\ pair[2] # e.payload.object
          /\ pair \in RegisteredLabels(st)
          /\ lifecycle_action_of(st, pair[2]).action # "Retired"

CatalogueFull(st, e) ==
    \/ /\ e.kind = "RegisterObject" /\ ~object_exists(st, e.payload.object)
       /\ Cardinality({o \in Objects : object_exists(st, o)}) >= MaxObjects
    \/ /\ e.kind = "RegisterEndpoint" /\ ~endpoint_exists(st, e.payload.endpoint)
       /\ Cardinality({x \in Endpoints : endpoint_exists(st, x)}) >= MaxEndpoints

\* The object already is at the incarnation a reincarnation asks for, or beyond.
AlreadyReincarnated(st, e) ==
    /\ e.kind = "ReincarnateObject" /\ object_exists(st, e.payload.object)
    /\ e.payload.from_incarnation + 1 <= object_incarnation_of(st, e.payload.object)

\* The object is not, or no longer, at the incarnation a reincarnation asks for.
Unreached(st, e) ==
    /\ e.kind = "ReincarnateObject"
    /\ ~(e.payload.from_incarnation + 1 <= object_incarnation_of(st, e.payload.object))

\* The object or the port a key refers to is not registered yet.
MissingReference(st, k) ==
    CASE k.map = "subject" -> ~object_exists(st, k.id[1])
      [] k.map \in {"port", "port_cap"} -> ~port_exists(st, k.id)
      [] k.map \in {"lifecycle", "reincarnation", "object_cap"} -> ~object_exists(st, k.id)
      [] OTHER -> FALSE

\* Where the incarnation a record names stands to the object's current one.
NamedObject(e) == IF e.kind = "SetLifecycle" THEN e.payload.object ELSE e.payload.subject[1]

effective_disposition(st, e) ==
    LET named == e.payload.object_incarnation
        current == object_incarnation_of(st, NamedObject(e))
    IN  IF session_is_fenced(st, OwnerOf(e)) THEN "AcceptedFencedSource"
        ELSE IF e.kind \in IncarnationKinds /\ named < current THEN "AcceptedFencedIncarnation"
        ELSE IF e.kind \in IncarnationKinds /\ named > current THEN "AcceptedPendingIncarnation"
        ELSE IF \E k \in ClaimKeys(e) : MissingReference(st, k) THEN "AcceptedPendingReference"
        ELSE "Accepted"

\* The staged change: the disposition, the keys written and the keys whose ring grows.
Staged(disposition, writes, rings) ==
    [disposition |-> disposition, writes |-> writes, rings |-> rings,
     apply |-> writes # {} \/ rings # {}]

\* The early returns of decide in their order.  An attachment record that collides on
\* one key is refused as a whole; otherwise each key is resolved on its own.
decide(st, e) ==
    LET inserts == KeysWith(st, e, "Insert")
        superseded == KeysWith(st, e, "Superseded")
    IN  IF \E k \in ClaimKeys(e) : port_capacity_reached(st, k)
            THEN Staged("RefusedCapacity", {}, {})
        ELSE IF KeysWith(st, e, "Collision") # {} THEN Staged("RefusedConflict", {}, {})
        ELSE IF inserts = {} /\ superseded = {} THEN Staged("Duplicate", {}, {})
        ELSE IF inserts = {} THEN Staged("AcceptedSuperseded", {}, superseded)
        ELSE IF AlreadyReincarnated(st, e) THEN Staged("AcceptedSuperseded", {}, inserts)
        ELSE IF LabelHeldElsewhere(st, e) THEN Staged("RefusedLabelConflict", {}, {})
        ELSE IF CatalogueFull(st, e) THEN Staged("RefusedCapacity", {}, {})
        ELSE Staged(effective_disposition(st, e), inserts, superseded)

\* The label index is consulted for a labelled registration that would be written.
ConsultsLabelIndex(st, e) ==
    /\ e.kind = "RegisterObject" /\ e.payload.label # NoLabel
    /\ KeysWith(st, e, "Insert") # {}

-----------------------------------------------------------------------------
(***************************************************************************)
(* apply_change and ingest_locked.                                         *)
(***************************************************************************)
\* A claim takes the authority its source has when the record arrives.
MetaOf(st, e, live) ==
    [generation |-> e.generation, evidence |-> e.id,
     authority |-> st.sources[e.source].authority, asserted_in_lifetime |-> live]

\* The claims after the staged rings and writes.
FoldedClaims(st, e, live, change) ==
    LET meta == MetaOf(st, e, live)
    IN  [k \in DOMAIN st.claims \cup change.writes |->
            IF k \in change.writes
            THEN IF k \in DOMAIN st.claims
                 THEN fold(st.claims[k], meta, AssertedValue(e, k))
                 ELSE FoldedRecord(meta, AssertedValue(e, k), {})
            ELSE IF k \in change.rings THEN fold_losing(st.claims[k], meta)
            ELSE st.claims[k]]

\* Mutation: the label index is not maintained.
apply_change_unindexed(st, e, live, change) ==
    [st EXCEPT !.claims = FoldedClaims(st, e, live, change)]

\* A written registration is added to a label index that is in use.
apply_change(st, e, live, change) ==
    [st EXCEPT
        !.claims = FoldedClaims(st, e, live, change),
        !.label_index =
            IF /\ e.kind = "RegisterObject" /\ e.payload.label # NoLabel
               /\ change.writes # {} /\ st.label_index_valid
            THEN @ \cup {<<e.payload.label, e.payload.object>>} ELSE @]

\* label_holders, called by decide.
consult_label_index(st, e) ==
    IF ConsultsLabelIndex(st, e)
    THEN [st EXCEPT !.label_index = label_index_after_lookup(st), !.label_index_valid = TRUE]
    ELSE st

\* Mutation: the mark follows the last record instead of the highest.
raise_high_water_last(st, e) ==
    [st EXCEPT !.sessions = [w \in DOMAIN @ |->
        IF w = OwnerOf(e) THEN [@[w] EXCEPT !.high_water = e.generation] ELSE @[w]]]

raise_high_water(st, e) ==
    [st EXCEPT !.sessions = [w \in DOMAIN @ |->
        IF w = OwnerOf(e) /\ e.generation > @[w].high_water
        THEN [@[w] EXCEPT !.high_water = e.generation] ELSE @[w]]]

KnownSession(st, e) == e.source \in DOMAIN st.sources /\ OwnerOf(e) \in DOMAIN st.sessions

\* The record reaches the log: it is valid, its session is known and decide stages it.
NeedsAppend(st, e) == WellFormed(e) /\ KnownSession(st, e) /\ decide(st, e).apply

\* durable tells whether the append, when one is needed, succeeds.  A refused record
\* still raises the high-water mark of its session.
ingest_locked(st, e, live, durable) ==
    LET change == decide(st, e)
        looked_up == consult_label_index(st, e)
    IN  IF ~WellFormed(e) THEN [disposition |-> "RefusedInvalid", state |-> st]
        ELSE IF ~KnownSession(st, e) THEN [disposition |-> "RefusedUnknownSource", state |-> st]
        ELSE IF change.apply /\ durable
            THEN [disposition |-> change.disposition,
                  state |-> raise_high_water(apply_change(looked_up, e, live, change), e)]
        ELSE [disposition |-> IF change.apply THEN "RefusedPersistence" ELSE change.disposition,
              state |-> raise_high_water(looked_up, e)]

is_accepted(disposition) ==
    disposition \in {"Accepted", "AcceptedFencedSource", "AcceptedFencedIncarnation",
                     "AcceptedPendingReference", "AcceptedPendingIncarnation",
                     "AcceptedSuperseded", "Duplicate"}

-----------------------------------------------------------------------------
(***************************************************************************)
(* Sessions.                                                               *)
(***************************************************************************)
\* The checks of OpenSession, in order; Resumed and Reopened differ only in the answer.
open_disposition(st, s, authority, incarnation) ==
    IF incarnation = 0 THEN "RefusedInvalid"
    ELSE IF s \notin DOMAIN st.sources
        THEN IF Cardinality(DOMAIN st.sources) >= MaxSources THEN "RefusedCapacity" ELSE "Opened"
    ELSE IF incarnation < st.sources[s].current_incarnation THEN "RefusedFenced"
    ELSE IF incarnation > st.sources[s].current_incarnation THEN "NewIncarnation"
    ELSE IF st.sources[s].authority # authority THEN "RefusedDescriptorConflict"
    ELSE IF st.sessions[<<s, incarnation>>].live THEN "Resumed"
    ELSE "Reopened"

opens(disposition) == disposition \in {"Opened", "NewIncarnation", "Resumed", "Reopened"}

\* Used by OpenSession and by replay.
apply_session_open(st, s, authority, incarnation) ==
    LET known == s \in DOMAIN st.sources
        described == known /\ incarnation <= st.sources[s].descriptor_incarnation
        current == IF known /\ incarnation <= st.sources[s].current_incarnation
                   THEN st.sources[s].current_incarnation ELSE incarnation
        source == [authority |-> IF described THEN st.sources[s].authority ELSE authority,
                   descriptor_incarnation |->
                       IF described THEN st.sources[s].descriptor_incarnation ELSE incarnation,
                   current_incarnation |-> current]
        w == <<s, incarnation>>
    IN  [st EXCEPT
            !.sources = [x \in DOMAIN @ \cup {s} |-> IF x = s THEN source ELSE @[x]],
            !.sessions = [x \in DOMAIN @ \cup {w} |->
                            IF x \in DOMAIN @ THEN @[x]
                            ELSE [live |-> FALSE, closed |-> FALSE, high_water |-> 0]]]

\* What OpenSession and CloseSession do to the session record of w.
set_session_live(st, w, live) ==
    [st EXCEPT !.sessions = [x \in DOMAIN @ |->
        IF x = w THEN [@[x] EXCEPT !.live = live, !.closed = ~live] ELSE @[x]]]
==================================================================================
