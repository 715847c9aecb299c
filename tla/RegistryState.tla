------------------------------ MODULE RegistryState ------------------------------
(***************************************************************************)
(* The folded state of the registry (src/detail/registry_state.hpp) and    *)
(* the questions every other part asks of it.                              *)
(*                                                                         *)
(* The eight std::map<Primary, std::map<Owner, Folded<T>>> members of      *)
(* RegistryState are one partial function, claims, from claim keys to      *)
(* folded records: a key names the map, the primary key, the owning source *)
(* incarnation and (for port records) the attachment slot.  A key is in    *)
(* the domain exactly when the nested map holds it.                        *)
(*                                                                         *)
(* Timestamps, names, reasons and serial strings are left out.  They are   *)
(* stored and printed; the only decision that reads the strings is whether *)
(* a record that reuses a generation repeats the stored one, so records    *)
(* that differ in nothing but a string are one record here.                *)
(***************************************************************************)
EXTENDS Integers, FiniteSetsExt

CONSTANTS
    Objects,        \* ObjectId
    Endpoints,      \* EndpointId
    Labels,         \* non-empty physical labels
    HistoryPerKey   \* RegistryOptions::history_per_key

ASSUME HistoryAssumption == HistoryPerKey \in Nat \ {0}

(***************************************************************************)
(* Identities.  Sources and evidence ids are numbers because the code      *)
(* compares them; an owner is a SourceIncarnationKey.                      *)
(***************************************************************************)
SourceId == Nat
Owner == SourceId \X Nat
ObjectSide == Objects \X Nat
Port == Endpoints \X Nat

\* A default constructed PortRef: the port of a detached side.
NilPort == << >>

\* An object registered without a printed label.
NoLabel == "no label"

\* SourceIncarnationKey orders by source, then by incarnation.
OwnerLess(a, b) ==
    \/ a[1] < b[1]
    \/ a[1] = b[1] /\ a[2] < b[2]

LifecycleAction == {"Present", "Quarantined", "Removed", "Retired"}

-----------------------------------------------------------------------------
(***************************************************************************)
(* Claim keys, one constructor per map of RegistryState.                   *)
(***************************************************************************)
ObjectKey(o, w)        == [map |-> "object",        id |-> o, owner |-> w, slot |-> 0]
EndpointKey(e, w)      == [map |-> "endpoint",      id |-> e, owner |-> w, slot |-> 0]
SubjectKey(s, w)       == [map |-> "subject",       id |-> s, owner |-> w, slot |-> 0]
PortKey(p, w, n)       == [map |-> "port",          id |-> p, owner |-> w, slot |-> n]
LifecycleKey(o, w)     == [map |-> "lifecycle",     id |-> o, owner |-> w, slot |-> 0]
ReincarnationKey(o, w) == [map |-> "reincarnation", id |-> o, owner |-> w, slot |-> 0]
ObjectCapKey(o, w)     == [map |-> "object_cap",    id |-> o, owner |-> w, slot |-> 0]
PortCapKey(p, w)       == [map |-> "port_cap",      id |-> p, owner |-> w, slot |-> 0]

ClaimKey ==
    [map: {"object", "lifecycle", "reincarnation", "object_cap"}, id: Objects,
     owner: Owner, slot: {0}]
    \cup [map: {"endpoint"}, id: Endpoints, owner: Owner, slot: {0}]
    \cup [map: {"subject"}, id: ObjectSide, owner: Owner, slot: {0}]
    \cup [map: {"port"}, id: Port, owner: Owner, slot: Nat]
    \cup [map: {"port_cap"}, id: Port, owner: Owner, slot: {0}]

\* The value type T of Folded<T> for each map.
ClaimValue(map) ==
    CASE map = "object" -> [label: Labels \cup {NoLabel}, sides: Nat]
      [] map = "endpoint" -> [port_count: Nat, capacity: Nat]
      [] map = "subject" ->
            [object_incarnation: Nat, attached: BOOLEAN, port: Port \cup {NilPort},
             slot: Nat, move_from: Port \cup {NilPort}]
      [] map = "port" -> [object_incarnation: Nat, empty: BOOLEAN, subject: ObjectSide]
      [] map = "lifecycle" -> [object_incarnation: Nat, action: LifecycleAction]
      [] map = "reincarnation" -> [from: Nat, target: Nat]
      [] map = "object_cap" -> [capability: Nat]
      [] map = "port_cap" -> [capacity: Nat]

\* The part of a superseded Attestation that orders the ring.
Attestation == [generation: Nat, evidence: Nat]

\* Folded<T>: the winning attestation, its value and the supersession ring.
Folded(map) ==
    [generation: Nat, evidence: Nat, authority: Nat, asserted_in_lifetime: BOOLEAN,
     value: ClaimValue(map), superseded: SUBSET Attestation]

SourceRecord == [authority: Nat, descriptor_incarnation: Nat, current_incarnation: Nat]

SessionRecord == [live: BOOLEAN, closed: BOOLEAN, high_water: Nat]

\* The type of a registry state: the three partial functions of RegistryState and
\* the label index the runtime keeps beside them (pairs of a label and an object).
StateType(st) ==
    /\ st = [sources |-> st.sources, sessions |-> st.sessions, claims |-> st.claims,
             label_index |-> st.label_index, label_index_valid |-> st.label_index_valid]
    /\ st.label_index \subseteq Labels \X Objects
    /\ st.label_index_valid \in BOOLEAN
    /\ DOMAIN st.sources \subseteq SourceId
    /\ st.sources \in [DOMAIN st.sources -> SourceRecord]
    /\ DOMAIN st.sessions \subseteq Owner
    /\ st.sessions \in [DOMAIN st.sessions -> SessionRecord]
    /\ DOMAIN st.claims \subseteq ClaimKey
    /\ st.claims = [k \in DOMAIN st.claims |-> st.claims[k]]
    /\ \A k \in DOMAIN st.claims : st.claims[k] \in Folded(k.map)

EmptyFunction == [x \in {} |-> 0]

\* A default constructed RegistryState.
EmptyState ==
    [sources |-> EmptyFunction, sessions |-> EmptyFunction, claims |-> EmptyFunction,
     label_index |-> {}, label_index_valid |-> FALSE]

-----------------------------------------------------------------------------
(***************************************************************************)
(* Questions about a state.                                                *)
(***************************************************************************)
\* The keys of the inner map found under one primary key.
KeysOf(st, map, id) == {k \in DOMAIN st.claims : k.map = map /\ k.id = id}

session_is_fenced(st, w) ==
    /\ w[1] \in DOMAIN st.sources
    /\ st.sources[w[1]].current_incarnation > w[2]

\* Mutation: a fenced source incarnation keeps speaking.
UnfencedKeys_all(st, map, id) == KeysOf(st, map, id)

\* The records under a primary key whose source incarnation is not fenced.
UnfencedKeys(st, map, id) == {k \in KeysOf(st, map, id) : ~session_is_fenced(st, k.owner)}

object_incarnation_of(st, o) ==
    Max({1} \cup {st.claims[k].value.target : k \in UnfencedKeys(st, "reincarnation", o)})

object_exists(st, o) == KeysOf(st, "object", o) # {}

endpoint_exists(st, e) == KeysOf(st, "endpoint", e) # {}

\* The largest count any source incarnation declared, fenced or not.
endpoint_port_count(st, e) ==
    Max({0} \cup {st.claims[k].value.port_count : k \in KeysOf(st, "endpoint", e)})

port_exists(st, p) == p[2] < endpoint_port_count(st, p[1])

\* Mutation: claims stay fresh over a restart.
clear_volatile_sessions(st) ==
    [st EXCEPT !.sessions = [w \in DOMAIN @ |-> [@[w] EXCEPT !.live = FALSE]]]

\* What a process restart forgets: session liveness and claim freshness.
clear_volatile(st) ==
    [st EXCEPT !.sessions = [w \in DOMAIN @ |-> [@[w] EXCEPT !.live = FALSE]],
               !.claims = [k \in DOMAIN @ |-> [@[k] EXCEPT !.asserted_in_lifetime = FALSE]]]
==================================================================================
