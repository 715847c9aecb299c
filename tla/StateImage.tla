------------------------------- MODULE StateImage -------------------------------
(***************************************************************************)
(* What Registry::Open can read back from the log: decode_state for the    *)
(* image a compaction leaves (src/registry_state.cpp) and decode_evidence  *)
(* for an evidence record (src/serialization.cpp).  A field that is read   *)
(* is the field that was written; what is modelled is what a decoder       *)
(* refuses.  encode_state refuses nothing, whatever the counts it writes.  *)
(***************************************************************************)
EXTENDS RegistryIngest

CONSTANTS
    SessionsPerSource,  \* the factor of decode_state's bound on sessions; 64 in the code
    U32                 \* one more than the largest u32; 2^32 in the code

ASSUME ImageAssumption == SessionsPerSource \in Nat \ {0} /\ U32 \in Nat \ {0}

\* A product of two u32 limits is computed in u32.
Product(m, n) == (m * n) % U32

-----------------------------------------------------------------------------
(***************************************************************************)
(* The state image.                                                        *)
(***************************************************************************)
MapNames == {"object", "endpoint", "subject", "port", "lifecycle", "reincarnation",
             "object_cap", "port_cap"}

Primaries(image, map) == {k.id : k \in {j \in DOMAIN image.claims : j.map = map}}

Owners(image, map, id) == {k \in DOMAIN image.claims : k.map = map /\ k.id = id}

\* The bounds decode_state passes for the primary keys of each map ...
max_primary(map) ==
    CASE map = "endpoint" -> MaxEndpoints
      [] map = "subject" -> Product(MaxObjects, MaxSides)
      [] map \in {"port", "port_cap"} -> Product(MaxEndpoints, MaxPorts)
      [] OTHER -> MaxObjects

\* ... and for the records under one of them.
max_owners(map) == IF map = "port" THEN Product(MaxSources, MaxSlots) ELSE MaxSources

decode_owner(w) == w[2] > 0

\* The decode_value of each map.  Port and lifecycle values take any incarnation.
decode_value(map, v) ==
    CASE map = "object" -> v.sides \in 1 .. MaxSides
      [] map = "endpoint" -> v.port_count \in 1 .. MaxPorts /\ v.capacity \in 1 .. MaxSlots
      [] map = "subject" -> v.object_incarnation > 0
      [] map = "reincarnation" -> v.from > 0 /\ v.target = v.from + 1
      [] map = "port_cap" -> v.capacity \in 1 .. MaxSlots
      [] OTHER -> TRUE

\* The runtime's history_per_key is never above the limit the decoder applies.
decode_folded(map, folded) ==
    decode_value(map, folded.value) /\ Cardinality(folded.superseded) <= HistoryPerKey

decode_group(image, map) ==
    /\ Cardinality(Primaries(image, map)) <= max_primary(map)
    /\ \A id \in Primaries(image, map) :
        /\ Cardinality(Owners(image, map, id)) <= max_owners(map)
        /\ \A k \in Owners(image, map, id) :
              decode_owner(k.owner) /\ decode_folded(map, image.claims[k])

decode_state(image) ==
    /\ Cardinality(DOMAIN image.sources) <= MaxSources
    /\ Cardinality(DOMAIN image.sessions) <= Product(MaxSources, SessionsPerSource)
    /\ \A w \in DOMAIN image.sessions : decode_owner(w)
    /\ \A map \in MapNames : decode_group(image, map)

-----------------------------------------------------------------------------
(***************************************************************************)
(* An evidence record.  The slots of an attachment are not looked at.      *)
(***************************************************************************)
decode_evidence(e) ==
    LET p == e.payload
    IN  /\ e.incarnation > 0 /\ e.generation > 0
        /\ CASE e.kind = "RegisterObject" -> p.sides \in 1 .. MaxSides
             [] e.kind = "RegisterEndpoint" ->
                   p.port_count \in 1 .. MaxPorts /\ p.capacity \in 1 .. MaxSlots
             [] e.kind \in IncarnationKinds -> p.object_incarnation > 0
             [] e.kind = "ReincarnateObject" -> p.from_incarnation > 0
             [] e.kind = "PublishPortCapability" -> p.capacity \in 1 .. MaxSlots
             [] OTHER -> TRUE
==================================================================================
