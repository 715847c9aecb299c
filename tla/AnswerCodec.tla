------------------------------ MODULE AnswerCodec ------------------------------
(***************************************************************************)
(* What a reader makes of an encoded answer (src/serialization.cpp: the    *)
(* decoders of the views; src/snapshot.cpp).  An encoder writes every list *)
(* with its length whatever the length is; a decoder compares each length  *)
(* with the reader's limits before it reads the elements and refuses the   *)
(* whole answer when one is larger.  decode_x(view, limits) says that the  *)
(* encoding of the view decodes; what it decodes to is then the view.      *)
(*                                                                         *)
(* limits is the reader's Limits: claims (max_claim_records_per_port),     *)
(* history (max_history_per_key), sides, ports, events, entries            *)
(* (max_snapshot_entries), batch (max_evidence_batch), sources, objects,   *)
(* and u32, one more than the largest u32 (2^32 in the code).              *)
(***************************************************************************)
EXTENDS RegistryQueries

\* decode_vector reads a count and compares it, then reads the elements: decodes are those
\* of the list that its element decoder takes.
decode_vector(list, bound, decodes) == Cardinality(list) <= bound /\ list = decodes

decode_claims(claims, limits) == decode_vector(claims, limits.claims, claims)

decode_conflict_note(note, limits) == decode_claims(note.claims, limits)

\* An edge as a port answer or a side answer lists it, with the overridden claims that it
\* carries.  Their bound is a product of two limits, computed in 32 bits.
decode_attachment_edge(edge, overridden, limits) ==
    /\ decode_claims(edge.claims, limits)
    /\ decode_vector(overridden, (limits.history * limits.claims) % limits.u32, overridden)

decode_edges(edges, overridden, limits) ==
    decode_vector(edges, limits.claims,
                  {x \in edges : decode_attachment_edge(x, overridden, limits)})

decode_conflicts(notes, limits) ==
    decode_vector(notes, limits.claims, {x \in notes : decode_conflict_note(x, limits)})

\* Every edge of a port carries the overridden claims of the port, the first ones up to
\* max_overridden_reported.  The notes about connectors and media, at most two for an edge,
\* are not modelled.
decode_port_view(view, max_overridden_reported, limits) ==
    /\ decode_edges(view.edges, UpTo(view.overridden, max_overridden_reported), limits)
    /\ decode_conflicts(view.conflicts, limits)
    /\ decode_claims(view.emptiness_claims, limits)

\* An object view as it is encoded lists, for each side, its edges, which carry no
\* overridden claims, and a note when the side is claimed at several ports.
EncodedSide(st, s) ==
    [edges |-> SideEdges(st, s, "IncludeAll"),
     conflicts |-> NoteIf(subject_double_booked(st, s, "IncludeAll"),
                          ConflictNote("ObjectSideDoubleBooked", s,
                                       derive_subject(st, s, "IncludeAll").top))]

decode_side_view(side, limits) ==
    /\ decode_edges(side.edges, {}, limits)
    /\ decode_conflicts(side.conflicts, limits)

\* sides are the encoded sides of the view, history the events it was asked to include.
decode_object_view(view, sides, history, limits) ==
    /\ Cardinality(DOMAIN sides) <= limits.sides
    /\ \A n \in DOMAIN sides : decode_side_view(sides[n], limits)
    /\ decode_vector(history, limits.events, history)
    /\ decode_conflicts(view.conflicts, limits)

decode_endpoint_view(view, max_overridden_reported, limits) ==
    /\ view.port_count <= limits.ports
    /\ Cardinality(DOMAIN view.ports) <= limits.ports
    /\ \A p \in DOMAIN view.ports : decode_port_view(view.ports[p], max_overridden_reported, limits)

decode_object_history(history, limits) == Cardinality(history.events) <= limits.events

\* The refusals are the audit, which the registry itself keeps within max_refusal_audit.
decode_inspection_view(st, view, max_overridden_reported, limits) ==
    /\ Cardinality(DOMAIN view.fenced_sessions) <= limits.sources * 64
    /\ Cardinality(DOMAIN view.fenced_objects) <= limits.objects
    /\ Cardinality(view.unvalidated_ports) <= limits.entries
    /\ \A p \in view.unvalidated_ports :
          decode_port_view(derive_port_view(st, p, "IncludeAll"), max_overridden_reported, limits)
    /\ Cardinality(view.pending_references) <= limits.batch

-----------------------------------------------------------------------------
(***************************************************************************)
(* The snapshot.                                                           *)
(***************************************************************************)
\* The attachments of a snapshot object: those of all its sides in one list.
SnapshotAttachments(st, o, snapshot) ==
    UNION {{[side |-> n, port |-> x.port, slot |-> x.slot, claims |-> x.claims] :
                x \in SideEdges(st, <<o, n>>, "IncludeAll")} :
           n \in DOMAIN snapshot.objects[o].sides}

\* A snapshot attachment has no overridden claims.
decode_attachments(attachments, limits) ==
    decode_vector(attachments, limits.claims,
                  {x \in attachments : decode_claims(x.claims, limits)})

decode_object(st, o, snapshot, limits) ==
    /\ Cardinality(DOMAIN snapshot.objects[o].sides) <= limits.sides
    /\ decode_attachments(SnapshotAttachments(st, o, snapshot), limits)

decode_port(port, limits) ==
    decode_attachments(port.edges, limits) /\ decode_conflicts(port.conflicts, limits)

decode_endpoint(endpoint, limits) == endpoint.port_count <= limits.ports

decode_snapshot(st, snapshot, limits) ==
    LET within(f) == Cardinality(DOMAIN f) <= limits.entries
    IN  /\ within(snapshot.objects) /\ within(snapshot.endpoints) /\ within(snapshot.ports)
        /\ within(snapshot.fenced_sessions) /\ within(snapshot.fenced_objects)
        /\ \A o \in DOMAIN snapshot.objects : decode_object(st, o, snapshot, limits)
        /\ \A e \in DOMAIN snapshot.endpoints : decode_endpoint(snapshot.endpoints[e], limits)
        /\ \A p \in DOMAIN snapshot.ports : decode_port(snapshot.ports[p], limits)

\* canonicalise sorts each list by these keys at encode time.  A list has one canonical
\* order when no two of its elements have the same key.
Distinct(keyed) == \A x, y \in DOMAIN keyed : keyed[x] = keyed[y] => x = y

canonicalise_ports(snapshot) ==
    \A p \in DOMAIN snapshot.ports :
        /\ Distinct([x \in snapshot.ports[p].edges |-> <<x.subject, x.slot>>])
        /\ Distinct([x \in snapshot.ports[p].conflicts |-> <<x.reason, x.subject>>])

canonicalise_objects(st, snapshot) ==
    \A o \in DOMAIN snapshot.objects :
        Distinct([x \in SnapshotAttachments(st, o, snapshot) |-> <<x.port, x.slot>>])
==================================================================================
