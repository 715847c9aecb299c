------------------------------ MODULE ArrivalOrder ------------------------------
(***************************************************************************)
(* Two independent registries fed from the same pool of OpenSession calls  *)
(* and evidence records, each in an order, with repetitions and omissions  *)
(* of its own.  README: two registries that accepted the same evidence set *)
(* produce the same graph digest whatever order the records arrived in.    *)
(***************************************************************************)
EXTENDS RegistryIngest, RegistryGraph

CONSTANTS
    Evidence,   \* the evidence records that exist
    Openings    \* the OpenSession calls

ASSUME ArrivalAssumption ==
    /\ Evidence \subseteq EvidenceType
    /\ Openings \subseteq [source: SourceId, authority: Nat, incarnation: Nat]

VARIABLES
    registry,   \* the state of each of the two registries
    took        \* what each of them accepted: openings and evidence

vars == <<registry, took>>

Twins == {"left", "right"}

Init ==
    /\ registry = [t \in Twins |-> EmptyState]
    /\ took = [t \in Twins |-> {}]

Open(t, o) ==
    /\ opens(open_disposition(registry[t], o.source, o.authority, o.incarnation))
    /\ registry' = [registry EXCEPT ![t] =
                        set_session_live(apply_session_open(@, o.source, o.authority, o.incarnation),
                                         <<o.source, o.incarnation>>, TRUE)]
    /\ took' = [took EXCEPT ![t] = @ \cup {<<"open", o>>}]

Deliver(t, e) ==
    LET result == ingest_locked(registry[t], e, TRUE, TRUE)
    IN  /\ registry' = [registry EXCEPT ![t] = result.state]
        /\ took' = [took EXCEPT ![t] =
                        IF is_accepted(result.disposition) THEN @ \cup {<<"evidence", e>>} ELSE @]

Next ==
    \E t \in Twins :
        \/ \E o \in Openings : Open(t, o)
        \/ \E e \in Evidence : Deliver(t, e)

Spec == Init /\ [][Next]_vars

-----------------------------------------------------------------------------
\* The two registries accepted the same set.
SameSet == took["left"] = took["right"]

\* "Two independent registries that accepted the same evidence set produce the same
\* graph_digest() whatever order the records arrived in": winners, rings counted in the
\* fenced totals, views, fenced sessions and pending references all agree.
SameEvidenceSameGraph ==
    SameSet => build_snapshot(registry["left"]) = build_snapshot(registry["right"])

\* "The registry folds reincarnation as a maximum over target incarnations, so the
\* resulting incarnation does not depend on the order the records arrived in."
SameEvidenceSameIncarnation ==
    SameSet => \A o \in Objects :
        object_incarnation_of(registry["left"], o) = object_incarnation_of(registry["right"], o)
==================================================================================
