------------------------------ MODULE MCLifecycle ------------------------------
(***************************************************************************)
(* Registration, labels, lifecycle and replacement: two sources of equal   *)
(* authority and one of higher authority, two objects that want the same   *)
(* label, one of them retired, restored and replaced.                      *)
(***************************************************************************)
EXTENDS RegistryAnswers

CONSTANTS o1, o2, e1

MCObjects == {o1, o2}
MCEndpoints == {e1}
MCLabels == {"C-17"}

Ev(id, source, generation, kind, payload) ==
    [id |-> id, source |-> source, incarnation |-> 1, generation |-> generation,
     kind |-> kind, payload |-> payload]

Lifecycle(o, n, action) == [object |-> o, object_incarnation |-> n, action |-> action]

MCEvidence == {
    Ev(1, 1, 1, "RegisterObject", [object |-> o1, label |-> "C-17", sides |-> 1]),
    Ev(2, 2, 1, "RegisterObject", [object |-> o2, label |-> "C-17", sides |-> 1]),
    Ev(3, 1, 2, "SetLifecycle", Lifecycle(o1, 1, "Retired")),
    Ev(4, 1, 3, "SetLifecycle", Lifecycle(o1, 1, "Present")),
    Ev(5, 2, 2, "SetLifecycle", Lifecycle(o1, 1, "Removed")),
    Ev(6, 3, 1, "SetLifecycle", Lifecycle(o1, 1, "Present")),
    Ev(7, 2, 3, "ReincarnateObject", [object |-> o1, from_incarnation |-> 1]),
    Ev(8, 2, 4, "SetLifecycle", Lifecycle(o1, 2, "Quarantined")),
    Ev(9, 2, 5, "Attach",
        [subject |-> <<o1, 0>>, port |-> <<e1, 0>>, object_incarnation |-> 2, slot |-> 0]),
    Ev(10, 1, 4, "Attach",
        [subject |-> <<o1, 0>>, port |-> <<e1, 0>>, object_incarnation |-> 1, slot |-> 0]),
    Ev(11, 3, 2, "RegisterEndpoint", [endpoint |-> e1, port_count |-> 1, capacity |-> 1])}

MCOpenings == {
    [source |-> 1, authority |-> 1, incarnation |-> 1],
    [source |-> 2, authority |-> 1, incarnation |-> 1],
    [source |-> 3, authority |-> 2, incarnation |-> 1],
    \* Refused: the authority of an incarnation cannot change.
    [source |-> 3, authority |-> 3, incarnation |-> 1]}
==================================================================================
