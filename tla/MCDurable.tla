------------------------------- MODULE MCDurable -------------------------------
(***************************************************************************)
(* One cable and one source, which restarts with a higher authority;       *)
(* appends fail and the process dies at any point.                         *)
(***************************************************************************)
EXTENDS DurableRegistry, TLC

CONSTANTS o1, e1, i1, i2

MCObjects == {o1}
MCEndpoints == {e1}
MCLabels == {"C-17"}
MCIds == {i1, i2}

\* Identities are only compared.
IdSymmetry == Permutations(MCIds)

Ev(id_, source, incarnation, generation, kind, payload) ==
    [id |-> id_, source |-> source, incarnation |-> incarnation, generation |-> generation,
     kind |-> kind, payload |-> payload]

side == <<o1, 0>>
port0 == <<e1, 0>>

MCEvidence == {
    Ev(1, 1, 1, 1, "RegisterObject", [object |-> o1, label |-> "C-17", sides |-> 1]),
    Ev(2, 1, 1, 2, "Attach",
        [subject |-> side, port |-> port0, object_incarnation |-> 1, slot |-> 0]),
    Ev(3, 1, 1, 3, "Detach",
        [subject |-> side, object_incarnation |-> 1, from_port |-> port0, slot |-> 0]),
    \* Malformed: no sides, no incarnation of the object, no generation, nothing replaced.
    Ev(4, 1, 1, 4, "RegisterObject", [object |-> o1, label |-> "C-17", sides |-> 0]),
    Ev(5, 1, 1, 5, "Attach",
        [subject |-> side, port |-> port0, object_incarnation |-> 0, slot |-> 0]),
    Ev(6, 1, 1, 0, "PublishPortCapability", [port |-> port0, capacity |-> 1]),
    Ev(7, 1, 1, 6, "ReincarnateObject", [object |-> o1, from_incarnation |-> 0])}

MCOpenings == {
    [source |-> 1, authority |-> 1, incarnation |-> 1],
    [source |-> 1, authority |-> 2, incarnation |-> 2]}

\* Two sources of equal authority disagree about one side.
MCDisagreement == {
    Ev(1, 1, 1, 1, "RegisterObject", [object |-> o1, label |-> NoLabel, sides |-> 1]),
    Ev(2, 1, 1, 2, "Attach",
        [subject |-> side, port |-> port0, object_incarnation |-> 1, slot |-> 0]),
    Ev(3, 2, 1, 1, "Detach",
        [subject |-> side, object_incarnation |-> 1, from_port |-> NilPort, slot |-> 0])}

\* Each incarnation of the source registers the cable.
MCRegistrations == {
    Ev(1, 1, 1, 1, "RegisterObject", [object |-> o1, label |-> NoLabel, sides |-> 1]),
    Ev(2, 1, 2, 1, "RegisterObject", [object |-> o1, label |-> NoLabel, sides |-> 1])}

MCTwoSources == {
    [source |-> 1, authority |-> 1, incarnation |-> 1],
    [source |-> 2, authority |-> 1, incarnation |-> 1]}
==================================================================================
