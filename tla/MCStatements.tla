------------------------------ MODULE MCStatements ------------------------------
(***************************************************************************)
(* Small instances for the statements of the documentation that the code   *)
(* does not meet.  Each scenario is an ordinary sequence of reports; a     *)
(* configuration picks one.                                                *)
(***************************************************************************)
EXTENDS RegistryAnswers

CONSTANTS o1, o2, e1

MCObjects == {o1, o2}
MCEndpoints == {e1}
MCLabels == {"C-17"}

Ev(id, source, generation, kind, payload) ==
    [id |-> id, source |-> source, incarnation |-> 1, generation |-> generation,
     kind |-> kind, payload |-> payload]

RegisterO(id, generation, o) ==
    Ev(id, 1, generation, "RegisterObject", [object |-> o, label |-> NoLabel, sides |-> 1])

RegisterE(id, generation) ==
    Ev(id, 1, generation, "RegisterEndpoint",
       [endpoint |-> e1, port_count |-> 2, capacity |-> 1])

AttachO(id, source, generation, o, n, incarnation) ==
    Ev(id, source, generation, "Attach",
       [subject |-> <<o, 0>>, port |-> <<e1, n>>, object_incarnation |-> incarnation, slot |-> 0])

Open(s, authority, incarnation) ==
    [source |-> s, authority |-> authority, incarnation |-> incarnation]

TwoSources == {Open(1, 1, 1), Open(2, 2, 1)}

RestartingSource == {Open(1, 1, 1), Open(2, 1, 1), Open(2, 1, 2)}

\* The source that reported a replacement restarts.
Replacement == {
    RegisterO(1, 1, o1),
    AttachO(2, 1, 2, o1, 0, 1),
    Ev(3, 2, 1, "ReincarnateObject", [object |-> o1, from_incarnation |-> 1])}

\* One source plugs two cables into one slot, one after the other.
SameSlot == {
    RegisterO(1, 1, o1), RegisterO(2, 2, o2), RegisterE(5, 5),
    AttachO(3, 1, 3, o1, 0, 1),
    AttachO(4, 1, 4, o2, 0, 1)}

\* Two sources of different authority see the cable at different ports.
TwoPlaces == {
    RegisterO(1, 1, o1), RegisterE(4, 3),
    AttachO(2, 1, 2, o1, 0, 1),
    AttachO(3, 2, 1, o1, 1, 1)}

OneAttachment == {RegisterO(1, 1, o1), AttachO(2, 1, 2, o1, 0, 1)}

\* One generation used for two incarnations of the object.
TwoIncarnations == {
    Ev(n, 1, 1, "SetLifecycle",
       [object |-> o1, object_incarnation |-> n, action |-> "Quarantined"]) : n \in {1, 2}}

Register2(id, source, generation, label) ==
    Ev(id, source, generation, "RegisterObject", [object |-> o1, label |-> label, sides |-> 2])

Attach(id, source, generation, side, n, slot) ==
    Ev(id, source, generation, "Attach",
       [subject |-> <<o1, side>>, port |-> <<e1, n>>, object_incarnation |-> 1, slot |-> slot])

EqualSources == {Open(1, 1, 1), Open(2, 1, 1)}

ThreeIncarnations == {Open(1, 1, 1), Open(1, 1, 2), Open(1, 1, 3)}

\* Two sources of equal authority see one cable at two ports, at different slots.
TwoSlots == {
    Register2(1, 1, 1, NoLabel),
    Attach(2, 1, 2, 0, 1, 0),
    Attach(3, 2, 1, 0, 0, 1)}

\* Both ends of a cable, at two ports; and at one slot of one port, by two sources.
BothEnds == {Register2(1, 1, 1, NoLabel), Attach(2, 1, 2, 0, 0, 0), Attach(3, 1, 3, 1, 1, 0)}
BothEndsHere == {Register2(1, 1, 1, NoLabel), Attach(2, 1, 2, 0, 0, 0), Attach(3, 2, 1, 1, 0, 0)}

\* A cable is moved and then unplugged.
MoveAndDetach == {
    Register2(1, 1, 1, NoLabel),
    Ev(2, 1, 2, "Move",
       [subject |-> <<o1, 0>>, object_incarnation |-> 1, from |-> <<e1, 0>>, to |-> <<e1, 1>>,
        from_slot |-> 0, to_slot |-> 0]),
    Ev(3, 1, 3, "Detach",
       [subject |-> <<o1, 0>>, object_incarnation |-> 1, from_port |-> NilPort, slot |-> 0])}

\* Two sources register one cable under different labels.
TwoLabels == {Register2(1, 1, 1, NoLabel), Register2(2, 2, 1, "C-17")}

\* Two sources declare different port counts for one endpoint.
TwoPortCounts == {
    Ev(s, s, 1, "RegisterEndpoint", [endpoint |-> e1, port_count |-> s, capacity |-> 1]) :
        s \in {1, 2}}

\* An exclusive port and an attachment at its second slot.
SecondSlot == {Register2(1, 1, 1, NoLabel), RegisterE(2, 2), Attach(3, 1, 3, 0, 0, 1)}

\* A move between two slots of one port.
SlotMove == {
    Ev(1, 1, 1, "Move",
       [subject |-> <<o1, 0>>, object_incarnation |-> 1, from |-> <<e1, 0>>, to |-> <<e1, 0>>,
        from_slot |-> 0, to_slot |-> 1])}
==================================================================================
