------------------------------ MODULE MCAttachment ------------------------------
(***************************************************************************)
(* Attachment, detachment and moves of two cables by two sources of equal  *)
(* authority over the two ports of one endpoint; the first source restarts *)
(* once.  Every record may arrive early, late, twice or never.             *)
(***************************************************************************)
EXTENDS RegistryAnswers

CONSTANTS o1, o2, e1

MCObjects == {o1, o2}
MCEndpoints == {e1}
MCLabels == {"C-17"}

Ev(id, source, incarnation, generation, kind, payload) ==
    [id |-> id, source |-> source, incarnation |-> incarnation, generation |-> generation,
     kind |-> kind, payload |-> payload]

side1 == <<o1, 0>>
side2 == <<o2, 0>>
port0 == <<e1, 0>>
port1 == <<e1, 1>>

MCEvidence == {
    Ev(1, 1, 1, 1, "RegisterObject", [object |-> o1, label |-> NoLabel, sides |-> 1]),
    Ev(2, 1, 1, 2, "RegisterEndpoint", [endpoint |-> e1, port_count |-> 2, capacity |-> 1]),
    Ev(3, 1, 1, 3, "Attach",
        [subject |-> side1, port |-> port0, object_incarnation |-> 1, slot |-> 0]),
    Ev(4, 1, 1, 4, "Move",
        [subject |-> side1, object_incarnation |-> 1, from |-> port0, to |-> port1,
         from_slot |-> 0, to_slot |-> 0]),
    Ev(5, 1, 1, 5, "Detach",
        [subject |-> side1, object_incarnation |-> 1, from_port |-> port1, slot |-> 0]),
    \* The same generation as the move with other content: one of the two is refused.
    Ev(6, 1, 1, 4, "Attach",
        [subject |-> side1, port |-> port0, object_incarnation |-> 1, slot |-> 0]),
    Ev(7, 2, 1, 1, "Attach",
        [subject |-> side2, port |-> port1, object_incarnation |-> 1, slot |-> 0]),
    \* A slot outside the configured range.
    Ev(8, 2, 1, 2, "Attach",
        [subject |-> side2, port |-> port1, object_incarnation |-> 1, slot |-> 9]),
    \* The restarted source says where the cable is now.
    Ev(9, 1, 2, 1, "Attach",
        [subject |-> side1, port |-> port0, object_incarnation |-> 1, slot |-> 0]),
    \* The other source unplugs its cable without saying from where.
    Ev(10, 2, 1, 3, "Detach",
        [subject |-> side2, object_incarnation |-> 1, from_port |-> NilPort, slot |-> 0]),
    Ev(11, 2, 1, 4, "PublishPortCapability", [port |-> port1, capacity |-> 2]),
    Ev(12, 2, 1, 5, "PublishObjectCapability", [object |-> o1, capability |-> 1]),
    Ev(13, 2, 1, 6, "RegisterObject", [object |-> o2, label |-> "C-17", sides |-> 1])}

MCOpenings == {
    [source |-> 1, authority |-> 1, incarnation |-> 1],
    [source |-> 1, authority |-> 1, incarnation |-> 2],
    [source |-> 2, authority |-> 1, incarnation |-> 1]}
==================================================================================
