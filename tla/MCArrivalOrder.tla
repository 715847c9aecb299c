----------------------------- MODULE MCArrivalOrder -----------------------------
(***************************************************************************)
(* A cable is attached and moved by a source that restarts, while a second *)
(* source contradicts it, replaces the unit and reports the new one as     *)
(* removed.  No two sources ask for the same replacement, and no record is *)
(* reissued under a second evidence id.                                    *)
(***************************************************************************)
EXTENDS ArrivalOrder

CONSTANTS o1, e1

MCObjects == {o1}
MCEndpoints == {e1}
MCLabels == {"C-17"}

Ev(id, source, incarnation, generation, kind, payload) ==
    [id |-> id, source |-> source, incarnation |-> incarnation, generation |-> generation,
     kind |-> kind, payload |-> payload]

side == <<o1, 0>>
port0 == <<e1, 0>>
port1 == <<e1, 1>>

MCEvidence == {
    Ev(1, 1, 1, 1, "RegisterObject", [object |-> o1, label |-> NoLabel, sides |-> 1]),
    Ev(2, 1, 1, 2, "Attach",
        [subject |-> side, port |-> port0, object_incarnation |-> 1, slot |-> 0]),
    Ev(3, 1, 1, 3, "Move",
        [subject |-> side, object_incarnation |-> 1, from |-> port0, to |-> port1,
         from_slot |-> 0, to_slot |-> 0]),
    Ev(4, 1, 1, 4, "Attach",
        [subject |-> side, port |-> port0, object_incarnation |-> 2, slot |-> 0]),
    Ev(5, 2, 1, 1, "Attach",
        [subject |-> side, port |-> port1, object_incarnation |-> 1, slot |-> 0]),
    Ev(6, 2, 1, 2, "ReincarnateObject", [object |-> o1, from_incarnation |-> 1]),
    Ev(7, 2, 1, 3, "SetLifecycle", [object |-> o1, object_incarnation |-> 2, action |-> "Removed"])}

MCOpenings == {
    [source |-> 1, authority |-> 1, incarnation |-> 1],
    [source |-> 1, authority |-> 1, incarnation |-> 2],
    [source |-> 2, authority |-> 1, incarnation |-> 1]}

\* Two sources report the same replacement; one of them restarts.
MCSameReplacement == {
    Ev(1, 1, 1, 1, "RegisterObject", [object |-> o1, label |-> NoLabel, sides |-> 1]),
    Ev(2, 1, 1, 2, "ReincarnateObject", [object |-> o1, from_incarnation |-> 1]),
    Ev(3, 2, 1, 1, "ReincarnateObject", [object |-> o1, from_incarnation |-> 1])}

\* A source repeats a report, word for word, under a new evidence id.
MCReissued == {
    Ev(n, 1, 1, 1, "RegisterObject", [object |-> o1, label |-> NoLabel, sides |-> 1]) : n \in {1, 2}}
==================================================================================
