------------------------------- MODULE MCPublishing -------------------------------
(***************************************************************************)
(* One publisher, started twice, registers a cable, attaches it and moves  *)
(* it.                                                                     *)
(***************************************************************************)
EXTENDS Publishing

CONSTANTS o1, e1, i1

MCObjects == {o1}
MCEndpoints == {e1}
MCLabels == {}
MCIds == {i1}

side == <<o1, 0>>

MCScript == <<
    [kind |-> "RegisterObject", payload |-> [object |-> o1, label |-> NoLabel, sides |-> 1]],
    [kind |-> "Attach",
     payload |-> [subject |-> side, port |-> <<e1, 0>>, object_incarnation |-> 1, slot |-> 0]],
    [kind |-> "Move",
     payload |-> [subject |-> side, object_incarnation |-> 1, from |-> <<e1, 0>>,
                  to |-> <<e1, 1>>, from_slot |-> 0, to_slot |-> 0]]>>

MCEvidence == Records
MCOpenings == {Opening(n) : n \in 1 .. MaxIncarnation}
==================================================================================
