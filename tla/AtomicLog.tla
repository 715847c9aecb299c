-------------------------------- MODULE AtomicLog --------------------------------
(***************************************************************************)
(* What the store promises the registry: a log in which every acknowledged *)
(* record stays, in order, followed by records whose append was never      *)
(* acknowledged.  log is what opening the store at this moment would load; *)
(* a compaction does not show.                                             *)
(***************************************************************************)
EXTENDS Integers, Sequences

CONSTANT Records

VARIABLES
    log,    \* the records the next open would load
    acked   \* the records that were acknowledged

vars == <<log, acked>>

Init == log = << >> /\ acked = << >>

\* The part of the log that is certain, with some of what is not.
Kept == {SubSeq(log, 1, n) : n \in Len(acked) .. Len(log)}

\* A record reaches the file, possibly in the place of unacknowledged ones.
Write(r) == (\E c \in Kept : log' = Append(c, r)) /\ UNCHANGED acked

\* An append returns: everything in the log is certain from now on.
Acknowledge == acked' = log /\ UNCHANGED log

\* Unacknowledged records are overwritten or lost.
Lose == log' \in Kept /\ UNCHANGED acked

Next ==
    \/ \E r \in Records : Write(r)
    \/ Acknowledge
    \/ Lose

Spec == Init /\ [][Next]_vars
==================================================================================
