------------------------------ MODULE RegistryViews ------------------------------
(***************************************************************************)
(* How the registry derives its answers from the folded state              *)
(* (src/registry.cpp: the derivation helpers, derive_port_view,            *)
(* derive_object_view, the counters and build_snapshot).  Every operator   *)
(* is a pure function of a state; no view is stored.                       *)
(*                                                                         *)
(* Connector and media compatibility notes, the history lists and the      *)
(* truncation of citation lists are left out: they annotate an answer and  *)
(* decide nothing.  A claim is cited by its key.                           *)
(***************************************************************************)
EXTENDS RegistryState

ValidationPolicy == {"IncludeAll", "LiveOnly"}

\* The keys whose record has the highest authority of the set.
TopAuthority(st, K) ==
    {k \in K : \A j \in K : st.claims[j].authority <= st.claims[k].authority}

\* The loop that keeps the best authority and, among equals, the smallest owner.
WinningKey(st, K) ==
    CHOOSE k \in TopAuthority(st, K) :
        \A j \in TopAuthority(st, K) : j # k => OwnerLess(k.owner, j.owner)

combine_validation(any, all) ==
    IF ~any THEN "Unvalidated" ELSE IF all THEN "Validated" ELSE "PartiallyValidated"

ValidationOf(st, K) ==
    combine_validation(\E k \in K : st.claims[k].asserted_in_lifetime,
                       \A k \in K : st.claims[k].asserted_in_lifetime)

participates(folded, policy) == policy = "IncludeAll" \/ folded.asserted_in_lifetime

winning_registration(st, o) == st.claims[WinningKey(st, KeysOf(st, "object", o))].value

winning_endpoint(st, e) == st.claims[WinningKey(st, KeysOf(st, "endpoint", e))].value

\* max_simultaneous_attachments: equal authorities that disagree admit the least.
port_capability_of(st, p) ==
    LET published == TopAuthority(st, UnfencedKeys(st, "port_cap", p))
    IN  CASE published # {} -> Min({st.claims[k].value.capacity : k \in published})
          [] published = {} /\ endpoint_exists(st, p[1]) -> winning_endpoint(st, p[1]).capacity
          [] OTHER -> 1

-----------------------------------------------------------------------------
(***************************************************************************)
(* Lifecycle.                                                              *)
(***************************************************************************)
\* The unfenced lifecycle records at the current incarnation, and the
\* reincarnations that led to it: those count as Present.
LifecycleCandidates(st, o) ==
    LET current == object_incarnation_of(st, o)
    IN  {k \in UnfencedKeys(st, "lifecycle", o) :
            st.claims[k].value.object_incarnation = current}
        \cup
        {k \in UnfencedKeys(st, "reincarnation", o) : st.claims[k].value.target = current}

CandidateAction(st, k) ==
    IF k.map = "lifecycle" THEN st.claims[k].value.action ELSE "Present"

Agreed(action) == [action |-> action, conflicting |-> FALSE]

\* Mutation: retirement is not sticky.
resolve_actions_unsticky(seen, reincarnated) ==
    IF Cardinality(seen) = 1 THEN Agreed(CHOOSE a \in seen : TRUE)
    ELSE IF "Removed" \in seen THEN Agreed("Removed")
    ELSE [action |-> "Present", conflicting |-> TRUE]

\* What the actions at the best authority amount to.
resolve_actions(seen, reincarnated) ==
    LET replaced == seen = {"Retired", "Present"} /\ reincarnated
    IN  CASE seen = {} \/ replaced -> Agreed("Present")
          [] Cardinality(seen) = 1 -> Agreed(CHOOSE a \in seen : TRUE)
          [] Cardinality(seen) > 1 /\ "Retired" \in seen /\ ~replaced -> Agreed("Retired")
          [] seen = {"Removed", "Present"} -> Agreed("Removed")
          [] OTHER -> [action |-> "Present", conflicting |-> TRUE]

\* The returned action and the conflicting output parameter.
lifecycle_action_of(st, o) ==
    LET top == TopAuthority(st, LifecycleCandidates(st, o))
    IN  resolve_actions({CandidateAction(st, k) : k \in top},
                        \E k \in top : k.map = "reincarnation")

object_excluded(st, o) ==
    lifecycle_action_of(st, o).action \in {"Quarantined", "Removed", "Retired"}

derive_lifecycle(st, o, has_attachment, has_detachment) ==
    LET lifecycle == lifecycle_action_of(st, o)
    IN  CASE lifecycle.conflicting -> "Conflicting"
          [] ~lifecycle.conflicting /\ lifecycle.action # "Present" -> lifecycle.action
          [] OTHER -> IF has_attachment THEN "Attached"
                      ELSE IF has_detachment THEN "Unattached" ELSE "Registered"

-----------------------------------------------------------------------------
(***************************************************************************)
(* One object side, from its own records.                                  *)
(***************************************************************************)
\* Mutation: a record about a replaced unit counts for its successor.
LiveSubjectKeys_any_unit(st, s, policy) ==
    {k \in UnfencedKeys(st, "subject", s) : participates(st.claims[k], policy)}

\* Unfenced participating records against the object's current incarnation.
LiveSubjectKeys(st, s, policy) ==
    {k \in UnfencedKeys(st, "subject", s) :
        /\ participates(st.claims[k], policy)
        /\ st.claims[k].value.object_incarnation = object_incarnation_of(st, s[1])}

Outranks(st, A, B) ==
    A # {} /\ \A j \in B : \E k \in A : st.claims[j].authority < st.claims[k].authority

\* With both sides at the same authority the answer is Conflicting, and counts as
\* validated as soon as one side is.
SideAnswer(st, live) ==
    LET attached == {k \in live : st.claims[k].value.attached}
        detached == live \ attached
        ports == {st.claims[k].value.port : k \in TopAuthority(st, attached)}
        sides == {ValidationOf(st, attached), ValidationOf(st, detached)}
        answer(state, validation, where, top) ==
            [has_records |-> state # "Unknown", state |-> state, validation |-> validation,
             ports |-> where, top |-> top]
    IN  CASE live = {} -> answer("Unknown", "Unvalidated", {}, {})
          [] Outranks(st, attached, detached) ->
                answer(IF Cardinality(ports) > 1 THEN "Conflicting" ELSE "Attached",
                       ValidationOf(st, attached), ports, TopAuthority(st, attached))
          [] Outranks(st, detached, attached) ->
                answer("Empty", ValidationOf(st, detached), {}, {})
          [] OTHER -> answer("Conflicting",
                             combine_validation(sides # {"Unvalidated"}, "Validated" \in sides),
                             {}, {})

\* The sides of an unknown object have no records that count.
derive_subject(st, s, policy) ==
    SideAnswer(st, IF object_exists(st, s[1]) THEN LiveSubjectKeys(st, s, policy) ELSE {})

subject_double_booked(st, s, policy) ==
    LET derivation == derive_subject(st, s, policy)
    IN  derivation.state = "Conflicting" /\ Cardinality(derivation.ports) > 1
==================================================================================
