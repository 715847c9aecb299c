------------------------- MODULE RegistryRules_proofs -------------------------
(***************************************************************************)
(* Rules of the registry, for every set of evidence records and            *)
(* OpenSession calls: fenced evidence changes no answer, labels are reused *)
(* only after retirement, retirement is sticky, and every table stays      *)
(* within its limit.                                                       *)
(*                                                                         *)
(* An answer reads the records that count; two states in which the same    *)
(* records count give the same answers, and neither the records of a       *)
(* fenced source incarnation nor new records about a unit that was         *)
(* replaced count.                                                         *)
(***************************************************************************)
EXTENDS Registry_proofs

\* The obligations are large: the provers get more than the default time.
USE SMTT(60), ZenonT(60)

-----------------------------------------------------------------------------
(***************************************************************************)
(* The records an answer is made from.                                     *)
(***************************************************************************)
\* The same keys, with the same records.
Alike(st, new, K, L) == K = L /\ \A k \in K : new.claims[k] = st.claims[k]

\* Keys that are alike have the same validation.
LEMMA AlikeValidation ==
    ASSUME NEW st, NEW new, NEW K, NEW L, Alike(st, new, K, L)
    PROVE  ValidationOf(st, K) = ValidationOf(new, L)
<1>1. /\ (\E k \in K : st.claims[k].asserted_in_lifetime)
            <=> (\E k \in L : new.claims[k].asserted_in_lifetime)
      /\ (\A k \in K : st.claims[k].asserted_in_lifetime)
            <=> (\A k \in L : new.claims[k].asserted_in_lifetime)
  BY Zenon DEF Alike
<1> QED
  BY <1>1 DEF ValidationOf, combine_validation

\* They also have alike records of the highest authority.
LEMMA AlikeTop ==
    ASSUME NEW st, NEW new, NEW K, NEW L, Alike(st, new, K, L)
    PROVE  /\ Alike(st, new, TopAuthority(st, K), TopAuthority(new, L))
           /\ ValidationOf(st, K) = ValidationOf(new, L)
           /\ TopAuthority(st, K) \subseteq K
<1>1. /\ Alike(st, new, TopAuthority(st, K), TopAuthority(new, L))
      /\ TopAuthority(st, K) \subseteq K
  BY DEF Alike, TopAuthority
<1> QED
  BY <1>1, AlikeValidation

\* The key of the smallest owner.
FirstOwner(K) == CHOOSE k \in K : \A j \in K : j # k => OwnerLess(k.owner, j.owner)

\* Authorities do not grow without bound, so that some record has the highest.
Ranked(st) == \E b \in Nat : \A k \in DOMAIN st.claims : st.claims[k].authority <= b

\* Some record has the highest authority.
LEMMA TopExists ==
    ASSUME NEW st, StateType(st), Ranked(st), NEW K \in SUBSET DOMAIN st.claims, K # {}
    PROVE  TopAuthority(st, K) # {}
<1>1. PICK b \in Nat : \A k \in DOMAIN st.claims : st.claims[k].authority <= b
  BY DEF Ranked
<1>2. \A k \in K : st.claims[k].authority \in Nat /\ st.claims[k].authority <= b
  BY <1>1 DEF StateType, Folded
<1> DEFINE S == {b - st.claims[k].authority : k \in K}
<1>3. S \in SUBSET Nat /\ S # {}
  BY <1>2
<1>4. PICK n \in S : \A m \in S : n <= m
  BY <1>3, LeastNatural, Zenon
<1>5. PICK k \in K : n = b - st.claims[k].authority
  BY <1>4
<1>6. ASSUME NEW j \in K PROVE st.claims[j].authority <= st.claims[k].authority
  <2>1. n <= b - st.claims[j].authority
    BY <1>4
  <2> QED
    BY <1>2, <1>5, <2>1
<1> QED
  BY <1>6 DEF TopAuthority

\* Of several keys with different owners one has the smallest owner.
LEMMA FirstExists ==
    ASSUME NEW K, K # {}, \A k \in K : k.owner \in Owner,
           \A j, k \in K : j.owner = k.owner => j = k
    PROVE  FirstOwner(K) \in K
<1>0. \A k \in K : /\ k.owner = <<k.owner[1], k.owner[2]>>
                   /\ k.owner[1] \in Nat /\ k.owner[2] \in Nat
  BY DEF Owner, SourceId
<1> DEFINE S == {k.owner[1] : k \in K}
<1>1. S \in SUBSET Nat /\ S # {}
  BY <1>0
<1>2. PICK s \in S : \A m \in S : s <= m
  BY <1>1, LeastNatural, Zenon
<1> DEFINE T == {k.owner[2] : k \in {j \in K : j.owner[1] = s}}
<1>3. T \in SUBSET Nat /\ T # {}
  BY <1>0, <1>2
<1>4. PICK t \in T : \A m \in T : t <= m
  BY <1>3, LeastNatural, Zenon
<1>5. PICK k \in K : k.owner[1] = s /\ k.owner[2] = t
  BY <1>4
<1>6. ASSUME NEW j \in K, j # k PROVE OwnerLess(k.owner, j.owner)
  <2>1. j.owner # k.owner
    BY <1>6
  <2>2. j.owner[1] # s \/ j.owner[2] # t
    BY <1>0, <1>5, <2>1, Zenon
  <2>3. s <= j.owner[1] /\ (j.owner[1] = s => t <= j.owner[2])
    BY <1>2, <1>4
  <2> QED
    BY <1>0, <1>1, <1>3, <1>5, <2>2, <2>3 DEF OwnerLess
<1> QED
  BY <1>6, Zenon DEF FirstOwner

\* The winner among alike keys of a map with one slot is the same key with the same record.
LEMMA AlikeWinner ==
    ASSUME NEW st, StateType(st), Ranked(st), NEW new, NEW m, NEW i, m # "port",
           NEW K \in SUBSET KeysOf(st, m, i), K # {}, NEW L, Alike(st, new, K, L)
    PROVE  /\ WinningKey(st, K) = WinningKey(new, L)
           /\ st.claims[WinningKey(st, K)] = new.claims[WinningKey(new, L)]
<1> DEFINE T == TopAuthority(st, K)
<1>0. Alike(st, new, T, TopAuthority(new, L)) /\ T \subseteq K
  BY AlikeTop, Zenon
<1>1. T = TopAuthority(new, L) /\ T \subseteq K
  BY <1>0, Zenon DEF Alike
<1>2. K \in SUBSET DOMAIN st.claims /\ \A k \in K : k \in ClaimKey /\ k.map = m /\ k.id = i
  BY DEF KeysOf, StateType
<1>3. T # {}
  BY <1>2, TopExists, Zenon
<1>4. \A k \in K : /\ k.owner \in Owner
                   /\ k = [map |-> m, id |-> i, owner |-> k.owner, slot |-> 0]
  BY <1>2 DEF ClaimKey
<1>5. FirstOwner(T) \in T
  <2>1. \A k \in T : k.owner \in Owner
    BY <1>1, <1>4, Zenon
  <2>2. \A j, k \in T : j.owner = k.owner => j = k
    BY <1>1, <1>4, Zenon
  <2> QED
    BY <1>3, <2>1, <2>2, FirstExists, Zenon
<1>6. WinningKey(st, K) = FirstOwner(T)
  BY Zenon DEF WinningKey, FirstOwner
<1>7. WinningKey(new, L) = FirstOwner(TopAuthority(new, L))
  BY Zenon DEF WinningKey, FirstOwner
<1> HIDE DEF T
<1>8. WinningKey(st, K) = FirstOwner(T) /\ WinningKey(new, L) = FirstOwner(T)
  BY <1>1, <1>6, <1>7, Zenon
<1> QED
  BY <1>1, <1>5, <1>8 DEF Alike

-----------------------------------------------------------------------------
(***************************************************************************)
(* The same records, the same answers.                                     *)
(***************************************************************************)
\* The registrations and the records that count for an answer are the same.
SameRecords(st, new) ==
    /\ \A m \in {"object", "endpoint"} : \A i : Alike(st, new, KeysOf(st, m, i), KeysOf(new, m, i))
    /\ \A m \in {"reincarnation", "object_cap", "port_cap"} : \A i :
          Alike(st, new, UnfencedKeys(st, m, i), UnfencedKeys(new, m, i))
    /\ \A o : Alike(st, new, LifecycleCandidates(st, o), LifecycleCandidates(new, o))
    /\ \A s : Alike(st, new, LiveSubjectKeys(st, s, "IncludeAll"),
                             LiveSubjectKeys(new, s, "IncludeAll"))
    /\ \A p : Alike(st, new, LivePortKeys(st, p, "IncludeAll"), LivePortKeys(new, p, "IncludeAll"))

\* An incarnation follows from the replacements that are not fenced.
LEMMA AlikeIncarnation ==
    ASSUME NEW st, NEW new, NEW o,
           Alike(st, new, UnfencedKeys(st, "reincarnation", o),
                          UnfencedKeys(new, "reincarnation", o))
    PROVE  object_incarnation_of(st, o) = object_incarnation_of(new, o)
<1> DEFINE T(x) == {x.claims[k].value.target : k \in UnfencedKeys(x, "reincarnation", o)}
<1>1. T(st) = T(new)
  BY DEF Alike
<1>2. /\ object_incarnation_of(st, o) = Max({1} \cup T(st))
      /\ object_incarnation_of(new, o) = Max({1} \cup T(new))
  BY Zenon DEF object_incarnation_of
<1> HIDE DEF T
<1> QED
  BY <1>1, <1>2, Zenon

\* What the actions of the candidates amount to follows from the candidates.
ResolvedAt(S, T) == resolve_actions(S, \E k \in T : k.map = "reincarnation")

\* Alike candidates amount to the same action.
LEMMA AlikeLifecycle ==
    ASSUME NEW st, NEW new, NEW o,
           Alike(st, new, LifecycleCandidates(st, o), LifecycleCandidates(new, o))
    PROVE  lifecycle_action_of(st, o) = lifecycle_action_of(new, o)
<1> DEFINE T(x) == TopAuthority(x, LifecycleCandidates(x, o))
           S(x) == {CandidateAction(x, k) : k \in T(x)}
<1>1. Alike(st, new, T(st), T(new))
  BY AlikeTop, Zenon
<1>2. lifecycle_action_of(st, o) = ResolvedAt(S(st), T(st))
  BY DEF lifecycle_action_of, ResolvedAt
<1>3. lifecycle_action_of(new, o) = ResolvedAt(S(new), T(new))
  BY DEF lifecycle_action_of, ResolvedAt
<1> HIDE DEF T
<1>4. S(st) = S(new) /\ T(st) = T(new)
  BY <1>1 DEF Alike, CandidateAction
<1> HIDE DEF S
<1> QED
  BY <1>2, <1>3, <1>4, Zenon

\* The answer of a side, as a function of what it is made from.
SideForm(live, top, ports, up, down, va, vd) ==
    LET sides == {va, vd}
        answer(is, validation, where, cited) ==
            [has_records |-> is # "Unknown", state |-> is, validation |-> validation,
             ports |-> where, top |-> cited]
    IN  CASE live = {} -> answer("Unknown", "Unvalidated", {}, {})
          [] up # {} -> answer(IF Cardinality(ports) > 1 THEN "Conflicting" ELSE "Attached",
                               va, ports, top)
          [] down # {} -> answer("Empty", vd, {}, {})
          [] OTHER -> answer("Conflicting",
                             combine_validation(sides # {"Unvalidated"}, "Validated" \in sides),
                             {}, {})

\* The answer of a side follows from its records that count.
LEMMA AlikeSide ==
    ASSUME NEW st, NEW new, NEW K, NEW L, Alike(st, new, K, L)
    PROVE  SideAnswer(st, K) = SideAnswer(new, L)
<1> DEFINE A(x, M) == {k \in M : x.claims[k].value.attached}
           D(x, M) == M \ A(x, M)
           P(x, M) == {x.claims[k].value.port : k \in TopAuthority(x, A(x, M))}
           U(x, M) == IF Outranks(x, A(x, M), D(x, M)) THEN {1} ELSE {}
           W(x, M) == IF Outranks(x, D(x, M), A(x, M)) THEN {1} ELSE {}
<1>1. ASSUME NEW x, NEW M
      PROVE  SideAnswer(x, M) = SideForm(M, TopAuthority(x, A(x, M)), P(x, M), U(x, M), W(x, M),
                                         ValidationOf(x, A(x, M)), ValidationOf(x, D(x, M)))
  BY DEF SideAnswer, SideForm
<1>2. Alike(st, new, A(st, K), A(new, L)) /\ Alike(st, new, D(st, K), D(new, L))
  BY DEF Alike
<1>3. /\ Outranks(st, A(st, K), D(st, K)) <=> Outranks(new, A(new, L), D(new, L))
      /\ Outranks(st, D(st, K), A(st, K)) <=> Outranks(new, D(new, L), A(new, L))
  <2> HIDE DEF A, D
  <2> QED
    BY <1>2 DEF Alike, Outranks
<1>4. U(st, K) = U(new, L) /\ W(st, K) = W(new, L)
  <2> HIDE DEF A, D
  <2> QED
    BY <1>3
<1>5. /\ Alike(st, new, TopAuthority(st, A(st, K)), TopAuthority(new, A(new, L)))
      /\ ValidationOf(st, A(st, K)) = ValidationOf(new, A(new, L))
      /\ ValidationOf(st, D(st, K)) = ValidationOf(new, D(new, L))
  <2> HIDE DEF A, D
  <2> QED
    BY <1>2, AlikeTop
<1>6. P(st, K) = P(new, L)
  <2> HIDE DEF A
  <2> QED
    BY <1>5 DEF Alike
<1>7. K = L /\ TopAuthority(st, A(st, K)) = TopAuthority(new, A(new, L))
  BY <1>5, Zenon DEF Alike
<1> HIDE DEF A, D, P, U, W
<1>8. SideForm(K, TopAuthority(st, A(st, K)), P(st, K), U(st, K), W(st, K),
               ValidationOf(st, A(st, K)), ValidationOf(st, D(st, K)))
      = SideForm(L, TopAuthority(new, A(new, L)), P(new, L), U(new, L), W(new, L),
                 ValidationOf(new, A(new, L)), ValidationOf(new, D(new, L)))
  BY <1>4, <1>5, <1>6, <1>7, Zenon
<1> QED
  BY <1>1, <1>8, Zenon

\* So the answers of all sides are the same.
LEMMA SameSide ==
    ASSUME NEW st, NEW new, SameRecords(st, new), NEW s
    PROVE  derive_subject(st, s, "IncludeAll") = derive_subject(new, s, "IncludeAll")
<1> DEFINE L(x) == IF object_exists(x, s[1]) THEN LiveSubjectKeys(x, s, "IncludeAll") ELSE {}
<1>1. object_exists(st, s[1]) <=> object_exists(new, s[1])
  BY Zenon DEF SameRecords, Alike, object_exists
<1>2. Alike(st, new, LiveSubjectKeys(st, s, "IncludeAll"), LiveSubjectKeys(new, s, "IncludeAll"))
  BY Zenon DEF SameRecords
<1>3. Alike(st, new, L(st), L(new))
  BY <1>1, <1>2 DEF Alike
<1>4. derive_subject(st, s, "IncludeAll") = SideAnswer(st, L(st))
  BY Zenon DEF derive_subject
<1>5. derive_subject(new, s, "IncludeAll") = SideAnswer(new, L(new))
  BY Zenon DEF derive_subject
<1> HIDE DEF L
<1> QED
  BY <1>3, <1>4, <1>5, AlikeSide

\* The capability of a port follows from what is published, or from the endpoint.
LEMMA SameCapability ==
    ASSUME NEW st, StateType(st), Ranked(st), NEW new, SameRecords(st, new), NEW p
    PROVE  port_capability_of(st, p) = port_capability_of(new, p)
<1> DEFINE T(x) == TopAuthority(x, UnfencedKeys(x, "port_cap", p))
           C(x) == {x.claims[k].value.capacity : k \in T(x)}
<1>1. Alike(st, new, UnfencedKeys(st, "port_cap", p), UnfencedKeys(new, "port_cap", p))
  BY Zenon DEF SameRecords
<1>2. Alike(st, new, T(st), T(new))
  BY <1>1, AlikeTop, Zenon
<1>3. ASSUME NEW x
      PROVE  /\ T(x) # {} => port_capability_of(x, p) = Min(C(x))
             /\ (T(x) = {} /\ endpoint_exists(x, p[1])) =>
                    port_capability_of(x, p) = winning_endpoint(x, p[1]).capacity
             /\ (T(x) = {} /\ ~endpoint_exists(x, p[1])) => port_capability_of(x, p) = 1
  BY DEF port_capability_of
<1> HIDE DEF T
<1>4. C(st) = C(new) /\ T(st) = T(new)
  BY <1>2 DEF Alike
<1> HIDE DEF C
<1>5. Alike(st, new, KeysOf(st, "endpoint", p[1]), KeysOf(new, "endpoint", p[1]))
  BY Zenon DEF SameRecords
<1>6. endpoint_exists(st, p[1]) <=> endpoint_exists(new, p[1])
  BY <1>5, Zenon DEF Alike, endpoint_exists
<1>7. ASSUME endpoint_exists(st, p[1])
      PROVE  winning_endpoint(st, p[1]) = winning_endpoint(new, p[1])
  <2>1. KeysOf(st, "endpoint", p[1]) # {}
    BY <1>7 DEF endpoint_exists
  <2>2. st.claims[WinningKey(st, KeysOf(st, "endpoint", p[1]))]
            = new.claims[WinningKey(new, KeysOf(new, "endpoint", p[1]))]
    BY <1>5, <2>1, AlikeWinner
  <2> QED
    BY <2>2, Zenon DEF winning_endpoint
<1> QED
  BY <1>3, <1>4, <1>6, <1>7, Zenon

\* The answer of a port, as a function of what it is made from.
PortForm(live, best, empty, subjects, capability, double_booked, edges, notes, validation) ==
    LET occupied == best \ empty
        too_many == Cardinality(subjects) > capability
        mixed == empty # {}
        attachment == IF too_many \/ mixed \/ double_booked # {}
                      THEN "Conflicting" ELSE "Attached"
    IN  [state |-> IF occupied # {} THEN attachment
                   ELSE IF empty # {} THEN "Empty" ELSE "Unknown",
         validation |-> validation,
         capability |-> capability,
         edges |-> edges,
         conflicts |->
            NoteIf(too_many, ConflictNote("TooManyAttachments", NilSide, occupied))
            \cup NoteIf(mixed /\ occupied # {}, ConflictNote("EmptyAndOccupied", NilSide, best))
            \cup notes,
         emptiness_claims |-> empty,
         overridden |-> live \ best]

\* So the answers of all ports are the same.
LEMMA SamePort ==
    ASSUME NEW st, StateType(st), Ranked(st), NEW new, SameRecords(st, new), NEW p
    PROVE  derive_port_view(st, p, "IncludeAll") = derive_port_view(new, p, "IncludeAll")
<1> DEFINE all == "IncludeAll"
           V(x) == LivePortKeys(x, p, all)
           B(x) == TopAuthority(x, V(x))
           E(x) == {k \in B(x) : x.claims[k].value.empty}
           O(x) == B(x) \ E(x)
           S(x) == {x.claims[k].value.subject : k \in O(x)}
           D(x) == {s \in S(x) : subject_double_booked(x, s, all)}
           C(x, s) == {k \in O(x) : x.claims[k].value.subject = s}
           G(x, s) == [subject |-> s, claims |-> C(x, s), slot |-> LastSlot(C(x, s)),
                       validation |-> ValidationOf(x, C(x, s))]
           H(x, s) == ConflictNote("ObjectSideDoubleBooked", s, derive_subject(x, s, all).top)
           EE(x) == {G(x, s) : s \in S(x)}
           NN(x) == {H(x, s) : s \in D(x)}
<1>1. ASSUME NEW x
      PROVE  derive_port_view(x, p, all)
             = PortForm(V(x), B(x), E(x), S(x), port_capability_of(x, p), D(x), EE(x), NN(x),
                        ValidationOf(x, B(x)))
  BY Zenon DEF derive_port_view, PortAnswer, PortForm
<1>2. Alike(st, new, V(st), V(new))
  BY Zenon DEF SameRecords
<1> HIDE DEF V
<1>3. Alike(st, new, B(st), B(new)) /\ ValidationOf(st, B(st)) = ValidationOf(new, B(new))
  <2>1. Alike(st, new, B(st), B(new))
    BY <1>2, AlikeTop, Zenon
  <2> HIDE DEF B
  <2> QED
    BY <2>1, AlikeValidation
<1> HIDE DEF B
<1>4. E(st) = E(new) /\ E(st) \subseteq B(st)
  BY <1>3 DEF Alike
<1>5. Alike(st, new, O(st), O(new))
  <2> HIDE DEF E
  <2> QED
    BY <1>3, <1>4 DEF Alike
<1> HIDE DEF E, O
<1>6. S(st) = S(new)
  BY <1>5 DEF Alike
<1> HIDE DEF S
<1>7. \A s : derive_subject(st, s, all) = derive_subject(new, s, all)
  BY SameSide, Zenon
<1>8. \A s : subject_double_booked(st, s, all) <=> subject_double_booked(new, s, all)
  BY <1>7, Zenon DEF subject_double_booked
<1>9. D(st) = D(new)
  <2> HIDE DEF all
  <2> QED
    BY <1>6, <1>8
<1>10. \A s : H(st, s) = H(new, s)
  BY <1>7, Zenon
<1> HIDE DEF D, H
<1>11. NN(st) = NN(new)
  BY <1>9, <1>10
<1>12. \A s : Alike(st, new, C(st, s), C(new, s))
  BY <1>5 DEF Alike
<1> HIDE DEF C
<1>13. \A s : C(st, s) = C(new, s) /\ ValidationOf(st, C(st, s)) = ValidationOf(new, C(new, s))
  <2>1. \A s : ValidationOf(st, C(st, s)) = ValidationOf(new, C(new, s))
    BY <1>12, AlikeValidation
  <2> QED
    BY <1>12, <2>1, Zenon DEF Alike
<1>14. \A s : G(st, s) = G(new, s)
  BY <1>13, Zenon
<1> HIDE DEF G
<1>15. EE(st) = EE(new)
  BY <1>6, <1>14
<1>16. port_capability_of(st, p) = port_capability_of(new, p)
  BY SameCapability
<1>17. V(st) = V(new) /\ B(st) = B(new)
  BY <1>2, <1>3, Zenon DEF Alike
<1> HIDE DEF NN, EE
<1> QED
  BY <1>1, <1>3, <1>4, <1>6, <1>9, <1>11, <1>15, <1>16, <1>17, ZenonT(60)

\* The answer of an object, as a function of what it is made from.
ObjectForm(label, incarnation, capability, side, resolved, top, notes) ==
    LET recorded == {n \in DOMAIN side : side[n].has_records}
        has_attachment == \E n \in DOMAIN side : side[n].state \in {"Attached", "Conflicting"}
        has_detachment == \E n \in DOMAIN side : side[n].state = "Empty"
    IN  [label |-> label,
         incarnation |-> incarnation,
         capability |-> capability,
         sides |-> side,
         lifecycle |->
            CASE resolved.conflicting -> "Conflicting"
              [] ~resolved.conflicting /\ resolved.action # "Present" -> resolved.action
              [] OTHER -> IF has_attachment THEN "Attached"
                          ELSE IF has_detachment THEN "Unattached" ELSE "Registered",
         conflicts |-> notes \cup NoteIf(resolved.conflicting,
                                         ConflictNote("LifecycleConflict", NilSide, top)),
         validation |-> combine_validation(
                           \E n \in recorded : side[n].validation # "Unvalidated",
                           \A n \in recorded : side[n].validation = "Validated")]

\* So the answers of all registered objects are the same.
LEMMA SameObject ==
    ASSUME NEW st, StateType(st), Ranked(st), NEW new, SameRecords(st, new), NEW o,
           object_exists(st, o)
    PROVE  derive_object_view(st, o, "IncludeAll") = derive_object_view(new, o, "IncludeAll")
<1> DEFINE all == "IncludeAll"
           F(x) == [n \in 0 .. winning_registration(x, o).sides - 1 |->
                        derive_subject(x, <<o, n>>, all)]
           R(x) == TopAuthority(x, KeysOf(x, "object", o))
           U(x) == TopAuthority(x, UnfencedKeys(x, "object_cap", o))
           Disagree(x, K) == \E j, k \in K : x.claims[j].value # x.claims[k].value
           C(x) == IF U(x) = {} THEN RegisteredCapability
                   ELSE x.claims[WinningKey(x, U(x))].value.capability
           N(x) == NoteIf(Disagree(x, U(x)), ConflictNote("PublishedCapability", NilSide, {}))
                   \cup NoteIf(Disagree(x, R(x)), ConflictNote("RegisteredCapability", NilSide, {}))
           T(x) == TopAuthority(x, LifecycleCandidates(x, o))
<1>1. ASSUME NEW x
      PROVE  derive_object_view(x, o, all)
             = ObjectForm(winning_registration(x, o).label, object_incarnation_of(x, o), C(x), F(x),
                          lifecycle_action_of(x, o), T(x), N(x))
  BY DEF derive_object_view, ObjectAnswer, ObjectForm, derive_lifecycle
<1>2. Alike(st, new, KeysOf(st, "object", o), KeysOf(new, "object", o))
  BY Zenon DEF SameRecords
<1>3. winning_registration(st, o) = winning_registration(new, o)
  <2>1. KeysOf(st, "object", o) # {}
    BY DEF object_exists
  <2>2. st.claims[WinningKey(st, KeysOf(st, "object", o))]
            = new.claims[WinningKey(new, KeysOf(new, "object", o))]
    BY <1>2, <2>1, AlikeWinner
  <2> QED
    BY <2>2, Zenon DEF winning_registration
<1>4. \A s : derive_subject(st, s, all) = derive_subject(new, s, all)
  BY SameSide, Zenon
<1>5. F(st) = F(new)
  <2> HIDE DEF all
  <2> QED
    BY <1>3, <1>4
<1>6. Alike(st, new, R(st), R(new))
  BY <1>2, AlikeTop, Zenon
<1>7. /\ Alike(st, new, U(st), U(new))
      /\ U(st) \in SUBSET KeysOf(st, "object_cap", o)
  <2>1. Alike(st, new, UnfencedKeys(st, "object_cap", o), UnfencedKeys(new, "object_cap", o))
    BY Zenon DEF SameRecords
  <2>2. UnfencedKeys(st, "object_cap", o) \subseteq KeysOf(st, "object_cap", o)
    BY DEF UnfencedKeys
  <2> QED
    BY <2>1, <2>2, AlikeTop, Zenon
<1> HIDE DEF R, U
<1>8. C(st) = C(new)
  <2>1. U(st) = U(new)
    BY <1>7, Zenon DEF Alike
  <2>2. CASE U(st) = {}
    BY <2>1, <2>2, Zenon
  <2>3. CASE U(st) # {}
    <3>1. st.claims[WinningKey(st, U(st))] = new.claims[WinningKey(new, U(new))]
      <4> DEFINE m == "object_cap"
      <4>1. m # "port" /\ U(st) \in SUBSET KeysOf(st, m, o) /\ Alike(st, new, U(st), U(new))
        BY <1>7
      <4> HIDE DEF m
      <4> QED
        BY <2>3, <4>1, AlikeWinner
    <3> QED
      BY <2>1, <2>3, <3>1, Zenon
  <2> QED
    BY <2>2, <2>3
<1>9. /\ Disagree(st, U(st)) <=> Disagree(new, U(new))
      /\ Disagree(st, R(st)) <=> Disagree(new, R(new))
  BY <1>6, <1>7 DEF Alike
<1> HIDE DEF Disagree
<1>10. N(st) = N(new)
  BY <1>9 DEF NoteIf
<1>11. Alike(st, new, LifecycleCandidates(st, o), LifecycleCandidates(new, o))
  BY Zenon DEF SameRecords
<1>12. T(st) = T(new)
  <2>1. Alike(st, new, T(st), T(new))
    BY <1>11, AlikeTop
  <2> QED
    BY <2>1, Zenon DEF Alike
<1>13. lifecycle_action_of(st, o) = lifecycle_action_of(new, o)
  BY <1>11, AlikeLifecycle
<1>14. object_incarnation_of(st, o) = object_incarnation_of(new, o)
  <2>1. Alike(st, new, UnfencedKeys(st, "reincarnation", o),
                       UnfencedKeys(new, "reincarnation", o))
    BY Zenon DEF SameRecords
  <2> QED
    BY <2>1, AlikeIncarnation
<1> HIDE DEF C, F, N, T
<1> QED
  BY <1>1, <1>3, <1>5, <1>8, <1>10, <1>12, <1>13, <1>14, Zenon

-----------------------------------------------------------------------------
(***************************************************************************)
(* What fenced evidence changes.                                           *)
(***************************************************************************)
\* Only keys of X were added or changed, none is a registration, and no source moved.
ChangedWithin(st, new, X) ==
    /\ new.sources = st.sources
    /\ DOMAIN st.claims \subseteq DOMAIN new.claims
    /\ \A k \in DOMAIN new.claims : k \notin X =>
          k \in DOMAIN st.claims /\ new.claims[k] = st.claims[k]
    /\ \A k \in X : k.map \notin {"object", "endpoint"}

\* Keys outside X are found, with their records, exactly where they were.
LEMMA UntouchedAlike ==
    ASSUME NEW st, NEW new, NEW X, ChangedWithin(st, new, X), NEW m, NEW i,
           \A k \in X : k.map # m
    PROVE  /\ Alike(st, new, KeysOf(st, m, i), KeysOf(new, m, i))
           /\ Alike(st, new, UnfencedKeys(st, m, i), UnfencedKeys(new, m, i))
BY DEF ChangedWithin, Alike, KeysOf, UnfencedKeys, session_is_fenced

\* What a record that registers nothing says, whom it names, and which unit it is about.
LEMMA SpokenFor ==
    ASSUME NEW e \in EvidenceType, e.kind \notin {"RegisterObject", "RegisterEndpoint"},
           NEW k \in ClaimKeys(e)
    PROVE  /\ k.map \notin {"object", "endpoint"}
           /\ e.kind \in IncarnationKinds =>
                 /\ k.map \in {"subject", "port", "lifecycle"}
                 /\ AssertedValue(e, k).object_incarnation = e.payload.object_incarnation
                 /\ k.map = "subject" => k.id[1] = NamedObject(e)
                 /\ k.map = "port" => AssertedValue(e, k).subject[1] = NamedObject(e)
                 /\ k.map = "lifecycle" => k.id = NamedObject(e)
<1> USE DEF SubjectKey, PortKey, LifecycleKey, ReincarnationKey, ObjectCapKey, PortCapKey,
            IncarnationKinds, NamedObject, EvidenceOf
<1>1. CASE e \in EvidenceOf("Attach",
                    [subject: ObjectSide, port: Port, object_incarnation: Nat, slot: Nat])
  BY <1>1 DEF ClaimKeys, AssertedValue, SubjectValue, PortValue
<1>2. CASE e \in EvidenceOf("Detach", [subject: ObjectSide, object_incarnation: Nat,
                                       from_port: Port \cup {NilPort}, slot: Nat])
  BY <1>2 DEF ClaimKeys, AssertedValue, SubjectValue, PortValue
<1>3. CASE e \in EvidenceOf("Move", [subject: ObjectSide, object_incarnation: Nat,
                                     from: Port, to: Port, from_slot: Nat, to_slot: Nat])
  BY <1>3 DEF ClaimKeys, MoveKeys, AssertedValue, SubjectValue, PortValue
<1>4. CASE e \in EvidenceOf("SetLifecycle", [object: Objects, object_incarnation: Nat,
                                             action: LifecycleAction])
  BY <1>4 DEF ClaimKeys, AssertedValue
<1>5. CASE e \in EvidenceOf("ReincarnateObject", [object: Objects, from_incarnation: Nat])
  BY <1>5 DEF ClaimKeys
<1>6. CASE e \in EvidenceOf("PublishObjectCapability", [object: Objects, capability: Nat])
  BY <1>6 DEF ClaimKeys
<1>7. CASE e \in EvidenceOf("PublishPortCapability", [port: Port, capacity: Nat])
  BY <1>7 DEF ClaimKeys
<1>8. \/ e.kind \in {"RegisterObject", "RegisterEndpoint"}
      \/ e \in EvidenceOf("Attach",
                    [subject: ObjectSide, port: Port, object_incarnation: Nat, slot: Nat])
      \/ e \in EvidenceOf("Detach", [subject: ObjectSide, object_incarnation: Nat,
                                       from_port: Port \cup {NilPort}, slot: Nat])
      \/ e \in EvidenceOf("Move", [subject: ObjectSide, object_incarnation: Nat,
                                     from: Port, to: Port, from_slot: Nat, to_slot: Nat])
      \/ e \in EvidenceOf("SetLifecycle", [object: Objects, object_incarnation: Nat,
                                             action: LifecycleAction])
      \/ e \in EvidenceOf("ReincarnateObject", [object: Objects, from_incarnation: Nat])
      \/ e \in EvidenceOf("PublishObjectCapability", [object: Objects, capability: Nat])
      \/ e \in EvidenceOf("PublishPortCapability", [port: Port, capacity: Nat])
  BY DEF EvidenceType
<1> QED
  BY <1>1, <1>2, <1>3, <1>4, <1>5, <1>6, <1>7, <1>8, ZenonT(60)

\* Ingesting a record that registers nothing changes only keys the record speaks for, and
\* the keys it adds hold what the record asserts.
LEMMA IngestChanges ==
    ASSUME NEW st, StateType(st), NEW e \in EvidenceType,
           e.kind \notin {"RegisterObject", "RegisterEndpoint"}
    PROVE  LET new == ingest_locked(st, e, TRUE, TRUE).state
           IN  /\ StateType(new)
               /\ ChangedWithin(st, new, ClaimKeys(e))
               /\ \A k \in DOMAIN new.claims \ DOMAIN st.claims :
                     new.claims[k].value = AssertedValue(e, k)
<1> DEFINE new == ingest_locked(st, e, TRUE, TRUE).state
           change == decide(st, e)
<1>1. /\ StateType(new) /\ new.sources = st.sources
      /\ \/ new.claims = st.claims
         \/ KnownSession(st, e) /\ new.claims = FoldedClaims(st, e, TRUE, change)
  BY IngestResult, Zenon DEF IngestEffect
<1>2. \A k \in ClaimKeys(e) : k.map \notin {"object", "endpoint"}
  BY SpokenFor, Zenon
<1> HIDE DEF new
<1>3. CASE new.claims = st.claims
  <2>1. ChangedWithin(st, new, ClaimKeys(e))
    BY <1>1, <1>2, <1>3 DEF ChangedWithin
  <2> QED
    BY <1>1, <1>3, <2>1, Zenon DEF new
<1>4. CASE KnownSession(st, e) /\ new.claims = FoldedClaims(st, e, TRUE, change)
  <2>1. /\ DOMAIN new.claims = DOMAIN st.claims \cup change.writes
        /\ change.writes \subseteq ClaimKeys(e) /\ change.rings \subseteq ClaimKeys(e)
    BY <1>4, FoldedKeys, ZenonT(60) DEF FoldsOwnKeys
  <2>2. FoldEffect(st, e, change, new.claims)
    BY <1>4, FoldedClaimsResult, Zenon
  <2> HIDE DEF change
  <2>3. \A k \in DOMAIN st.claims : k \notin change.writes /\ k \notin change.rings =>
            new.claims[k] = st.claims[k]
    BY <1>4 DEF FoldedClaims
  <2>4. ChangedWithin(st, new, ClaimKeys(e))
    BY <1>1, <1>2, <2>1, <2>3 DEF ChangedWithin
  <2>5. \A k \in DOMAIN new.claims \ DOMAIN st.claims : new.claims[k].value = AssertedValue(e, k)
    BY <2>1, <2>2 DEF FoldEffect
  <2> QED
    BY <1>1, <2>4, <2>5, Zenon DEF new
<1> QED
  BY <1>1, <1>3, <1>4, Zenon

\* What a port record of a source that is not fenced needs to count.
PortCounts(st, k) ==
    LET value == st.claims[k].value
        object == value.subject[1]
    IN  /\ object_exists(st, object) /\ ~object_excluded(st, object)
        /\ value.object_incarnation = object_incarnation_of(st, object)
        /\ value.empty \/ StillAsserted(st, k)

\* The records of a port that count.
LEMMA LivePorts ==
    ASSUME NEW st, NEW p
    PROVE  LivePortKeys(st, p, "IncludeAll") = {k \in UnfencedKeys(st, "port", p) : PortCounts(st, k)}
BY DEF LivePortKeys, PortCounts, participates

\* Changes under a fenced owner leave every record that counts where it was.
LEMMA FencedOwner ==
    ASSUME NEW st, NEW new, NEW X, ChangedWithin(st, new, X),
           \A k \in X : session_is_fenced(st, k.owner)
    PROVE  SameRecords(st, new)
<1>1. \A m \in {"object", "endpoint"} : \A i : Alike(st, new, KeysOf(st, m, i), KeysOf(new, m, i))
  BY DEF ChangedWithin, Alike, KeysOf
<1>2. \A w : session_is_fenced(st, w) <=> session_is_fenced(new, w)
  BY DEF ChangedWithin, session_is_fenced
<1>3. \A m, i : Alike(st, new, UnfencedKeys(st, m, i), UnfencedKeys(new, m, i))
  BY <1>2 DEF ChangedWithin, Alike, KeysOf, UnfencedKeys
<1>4. \A o : object_incarnation_of(st, o) = object_incarnation_of(new, o)
  BY <1>3, AlikeIncarnation
<1>5. \A o : Alike(st, new, LifecycleCandidates(st, o), LifecycleCandidates(new, o))
  BY <1>3, <1>4 DEF LifecycleCandidates, Alike
<1>6. \A s : Alike(st, new, LiveSubjectKeys(st, s, "IncludeAll"),
                            LiveSubjectKeys(new, s, "IncludeAll"))
  BY <1>3, <1>4 DEF LiveSubjectKeys, Alike, participates
<1>7. \A o : /\ object_exists(st, o) <=> object_exists(new, o)
             /\ object_excluded(st, o) <=> object_excluded(new, o)
  <2>1. \A o : lifecycle_action_of(st, o) = lifecycle_action_of(new, o)
    BY <1>5, AlikeLifecycle
  <2> QED
    BY <1>1, <2>1, Zenon DEF object_exists, object_excluded, Alike
<1>8. \A p : \A k \in UnfencedKeys(st, "port", p) :
         StillAsserted(st, k) <=> StillAsserted(new, k)
  <2> SUFFICES ASSUME NEW p, NEW k \in UnfencedKeys(st, "port", p)
               PROVE  StillAsserted(st, k) <=> StillAsserted(new, k)
    OBVIOUS
  <2>1. k \in UnfencedKeys(new, "port", p) /\ new.claims[k] = st.claims[k]
    BY <1>3 DEF Alike
  <2> DEFINE own == SubjectKey(st.claims[k].value.subject, k.owner)
  <2>2. own.owner = k.owner /\ ~session_is_fenced(st, k.owner)
    BY DEF SubjectKey, UnfencedKeys
  <2> HIDE DEF own
  <2>3. own \notin X
    BY <2>2
  <2>4. own \in DOMAIN st.claims <=> own \in DOMAIN new.claims
    BY <2>3 DEF ChangedWithin
  <2>5. own \in DOMAIN st.claims => new.claims[own] = st.claims[own]
    BY <2>3, <2>4 DEF ChangedWithin
  <2> QED
    BY <2>1, <2>4, <2>5, Zenon DEF StillAsserted, own
<1>9. \A p : Alike(st, new, LivePortKeys(st, p, "IncludeAll"), LivePortKeys(new, p, "IncludeAll"))
  <2> SUFFICES ASSUME NEW p
               PROVE  Alike(st, new, LivePortKeys(st, p, "IncludeAll"),
                                     LivePortKeys(new, p, "IncludeAll"))
    OBVIOUS
  <2>1. Alike(st, new, UnfencedKeys(st, "port", p), UnfencedKeys(new, "port", p))
    BY <1>3
  <2>2. ASSUME NEW k \in UnfencedKeys(st, "port", p)
        PROVE  PortCounts(st, k) <=> PortCounts(new, k)
    <3>1. new.claims[k] = st.claims[k]
      BY <2>1 DEF Alike
    <3> QED
      BY <1>4, <1>7, <1>8, <3>1, Zenon DEF PortCounts
  <2> QED
    BY <2>1, <2>2, LivePorts DEF Alike
<1> QED
  BY <1>1, <1>3, <1>5, <1>6, <1>9 DEF SameRecords

\* Added records about a unit that was replaced leave every record that counts where it was.
LEMMA ReplacedUnit ==
    ASSUME NEW st, NEW new, StateType(st), NEW e \in EvidenceType, e.kind \in IncarnationKinds,
           ChangedWithin(st, new, ClaimKeys(e)), ClaimKeys(e) \cap DOMAIN st.claims = {},
           \A k \in DOMAIN new.claims \ DOMAIN st.claims :
              new.claims[k].value = AssertedValue(e, k),
           e.payload.object_incarnation < object_incarnation_of(st, NamedObject(e))
    PROVE  SameRecords(st, new)
<1> DEFINE X == ClaimKeys(e)
           old == e.payload.object_incarnation
           current == object_incarnation_of(st, NamedObject(e))
<1>0. old # current
  <2>1. old \in Nat
    BY DEF EvidenceType, EvidenceOf, IncarnationKinds
  <2> HIDE DEF current
  <2> QED
    BY <2>1 DEF current
<1>1. ASSUME NEW k \in X
      PROVE  /\ k.map \in {"subject", "port", "lifecycle"}
             /\ AssertedValue(e, k).object_incarnation = old
             /\ k.map = "subject" => k.id[1] = NamedObject(e)
             /\ k.map = "port" => AssertedValue(e, k).subject[1] = NamedObject(e)
             /\ k.map = "lifecycle" => k.id = NamedObject(e)
  BY SpokenFor, Zenon DEF IncarnationKinds
<1>2. /\ \A k \in DOMAIN st.claims : k \in DOMAIN new.claims /\ new.claims[k] = st.claims[k]
      /\ \A k \in DOMAIN new.claims \ DOMAIN st.claims :
            k \in X /\ new.claims[k].value = AssertedValue(e, k)
      /\ new.sources = st.sources
  BY DEF ChangedWithin
<1>3. \A m \in {"object", "endpoint"} : \A i : Alike(st, new, KeysOf(st, m, i), KeysOf(new, m, i))
  BY <1>1, <1>2 DEF Alike, KeysOf
<1>4. \A w : session_is_fenced(st, w) <=> session_is_fenced(new, w)
  BY <1>2 DEF session_is_fenced
<1>5. \A m \in {"reincarnation", "object_cap", "port_cap"} : \A i :
          Alike(st, new, UnfencedKeys(st, m, i), UnfencedKeys(new, m, i))
  <2>1. ASSUME NEW m \in {"reincarnation", "object_cap", "port_cap"}, NEW i
        PROVE  Alike(st, new, UnfencedKeys(st, m, i), UnfencedKeys(new, m, i))
    <3>1. \A k \in X : k.map # m
      BY <1>1
    <3> QED
      BY <3>1, UntouchedAlike, Zenon
  <2> QED
    BY <2>1, Zenon
<1>6. \A o : object_incarnation_of(st, o) = object_incarnation_of(new, o)
  BY <1>5, AlikeIncarnation
<1>7. \A m, i : \A k \in UnfencedKeys(new, m, i) :
         \/ k \in UnfencedKeys(st, m, i)
         \/ /\ k \in X /\ k \in DOMAIN new.claims \ DOMAIN st.claims
            /\ new.claims[k].value = AssertedValue(e, k)
            /\ k.map = m /\ k.id = i
  BY <1>2, <1>4 DEF UnfencedKeys, KeysOf
<1>8. \A m, i : \A k \in UnfencedKeys(st, m, i) :
         k \in UnfencedKeys(new, m, i) /\ new.claims[k] = st.claims[k]
  BY <1>2, <1>4 DEF UnfencedKeys, KeysOf
<1> HIDE DEF X, old, current
<1>9. \A o : Alike(st, new, LifecycleCandidates(st, o), LifecycleCandidates(new, o))
  <2> SUFFICES ASSUME NEW o
               PROVE  Alike(st, new, LifecycleCandidates(st, o), LifecycleCandidates(new, o))
    OBVIOUS
  <2>1. \A k \in UnfencedKeys(new, "lifecycle", o) \ UnfencedKeys(st, "lifecycle", o) :
           new.claims[k].value.object_incarnation # object_incarnation_of(new, o)
    BY <1>0, <1>1, <1>6, <1>7 DEF current
  <2>2. Alike(st, new, UnfencedKeys(st, "reincarnation", o), UnfencedKeys(new, "reincarnation", o))
    BY <1>5
  <2> QED
    BY <1>6, <1>8, <2>1, <2>2 DEF Alike, LifecycleCandidates
<1>10. \A s : Alike(st, new, LiveSubjectKeys(st, s, "IncludeAll"),
                             LiveSubjectKeys(new, s, "IncludeAll"))
  <2> SUFFICES ASSUME NEW s
               PROVE  Alike(st, new, LiveSubjectKeys(st, s, "IncludeAll"),
                                     LiveSubjectKeys(new, s, "IncludeAll"))
    OBVIOUS
  <2>1. \A k \in UnfencedKeys(new, "subject", s) \ UnfencedKeys(st, "subject", s) :
           new.claims[k].value.object_incarnation # object_incarnation_of(new, s[1])
    BY <1>0, <1>1, <1>6, <1>7 DEF current
  <2> QED
    BY <1>6, <1>8, <2>1 DEF Alike, LiveSubjectKeys, participates
<1>11. \A o : /\ object_exists(st, o) <=> object_exists(new, o)
              /\ object_excluded(st, o) <=> object_excluded(new, o)
  <2>1. \A o : lifecycle_action_of(st, o) = lifecycle_action_of(new, o)
    BY <1>9, AlikeLifecycle
  <2> QED
    BY <1>3, <2>1, Zenon DEF object_exists, object_excluded, Alike
<1>12. ASSUME NEW p, NEW k \in UnfencedKeys(st, "port", p),
              st.claims[k].value.object_incarnation
                  = object_incarnation_of(st, st.claims[k].value.subject[1])
       PROVE  StillAsserted(st, k) <=> StillAsserted(new, k)
  <2> DEFINE own == SubjectKey(st.claims[k].value.subject, k.owner)
  <2>1. k \in DOMAIN st.claims /\ new.claims[k] = st.claims[k]
    BY <1>2 DEF UnfencedKeys, KeysOf
  <2>2. own.map = "subject" /\ own.id = st.claims[k].value.subject
    BY DEF SubjectKey
  <2> HIDE DEF own
  <2>3. CASE own \in DOMAIN st.claims
    <3>1. own \in DOMAIN new.claims /\ new.claims[own] = st.claims[own]
      BY <1>2, <2>3
    <3> QED
      BY <2>1, <2>3, <3>1, ZenonT(60) DEF StillAsserted, own
  <2>4. CASE own \notin DOMAIN st.claims /\ own \in DOMAIN new.claims
    <3>1. /\ own \in X /\ new.claims[own].value.object_incarnation = old
          /\ own.id[1] = NamedObject(e)
      BY <1>1, <1>2, <2>2, <2>4
    <3>2. new.claims[own].value.object_incarnation # st.claims[k].value.object_incarnation
      BY <1>0, <1>12, <2>2, <3>1 DEF current
    <3>3. ~StillAsserted(new, k)
      BY <2>1, <3>2, Zenon DEF StillAsserted, own
    <3>4. ~StillAsserted(st, k)
      BY <2>4, Zenon DEF StillAsserted, own
    <3> QED
      BY <3>3, <3>4
  <2>5. CASE own \notin DOMAIN st.claims /\ own \notin DOMAIN new.claims
    BY <2>1, <2>5, Zenon DEF StillAsserted, own
  <2> QED
    BY <2>3, <2>4, <2>5
<1>13. \A p : Alike(st, new, LivePortKeys(st, p, "IncludeAll"), LivePortKeys(new, p, "IncludeAll"))
  <2> SUFFICES ASSUME NEW p
               PROVE  Alike(st, new, LivePortKeys(st, p, "IncludeAll"),
                                     LivePortKeys(new, p, "IncludeAll"))
    OBVIOUS
  <2>1. \A k \in UnfencedKeys(new, "port", p) \ UnfencedKeys(st, "port", p) :
           new.claims[k].value.object_incarnation
               # object_incarnation_of(new, new.claims[k].value.subject[1])
    BY <1>0, <1>1, <1>6, <1>7 DEF current
  <2>2. \A k \in UnfencedKeys(new, "port", p) :
           PortCounts(new, k) => k \in UnfencedKeys(st, "port", p)
    BY <2>1, Zenon DEF PortCounts
  <2>3. ASSUME NEW k \in UnfencedKeys(st, "port", p)
        PROVE  /\ k \in UnfencedKeys(new, "port", p) /\ new.claims[k] = st.claims[k]
               /\ PortCounts(st, k) <=> PortCounts(new, k)
    <3>1. k \in UnfencedKeys(new, "port", p) /\ new.claims[k] = st.claims[k]
      BY <1>8
    <3> QED
      BY <1>6, <1>11, <1>12, <3>1, ZenonT(60) DEF PortCounts
  <2> QED
    BY <2>2, <2>3, LivePorts, Zenon DEF Alike
<1> QED
  BY <1>3, <1>5, <1>9, <1>10, <1>13, Zenon DEF SameRecords

\* A record that is accepted as fenced by its incarnation names an earlier unit.
LEMMA FencedNamesEarlier ==
    ASSUME NEW st, NEW e, decide(st, e).disposition = "AcceptedFencedIncarnation"
    PROVE  /\ e.kind \in IncarnationKinds
           /\ e.payload.object_incarnation < object_incarnation_of(st, NamedObject(e))
<1>1. \/ \E d \in {"RefusedCapacity", "RefusedConflict", "Duplicate", "AcceptedSuperseded",
                   "RefusedLabelConflict"} : \E w, r : decide(st, e) = Staged(d, w, r)
      \/ \E w, r : decide(st, e) = Staged(effective_disposition(st, e), w, r)
  BY Zenon DEF decide
<1>2. \A d, w, r : Staged(d, w, r).disposition = d
  BY DEF Staged
<1>3. effective_disposition(st, e) = "AcceptedFencedIncarnation"
  BY <1>1, <1>2
<1> QED
  BY <1>3 DEF effective_disposition

\* Some bound on the authorities of the records survives every step.
LEMMA RankedStep ==
    ASSUME TypeOK, Ranked(state), [Next]_vars
    PROVE  Ranked(state')
<1>1. StateType(state) /\ ClaimsStep(state, state')
  BY StepResult DEF TypeOK
<1>2. CASE state'.claims = state.claims
  BY <1>2 DEF Ranked
<1>3. ASSUME NEW e \in Evidence, KnownSession(state, e),
             state'.claims = FoldedClaims(state, e, TRUE, decide(state, e))
      PROVE  Ranked(state')
  <2> DEFINE change == decide(state, e)
             meta == MetaOf(state, e, TRUE)
  <2>1. e \in EvidenceType
    BY EvidenceAssumption
  <2>2. PICK b \in Nat : \A k \in DOMAIN state.claims : state.claims[k].authority <= b
    BY DEF Ranked
  <2>3. meta.authority \in Nat
    BY <1>1, <1>3 DEF MetaOf, KnownSession, StateType, SourceRecord
  <2>4. meta \in [generation: Nat, evidence: Nat, authority: Nat, asserted_in_lifetime: BOOLEAN]
    BY <2>1, <2>3, HeaderType DEF MetaOf
  <2>5. \A x, v : fold(x, meta, v).authority = meta.authority
    BY DEF fold, FoldedRecord
  <2>6. \A v, r : FoldedRecord(meta, v, r).authority = meta.authority
    BY DEF FoldedRecord
  <2>7. \A k \in DOMAIN state.claims :
           /\ fold_losing(state.claims[k], meta).authority = state.claims[k].authority
           /\ state.claims[k].authority \in Nat
    <3> SUFFICES ASSUME NEW k \in DOMAIN state.claims
                 PROVE  /\ fold_losing(state.claims[k], meta).authority = state.claims[k].authority
                        /\ state.claims[k].authority \in Nat
      BY Zenon
    <3>1. state.claims[k] \in Folded(k.map)
      BY <1>1 DEF StateType
    <3> HIDE DEF meta
    <3>2. fold_losing(state.claims[k], meta).authority = state.claims[k].authority
      BY <2>4, <3>1, FoldLosingResult DEF KeepsWinner
    <3> QED
      BY <3>1, <3>2 DEF Folded
  <2> HIDE DEF change, meta
  <2>8. /\ DOMAIN state'.claims = DOMAIN state.claims \cup change.writes
        /\ \A k \in DOMAIN state'.claims :
              \/ state'.claims[k].authority = meta.authority
              \/ /\ k \in DOMAIN state.claims
                 /\ state'.claims[k].authority = state.claims[k].authority
    <3>1. state'.claims = [k \in DOMAIN state.claims \cup change.writes |->
            IF k \in change.writes
            THEN IF k \in DOMAIN state.claims
                 THEN fold(state.claims[k], meta, AssertedValue(e, k))
                 ELSE FoldedRecord(meta, AssertedValue(e, k), {})
            ELSE IF k \in change.rings THEN fold_losing(state.claims[k], meta)
            ELSE state.claims[k]]
      BY <1>3, Zenon DEF FoldedClaims, change, meta
    <3> QED
      BY <2>5, <2>6, <2>7, <3>1
  <2>9. CASE meta.authority <= b
    BY <2>2, <2>8, <2>9 DEF Ranked
  <2>10. CASE b < meta.authority
    BY <2>2, <2>3, <2>7, <2>8, <2>10 DEF Ranked
  <2> QED
    BY <2>3, <2>9, <2>10
<1> QED
  BY <1>1, <1>2, <1>3, Zenon DEF ClaimsStep

\* A fenced source incarnation, and whoever first speaks about a unit that was replaced,
\* change no answer of the registry.
THEOREM FencedNeverBinds == Spec => []FencedEvidenceNeverBinds
<1>1. Init => Ranked(state)
  BY InitResult DEF Ranked
<1>2. TypeOK /\ Ranked(state) /\ [Next]_vars => Ranked(state')
  BY RankedStep
<1>3. TypeOK /\ Ranked(state) => FencedEvidenceNeverBinds
  <2> SUFFICES ASSUME TypeOK, Ranked(state), NEW e \in Evidence,
                      e.kind \notin {"RegisterObject", "RegisterEndpoint"},
                      \/ session_is_fenced(state, OwnerOf(e))
                      \/ /\ decide(state, e).disposition = "AcceptedFencedIncarnation"
                         /\ ClaimKeys(e) \cap DOMAIN state.claims = {}
               PROVE  Answers(ingest_locked(state, e, TRUE, TRUE).state) = Answers(state)
    BY Zenon DEF FencedEvidenceNeverBinds
  <2> DEFINE new == ingest_locked(state, e, TRUE, TRUE).state
  <2>1. StateType(state) /\ e \in EvidenceType
    BY EvidenceAssumption DEF TypeOK
  <2>2. /\ StateType(new)
        /\ ChangedWithin(state, new, ClaimKeys(e))
        /\ \A k \in DOMAIN new.claims \ DOMAIN state.claims :
              new.claims[k].value = AssertedValue(e, k)
    BY <2>1, IngestChanges, Zenon
  <2> HIDE DEF new
  <2>3. SameRecords(state, new)
    <3>1. CASE session_is_fenced(state, OwnerOf(e))
      <4>1. \A k \in ClaimKeys(e) : session_is_fenced(state, k.owner)
        BY <2>1, <3>1, ClaimKeysType
      <4> QED
        BY <2>2, <4>1, FencedOwner, Zenon
    <3>2. CASE /\ decide(state, e).disposition = "AcceptedFencedIncarnation"
               /\ ClaimKeys(e) \cap DOMAIN state.claims = {}
      <4>1. /\ e.kind \in IncarnationKinds
            /\ e.payload.object_incarnation < object_incarnation_of(state, NamedObject(e))
        BY <3>2, FencedNamesEarlier, Zenon
      <4> QED
        BY <2>1, <2>2, <3>2, <4>1, ReplacedUnit, Zenon
    <3> QED
      BY <3>1, <3>2
  <2>4. \A o : object_exists(new, o) <=> object_exists(state, o)
    BY <2>3, Zenon DEF SameRecords, Alike, object_exists
  <2>5. \A o : object_exists(state, o) =>
           derive_object_view(new, o, "IncludeAll") = derive_object_view(state, o, "IncludeAll")
    BY <2>1, <2>3, SameObject, Zenon
  <2>6. \A p : derive_port_view(new, p, "IncludeAll") = derive_port_view(state, p, "IncludeAll")
    BY <2>1, <2>3, SamePort, ZenonT(60)
  <2>7. Answers(new) = Answers(state)
    BY <2>4, <2>5, <2>6 DEF Answers
  <2> QED
    BY <2>7, Zenon DEF new
<1> DEFINE R == Ranked(state)
<1>4. Init => R
  BY <1>1
<1>5. TypeOK /\ R /\ [Next]_vars => R'
  BY <1>2
<1>6. TypeOK /\ R => FencedEvidenceNeverBinds
  BY <1>3
<1> HIDE DEF R
<1> QED
  BY <1>4, <1>5, <1>6, TypeCorrect, PTL DEF Spec

-----------------------------------------------------------------------------
(***************************************************************************)
(* Label reuse.                                                            *)
(***************************************************************************)
\* A record that writes under a label found no live object of another name under it.
LEMMA WritesUnderFreeLabel ==
    ASSUME NEW st, NEW e, decide(st, e).writes # {}
    PROVE  ~LabelHeldElsewhere(st, e)
<1>1. ASSUME LabelHeldElsewhere(st, e)
      PROVE  \E d, r : decide(st, e) = Staged(d, {}, r)
  BY <1>1 DEF decide
<1>2. ASSUME NEW d, NEW r
      PROVE  Staged(d, {}, r).writes = {}
  BY DEF Staged
<1> QED
  BY <1>1, <1>2

\* A label that appears on an object was put there by a registration that is written.
LEMMA NewLabelWritten ==
    ASSUME TypeOK, ClaimsStep(state, state'),
           NEW pair \in RegisteredLabels(state') \ RegisteredLabels(state)
    PROVE  \E e \in Evidence :
              /\ e.kind = "RegisterObject" /\ decide(state, e).writes # {}
              /\ e.payload.label = pair[1] /\ e.payload.object = pair[2]
              /\ e.payload.label # NoLabel
<1>1. state'.claims # state.claims
  BY SameClaimsSameLabels
<1>2. PICK e \in Evidence :
          /\ KnownSession(state, e)
          /\ state'.claims = FoldedClaims(state, e, TRUE, decide(state, e))
  BY <1>1, Zenon DEF ClaimsStep
<1> e \in EvidenceType
  BY EvidenceAssumption
<1> DEFINE change == decide(state, e)
<1>3. FoldEffect(state, e, change, state'.claims)
  BY <1>2, FoldedClaimsResult, Zenon DEF TypeOK
<1>4. change.writes \subseteq ClaimKeys(e)
  BY StagedKeys DEF KeysWith, StagesNews
<1> HIDE DEF change
<1>5. PICK k \in DOMAIN state'.claims :
          /\ k.map = "object" /\ state'.claims[k].value.label # NoLabel
          /\ pair = <<state'.claims[k].value.label, k.id>>
  BY DEF RegisteredLabels
<1>6. k \in change.writes
  <2>1. ASSUME k \notin change.writes
        PROVE  k \in DOMAIN state.claims /\ state.claims[k].value = state'.claims[k].value
    BY <1>3, <2>1 DEF FoldEffect
  <2> QED
    BY <1>5, <2>1 DEF RegisteredLabels
<1>7. state'.claims[k].value = AssertedValue(e, k)
  BY <1>3, <1>6 DEF FoldEffect
<1>8. /\ e.kind = "RegisterObject" /\ k.id = e.payload.object
      /\ state'.claims[k].value.label = e.payload.label
  BY <1>4, <1>5, <1>6, <1>7, RegistrationKey
<1> QED
  BY <1>5, <1>6, <1>8 DEF change

\* The lookup a registration makes finds every object that carries its label.
LEMMA ReuseStep ==
    ASSUME TypeOK, LabelIndexComplete, [Next]_vars,
           NEW pair \in RegisteredLabels(state') \ RegisteredLabels(state),
           NEW other \in RegisteredLabels(state), other[1] = pair[1], other[2] # pair[2]
    PROVE  lifecycle_action_of(state, other[2]).action = "Retired"
<1>1. ClaimsStep(state, state')
  BY StepResult
<1>2. PICK e \in Evidence :
          /\ e.kind = "RegisterObject" /\ decide(state, e).writes # {}
          /\ e.payload.label = pair[1] /\ e.payload.object = pair[2]
          /\ e.payload.label # NoLabel
  BY <1>1, NewLabelWritten
<1>3. ~LabelHeldElsewhere(state, e)
  BY <1>2, WritesUnderFreeLabel
<1>4. other \in label_index_after_lookup(state)
  BY DEF LabelIndexComplete, label_index_after_lookup
<1> QED
  BY <1>2, <1>3, <1>4 DEF LabelHeldElsewhere

\* A label is put on an object only when every other object that carries it is retired.
THEOREM LabelsReused == Spec => LabelReuseRefused
<1>1. TypeOK /\ LabelIndexComplete /\ [Next]_vars =>
        [\A pair \in RegisteredLabels(state') \ RegisteredLabels(state) :
           \A other \in RegisteredLabels(state) :
              (other[1] = pair[1] /\ other[2] # pair[2]) =>
                  lifecycle_action_of(state, other[2]).action = "Retired"]_vars
  BY ReuseStep
<1> QED
  BY <1>1, TypeCorrect, LabelIndexCorrect, PTL DEF Spec, LabelReuseRefused

-----------------------------------------------------------------------------
(***************************************************************************)
(* Retirement.                                                             *)
(***************************************************************************)
\* The actions are finitely many, and a set of them has one element or several.
LEMMA ActionsCounted ==
    ASSUME NEW seen \in SUBSET LifecycleAction
    PROVE  /\ Cardinality(seen) \in Nat
           /\ Cardinality(seen) = 0 <=> seen = {}
           /\ Cardinality(seen) = 1 <=> \E a : seen = {a}
<1>1. IsFiniteSet({"Present"} \cup {"Quarantined"} \cup {"Removed"} \cup {"Retired"})
  <2>1. IsFiniteSet({"Present"})
    BY FS_Singleton
  <2>2. \A S, x : IsFiniteSet(S) => IsFiniteSet(S \cup {x})
    BY FS_AddElement
  <2> QED
    BY <2>1, <2>2, Zenon
<1>2. LifecycleAction = {"Present"} \cup {"Quarantined"} \cup {"Removed"} \cup {"Retired"}
  BY DEF LifecycleAction
<1>3. IsFiniteSet(seen)
  BY <1>1, <1>2, FS_Subset, Zenon
<1> QED
  BY <1>3, FS_CardinalityType, FS_EmptySet, FS_Singleton, Zenon

\* Retired prevails over other actions of its authority, unless a replacement is of that
\* authority too; and it is never the answer when nobody reported it.
LEMMA ResolvesRetired ==
    ASSUME NEW seen \in SUBSET LifecycleAction, NEW reincarnated \in BOOLEAN
    PROVE  /\ "Retired" \in seen /\ ~reincarnated =>
                 resolve_actions(seen, reincarnated).action = "Retired"
           /\ resolve_actions(seen, reincarnated).action = "Retired" => "Retired" \in seen
<1> DEFINE replaced == seen = {"Retired", "Present"} /\ reincarnated
           n == Cardinality(seen)
           resolved == resolve_actions(seen, reincarnated)
<1>1. /\ n \in Nat /\ (n = 0 <=> seen = {}) /\ (n = 1 <=> \E a : seen = {a})
  BY ActionsCounted, Zenon
<1>2. resolved = CASE seen = {} \/ replaced -> Agreed("Present")
                   [] n = 1 -> Agreed(CHOOSE a \in seen : TRUE)
                   [] n > 1 /\ "Retired" \in seen /\ ~replaced -> Agreed("Retired")
                   [] seen = {"Removed", "Present"} -> Agreed("Removed")
                   [] OTHER -> [action |-> "Present", conflicting |-> TRUE]
  BY DEF resolve_actions
<1>3. \A a : Agreed(a).action = a
  BY DEF Agreed
<1>4. ~(n = 1 /\ n > 1) /\ (seen # {} => n = 1 \/ n > 1)
  BY <1>1
<1>5. \A a, b : a # b => {a, b} # {} /\ ~\E x : {a, b} = {x}
  OBVIOUS
<1> HIDE DEF n, resolved
<1>6. CASE seen = {}
  <2>1. n # 1 /\ ~(n > 1) /\ seen # {"Removed", "Present"}
    BY <1>1, <1>6
  <2>2. resolved = Agreed("Present")
    BY <1>2, <1>6, <2>1
  <2> QED
    BY <1>3, <1>6, <2>2 DEF resolved
<1>7. CASE replaced
  <2>1. n # 1 /\ seen # {"Removed", "Present"}
    BY <1>1, <1>5, <1>7
  <2>2. resolved = Agreed("Present")
    BY <1>2, <1>7, <2>1
  <2> QED
    BY <1>3, <1>7, <2>2 DEF resolved
<1>8. CASE n = 1 /\ seen # {} /\ ~replaced
  <2>1. PICK a : seen = {a}
    BY <1>1, <1>8
  <2>2. seen # {"Removed", "Present"}
    BY <1>5, <2>1
  <2>3. resolved = Agreed(CHOOSE x \in seen : TRUE)
    BY <1>2, <1>4, <1>8, <2>2
  <2>4. (CHOOSE x \in seen : TRUE) = a
    BY <2>1
  <2> QED
    BY <1>3, <2>1, <2>3, <2>4 DEF resolved
<1>9. CASE n > 1 /\ seen # {} /\ ~replaced /\ "Retired" \in seen
  <2>1. seen # {"Removed", "Present"} /\ n # 1
    BY <1>4, <1>9
  <2>2. resolved = Agreed("Retired")
    BY <1>2, <1>9, <2>1
  <2> QED
    BY <1>3, <1>9, <2>2 DEF resolved
<1>10. CASE n > 1 /\ seen # {} /\ ~replaced /\ "Retired" \notin seen
  <2>1. n # 1
    BY <1>4, <1>10
  <2>2. resolved = Agreed("Removed") \/ resolved = [action |-> "Present", conflicting |-> TRUE]
    BY <1>2, <1>10, <2>1, Zenon
  <2> QED
    BY <1>3, <1>10, <2>2 DEF resolved
<1> QED
  BY <1>4, <1>6, <1>7, <1>8, <1>9, <1>10

\* A candidate has a lifecycle action.
LEMMA CandidateActionType ==
    ASSUME NEW st, StateType(st), NEW o, NEW k \in LifecycleCandidates(st, o)
    PROVE  /\ k \in DOMAIN st.claims /\ st.claims[k].authority \in Nat
           /\ CandidateAction(st, k) \in LifecycleAction
<1>1. k \in DOMAIN st.claims
  BY DEF LifecycleCandidates, UnfencedKeys, KeysOf
<1>2. st.claims[k] \in Folded(k.map)
  BY <1>1 DEF StateType
<1>3. k.map = "lifecycle" => st.claims[k].value.action \in LifecycleAction
  BY <1>2 DEF Folded, ClaimValue
<1>4. "Present" \in LifecycleAction
  BY DEF LifecycleAction
<1> QED
  BY <1>1, <1>2, <1>3, <1>4 DEF CandidateAction, Folded

\* An object is retired when a Retired record is at the best authority and no replacement
\* is, and only when a Retired record is.
LEMMA RetiredBy ==
    ASSUME NEW st, StateType(st), NEW o
    PROVE  /\ (/\ Retirers(st, o) # {}
               /\ \A k \in TopAuthority(st, LifecycleCandidates(st, o)) :
                     k.map # "reincarnation") =>
                 lifecycle_action_of(st, o).action = "Retired"
           /\ lifecycle_action_of(st, o).action = "Retired" => Retirers(st, o) # {}
<1> DEFINE top == TopAuthority(st, LifecycleCandidates(st, o))
           seen == {CandidateAction(st, k) : k \in top}
           reincarnated == \E k \in top : k.map = "reincarnation"
<1>1. top \subseteq LifecycleCandidates(st, o)
  BY DEF TopAuthority
<1>2. seen \in SUBSET LifecycleAction
  BY <1>1, CandidateActionType
<1>3. lifecycle_action_of(st, o) = resolve_actions(seen, reincarnated)
  BY DEF lifecycle_action_of
<1>4. Retirers(st, o) # {} <=> "Retired" \in seen
  BY DEF Retirers
<1>5. reincarnated \in BOOLEAN
  OBVIOUS
<1> HIDE DEF seen, top
<1>6. /\ "Retired" \in seen /\ ~reincarnated =>
            resolve_actions(seen, reincarnated).action = "Retired"
      /\ resolve_actions(seen, reincarnated).action = "Retired" => "Retired" \in seen
  <2> HIDE DEF reincarnated
  <2> QED
    BY <1>2, <1>5, ResolvesRetired
<1> QED
  BY <1>3, <1>4, <1>6, Zenon DEF top

\* A retirer that is as it was, at the incarnation there was, keeps the object retired
\* unless somebody outranks it or a replacement of its authority counts.
LEMMA RetirerHolds ==
    ASSUME NEW st, StateType(st), NEW new, StateType(new), NEW o, NEW k \in Retirers(st, o),
           k \in DOMAIN new.claims, new.claims[k] = st.claims[k],
           object_incarnation_of(new, o) = object_incarnation_of(st, o),
           ~session_is_fenced(new, k.owner),
           \A j \in LifecycleCandidates(new, o) :
              /\ ~(new.claims[j].authority > st.claims[k].authority)
              /\ ~(j.map = "reincarnation" /\ new.claims[j].authority = st.claims[k].authority)
    PROVE  lifecycle_action_of(new, o).action = "Retired"
<1> DEFINE top == TopAuthority(new, LifecycleCandidates(new, o))
<1>1. k \in LifecycleCandidates(st, o) /\ CandidateAction(st, k) = "Retired"
  BY DEF Retirers, TopAuthority
<1>2. k.map = "lifecycle"
  BY <1>1 DEF CandidateAction
<1>3. /\ k \in UnfencedKeys(st, "lifecycle", o)
      /\ st.claims[k].value.object_incarnation = object_incarnation_of(st, o)
  BY <1>1, <1>2 DEF LifecycleCandidates, UnfencedKeys, KeysOf
<1>4. k \in LifecycleCandidates(new, o)
  BY <1>2, <1>3 DEF LifecycleCandidates, UnfencedKeys, KeysOf
<1>5. \A j \in LifecycleCandidates(new, o) : new.claims[j].authority \in Nat
  BY CandidateActionType
<1>6. k \in top
  BY <1>4, <1>5 DEF TopAuthority
<1>7. CandidateAction(new, k) = "Retired"
  BY <1>1, <1>2 DEF CandidateAction
<1>8. k \in Retirers(new, o)
  BY <1>6, <1>7 DEF Retirers
<1>9. ASSUME NEW j \in top
      PROVE  j.map # "reincarnation"
  <2>1. /\ j \in LifecycleCandidates(new, o)
        /\ new.claims[k].authority <= new.claims[j].authority
    BY <1>4, <1>9 DEF TopAuthority
  <2> QED
    BY <1>4, <1>5, <2>1
<1> QED
  BY <1>8, <1>9, RetiredBy

\* No step undoes a retirement but those RetirementSticky names.
LEMMA StickyStep ==
    ASSUME TypeOK, [Next]_vars, NEW o \in Objects,
           lifecycle_action_of(state, o).action = "Retired",
           lifecycle_action_of(state', o).action # "Retired",
           object_incarnation_of(state', o) = object_incarnation_of(state, o)
    PROVE  \E k \in Retirers(state, o) :
              \/ session_is_fenced(state', k.owner)
              \/ state'.claims[k] # state.claims[k]
              \/ \E j \in LifecycleCandidates(state', o) :
                    \/ state'.claims[j].authority > state.claims[k].authority
                    \/ /\ j.map = "reincarnation"
                       /\ state'.claims[j].authority = state.claims[k].authority
<1>1. StateType(state) /\ StateType(state')
  BY StepResult DEF TypeOK
<1>2. PICK k : k \in Retirers(state, o)
  BY <1>1, RetiredBy
<1>3. k \in DOMAIN state.claims
  BY <1>1, <1>2, CandidateActionType DEF Retirers, TopAuthority
<1>4. k \in DOMAIN state'.claims
  BY <1>3, ForgetsNothing
<1> QED
  BY <1>1, <1>2, <1>4, RetirerHolds

\* Retirement is undone only by a source that retired the object correcting itself or
\* being fenced, by a replacement, or by a higher authority.
THEOREM RetirementHolds == Spec => RetirementSticky
<1>1. TypeOK /\ [Next]_vars =>
        [\A o \in Objects :
            (/\ lifecycle_action_of(state, o).action = "Retired"
             /\ lifecycle_action_of(state', o).action # "Retired") =>
                \/ object_incarnation_of(state', o) # object_incarnation_of(state, o)
                \/ \E k \in Retirers(state, o) :
                      \/ session_is_fenced(state', k.owner)
                      \/ state'.claims[k] # state.claims[k]
                      \/ \E j \in LifecycleCandidates(state', o) :
                            \/ state'.claims[j].authority > state.claims[k].authority
                            \/ /\ j.map = "reincarnation"
                               /\ state'.claims[j].authority = state.claims[k].authority]_vars
  BY StickyStep
<1> QED
  BY <1>1, TypeCorrect, PTL DEF Spec, RetirementSticky

-----------------------------------------------------------------------------
(***************************************************************************)
(* Limits.                                                                 *)
(***************************************************************************)
\* A nonempty ring has an oldest record: every other one is newer.
LEMMA OldestRecord ==
    ASSUME NEW ring \in SUBSET Attestation, ring # {}
    PROVE  \E a \in ring : \A b \in ring : b # a => Older(a, b)
<1> DEFINE generations == {a.generation : a \in ring}
<1>1. PICK g \in generations : \A m \in generations : g <= m
  <2>1. generations \in SUBSET Nat /\ generations # {}
    BY DEF Attestation
  <2> HIDE DEF generations
  <2> QED
    BY <2>1, LeastNatural
<1> DEFINE evidences == {a.evidence : a \in {x \in ring : x.generation = g}}
<1>2. PICK v \in evidences : \A m \in evidences : v <= m
  <2>1. evidences \in SUBSET Nat /\ evidences # {}
    BY DEF Attestation
  <2> HIDE DEF evidences
  <2> QED
    BY <2>1, LeastNatural
<1>3. PICK a \in ring : a.generation = g /\ a.evidence = v
  OBVIOUS
<1>4. ASSUME NEW b \in ring, b # a
      PROVE  Older(a, b)
  <2>1. /\ g <= b.generation /\ (b.generation = g => v <= b.evidence)
    BY <1>1, <1>2
  <2>2. b.generation # a.generation \/ b.evidence # a.evidence
    BY <1>4 DEF Attestation
  <2> QED
    BY <1>3, <2>1, <2>2 DEF Older, Attestation
<1> QED
  BY <1>4

\* A trimmed ring has at most history_per_key records.
LEMMA TrimRingBounded ==
    ASSUME NEW ring \in SUBSET Attestation, IsFiniteSet(ring)
    PROVE  IsFiniteSet(TrimRing(ring)) /\ Cardinality(TrimRing(ring)) <= HistoryPerKey
<1> DEFINE trimmed == TrimRing(ring)
<1>1. trimmed \in SUBSET ring /\ IsFiniteSet(trimmed)
  BY TrimRingSubset, FS_Subset
<1>2. \A a \in trimmed : Cardinality({b \in ring : Older(a, b)}) < HistoryPerKey
  BY DEF TrimRing
<1> HIDE DEF trimmed
<1>3. CASE trimmed = {}
  BY <1>1, <1>3, FS_EmptySet, HistoryAssumption DEF trimmed
<1>4. CASE trimmed # {}
  <2>1. PICK a \in trimmed : \A b \in trimmed : b # a => Older(a, b)
    BY <1>1, <1>4, OldestRecord
  <2> DEFINE newer == {b \in ring : Older(a, b)}
             rest == trimmed \ {a}
  <2>2. IsFiniteSet(newer) /\ Cardinality(newer) < HistoryPerKey
    BY <1>1, <1>2, FS_Subset
  <2>3. rest \in SUBSET newer
    BY <1>1, <2>1
  <2>4. IsFiniteSet(rest) /\ Cardinality(rest) = Cardinality(trimmed) - 1
    BY <1>1, FS_RemoveElement
  <2> HIDE DEF newer, rest
  <2>5. Cardinality(rest) <= Cardinality(newer)
    BY <2>2, <2>3, FS_Subset
  <2>6. Cardinality(trimmed) \in Nat /\ Cardinality(newer) \in Nat
    BY <1>1, <2>2, FS_CardinalityType
  <2>7. Cardinality(trimmed) <= HistoryPerKey
    BY <2>2, <2>4, <2>5, <2>6, HistoryAssumption
  <2> QED
    BY <1>1, <2>7 DEF trimmed
<1> QED
  BY <1>3, <1>4

\* The sets BoundedRecords bounds are finite and within their limits.
Within(S, limit) == IsFiniteSet(S) /\ Cardinality(S) <= limit

\* A set within a limit stays within it without some of its elements.
LEMMA WithinSubset ==
    ASSUME NEW S, NEW T, NEW limit \in Nat, Within(S, limit), T \subseteq S
    PROVE  Within(T, limit)
<1>1. IsFiniteSet(T) /\ Cardinality(T) <= Cardinality(S)
  BY FS_Subset DEF Within
<1>2. Cardinality(T) \in Nat /\ Cardinality(S) \in Nat
  BY <1>1, FS_CardinalityType DEF Within
<1> QED
  BY <1>1, <1>2 DEF Within

\* A set that is not full has room for one more element.
LEMMA WithinAdd ==
    ASSUME NEW S, NEW T, NEW x, NEW limit \in Nat,
           Within(S, limit), T \subseteq S \cup {x}, x \notin S => Cardinality(S) < limit
    PROVE  Within(T, limit)
<1>1. Cardinality(S) \in Nat
  BY FS_CardinalityType DEF Within
<1>2. /\ IsFiniteSet(S \cup {x})
      /\ Cardinality(S \cup {x}) = IF x \in S THEN Cardinality(S) ELSE Cardinality(S) + 1
  BY FS_AddElement DEF Within
<1>3. Within(S \cup {x}, limit)
  BY <1>1, <1>2 DEF Within
<1> QED
  BY <1>3, WithinSubset

CatalogueWithin(st) ==
    /\ Within({o \in Objects : object_exists(st, o)}, MaxObjects)
    /\ Within({x \in Endpoints : endpoint_exists(st, x)}, MaxEndpoints)

RingsWithin(st) == \A k \in DOMAIN st.claims : Within(st.claims[k].superseded, HistoryPerKey)

PortsWithin(st) == \A p : Within(KeysOf(st, "port", p), MaxClaimsPerPort + 1)

\* A record is written only where every limit it meets leaves room.
LEMMA WritesHaveRoom ==
    ASSUME NEW st, NEW e, decide(st, e).writes # {}
    PROVE  /\ \A k \in ClaimKeys(e) : ~port_capacity_reached(st, k)
           /\ ~CatalogueFull(st, e)
<1>1. ASSUME (\E k \in ClaimKeys(e) : port_capacity_reached(st, k)) \/ CatalogueFull(st, e)
      PROVE  \E d, r : decide(st, e) = Staged(d, {}, r)
  BY <1>1, ZenonT(60) DEF decide
<1>2. ASSUME NEW d, NEW r
      PROVE  Staged(d, {}, r).writes = {}
  BY DEF Staged
<1> QED
  BY <1>1, <1>2

\* A record speaks for at most two port keys.
LEMMA TwoPortKeys ==
    ASSUME NEW e \in EvidenceType
    PROVE  \E x, y : \A k \in ClaimKeys(e) : k.map = "port" => k \in {x, y}
<1> USE DEF ObjectKey, EndpointKey, SubjectKey, LifecycleKey, ReincarnationKey,
            ObjectCapKey, PortCapKey
<1> DEFINE p == e.payload
           w == OwnerOf(e)
<1>1. e.kind \in {"RegisterObject", "RegisterEndpoint", "Attach", "Detach", "Move",
                  "SetLifecycle", "ReincarnateObject", "PublishObjectCapability",
                  "PublishPortCapability"}
  BY DEF EvidenceOf, EvidenceType
<1>2. CASE e.kind = "Attach"
  <2>1. \A k \in ClaimKeys(e) : k.map = "port" => k = PortKey(p.port, w, p.slot)
    BY <1>2 DEF ClaimKeys
  <2> QED
    BY <2>1
<1>3. CASE e.kind = "Detach"
  <2>1. \A k \in ClaimKeys(e) : k.map = "port" => k = PortKey(p.from_port, w, p.slot)
    BY <1>3 DEF ClaimKeys
  <2> QED
    BY <2>1
<1>4. CASE e.kind = "Move"
  <2>1. \A k \in ClaimKeys(e) : k.map = "port" =>
            k = PortKey(p.to, w, p.to_slot) \/ k = PortKey(p.from, w, p.from_slot)
    BY <1>4 DEF ClaimKeys, MoveKeys
  <2> QED
    BY <2>1
<1>5. CASE e.kind \notin {"Attach", "Detach", "Move"}
  <2>1. \A k \in ClaimKeys(e) : k.map # "port"
    BY <1>1, <1>5 DEF ClaimKeys
  <2> QED
    BY <2>1
<1> QED
  BY <1>2, <1>3, <1>4, <1>5

\* Only a registration speaks for an endpoint key.
LEMMA EndpointRegistrationKey ==
    ASSUME NEW e \in EvidenceType, NEW k \in ClaimKeys(e), k.map = "endpoint"
    PROVE  e.kind = "RegisterEndpoint" /\ k.id = e.payload.endpoint
<1> USE DEF ObjectKey, EndpointKey, SubjectKey, PortKey, LifecycleKey,
            ReincarnationKey, ObjectCapKey, PortCapKey
<1>1. e.kind \in {"RegisterObject", "RegisterEndpoint", "Attach", "Detach", "Move",
                  "SetLifecycle", "ReincarnateObject", "PublishObjectCapability",
                  "PublishPortCapability"}
  BY DEF EvidenceOf, EvidenceType
<1>2. e.kind = "RegisterEndpoint"
  BY <1>1 DEF ClaimKeys, MoveKeys
<1> QED
  BY <1>2 DEF ClaimKeys

\* The ring of a record is the one it was given.
LEMMA FoldedRing ==
    ASSUME NEW meta, NEW value, NEW ring
    PROVE  FoldedRecord(meta, value, ring).superseded = ring
BY DEF FoldedRecord

\* Both folds leave a ring within history_per_key.
LEMMA FoldedRingWithin ==
    ASSUME NEW map, NEW folded \in Folded(map), Within(folded.superseded, HistoryPerKey),
           NEW meta \in [generation: Nat, evidence: Nat, authority: Nat,
                         asserted_in_lifetime: BOOLEAN],
           NEW value
    PROVE  /\ Within(fold(folded, meta, value).superseded, HistoryPerKey)
           /\ Within(fold_losing(folded, meta).superseded, HistoryPerKey)
<1>1. folded.superseded \in SUBSET Attestation /\ IsFiniteSet(folded.superseded)
  BY DEF Folded, Within
<1>2. AttestationOf(folded) \in Attestation /\ AttestationOf(meta) \in Attestation
  BY DEF AttestationOf, Attestation, Folded
<1>3. ASSUME NEW a \in Attestation
      PROVE  Within(TrimRing(folded.superseded \cup {a}), HistoryPerKey)
  <2>1. IsFiniteSet(folded.superseded \cup {a})
    BY <1>1, FS_AddElement
  <2>2. folded.superseded \cup {a} \in SUBSET Attestation
    BY <1>1
  <2> QED
    BY <2>1, <2>2, TrimRingBounded DEF Within
<1>4. Within(TrimRing(folded.superseded), HistoryPerKey)
  BY <1>1, TrimRingBounded DEF Within
<1>5. \/ fold(folded, meta, value) = FoldedRecord(meta, value, TrimRing(folded.superseded))
      \/ fold(folded, meta, value)
            = FoldedRecord(meta, value, TrimRing(folded.superseded \cup {AttestationOf(folded)}))
  BY DEF fold
<1>6. Within(fold(folded, meta, value).superseded, HistoryPerKey)
  BY <1>2, <1>3, <1>4, <1>5, FoldedRing
<1>7. \/ fold_losing(folded, meta) = folded
      \/ fold_losing(folded, meta)
            = [folded EXCEPT !.superseded = TrimRing(folded.superseded \cup {AttestationOf(meta)})]
  BY DEF fold_losing
<1>8. ASSUME NEW ring
      PROVE  [folded EXCEPT !.superseded = ring].superseded = ring
  BY DEF Folded
<1>9. Within(fold_losing(folded, meta).superseded, HistoryPerKey)
  BY <1>2, <1>3, <1>7, <1>8, Zenon
<1> QED
  BY <1>6, <1>9

\* Folding a record keeps every ring within its limit.
LEMMA RingsStep ==
    ASSUME NEW st, StateType(st), RingsWithin(st), NEW e \in EvidenceType,
           KnownSession(st, e), NEW new,
           new.claims = FoldedClaims(st, e, TRUE, decide(st, e))
    PROVE  RingsWithin(new)
<1> DEFINE change == decide(st, e)
           meta == MetaOf(st, e, TRUE)
<1>1. meta \in [generation: Nat, evidence: Nat, authority: Nat, asserted_in_lifetime: BOOLEAN]
  <2>1. st.sources[e.source].authority \in Nat
    BY DEF StateType, SourceRecord, KnownSession
  <2> QED
    BY <2>1, HeaderType DEF MetaOf
<1>2. new.claims = [k \in DOMAIN st.claims \cup change.writes |->
            IF k \in change.writes
            THEN IF k \in DOMAIN st.claims
                 THEN fold(st.claims[k], meta, AssertedValue(e, k))
                 ELSE FoldedRecord(meta, AssertedValue(e, k), {})
            ELSE IF k \in change.rings THEN fold_losing(st.claims[k], meta)
            ELSE st.claims[k]]
  BY DEF FoldedClaims
<1> HIDE DEF change, meta
<1>3. ASSUME NEW k \in DOMAIN st.claims
      PROVE  Within(new.claims[k].superseded, HistoryPerKey)
  <2>1. st.claims[k] \in Folded(k.map) /\ Within(st.claims[k].superseded, HistoryPerKey)
    BY DEF StateType, RingsWithin
  <2>2. /\ Within(fold(st.claims[k], meta, AssertedValue(e, k)).superseded, HistoryPerKey)
        /\ Within(fold_losing(st.claims[k], meta).superseded, HistoryPerKey)
    BY <1>1, <2>1, FoldedRingWithin, ZenonT(60)
  <2>3. new.claims[k] \in {fold(st.claims[k], meta, AssertedValue(e, k)),
                           fold_losing(st.claims[k], meta), st.claims[k]}
    BY <1>2, Zenon
  <2> QED
    BY <2>1, <2>2, <2>3, Zenon
<1>4. ASSUME NEW k \in change.writes, k \notin DOMAIN st.claims
      PROVE  Within(new.claims[k].superseded, HistoryPerKey)
  <2>1. new.claims[k] = FoldedRecord(meta, AssertedValue(e, k), {})
    BY <1>2, <1>4, Zenon
  <2>2. new.claims[k].superseded = {}
    BY <2>1, FoldedRing, Zenon
  <2>3. Within({}, HistoryPerKey)
    BY FS_EmptySet, HistoryAssumption DEF Within
  <2> QED
    BY <2>2, <2>3, Zenon
<1>5. DOMAIN new.claims = DOMAIN st.claims \cup change.writes
  BY <1>2, Zenon
<1> QED
  BY <1>3, <1>4, <1>5, Zenon DEF RingsWithin

\* Folding a record keeps every port within its limit: both keys of a move may be new,
\* and each was counted before the other was added.
LEMMA PortsStep ==
    ASSUME NEW st, PortsWithin(st), NEW e \in EvidenceType, NEW new,
           DOMAIN new.claims = DOMAIN st.claims \cup decide(st, e).writes
    PROVE  PortsWithin(new)
<1> DEFINE writes == decide(st, e).writes
<1>1. writes \subseteq ClaimKeys(e)
  BY StagedKeys DEF KeysWith, StagesNews
<1>2. writes # {} => \A k \in ClaimKeys(e) : ~port_capacity_reached(st, k)
  BY WritesHaveRoom
<1>3. PICK x, y : \A k \in ClaimKeys(e) : k.map = "port" => k \in {x, y}
  BY TwoPortKeys
<1> HIDE DEF writes
<1> SUFFICES ASSUME NEW p
             PROVE  Within(KeysOf(new, "port", p), MaxClaimsPerPort + 1)
  BY DEF PortsWithin
<1> DEFINE before == KeysOf(st, "port", p)
           after == KeysOf(new, "port", p)
<1>4. MaxClaimsPerPort \in Nat /\ MaxClaimsPerPort + 1 \in Nat
  BY LimitsAssumption
<1>5. Within(before, MaxClaimsPerPort + 1) /\ Cardinality(before) \in Nat
  BY FS_CardinalityType DEF PortsWithin, Within
<1>6. CASE \A k \in after : k \in DOMAIN st.claims
  <2>1. after \subseteq before
    BY <1>6 DEF KeysOf
  <2> HIDE DEF before, after
  <2> QED
    BY <1>4, <1>5, <2>1, WithinSubset DEF after
<1>7. CASE \E k \in after : k \notin DOMAIN st.claims
  <2>1. PICK k \in after : k \notin DOMAIN st.claims
    BY <1>7
  <2>2. k \in writes /\ k.map = "port" /\ k.id = p
    BY <2>1 DEF KeysOf, writes
  <2>3. ~port_capacity_reached(st, k)
    BY <1>1, <1>2, <2>2
  <2>4. Cardinality(before) < MaxClaimsPerPort
    BY <1>4, <1>5, <2>1, <2>2, <2>3 DEF port_capacity_reached
  <2>5. after \subseteq before \cup {x} \cup {y}
    BY <1>1, <1>3 DEF KeysOf, writes
  <2> HIDE DEF before, after
  <2>6. /\ IsFiniteSet(before \cup {x})
        /\ Cardinality(before \cup {x}) <= Cardinality(before) + 1
    <3>1. /\ IsFiniteSet(before \cup {x})
          /\ Cardinality(before \cup {x})
                = IF x \in before THEN Cardinality(before) ELSE Cardinality(before) + 1
      BY <1>5, FS_AddElement DEF Within
    <3> QED
      BY <1>5, <3>1
  <2>7. Cardinality(before \cup {x}) \in Nat
    BY <2>6, FS_CardinalityType
  <2>8. /\ Within(before \cup {x}, MaxClaimsPerPort + 1)
        /\ Cardinality(before \cup {x}) < MaxClaimsPerPort + 1
    BY <1>4, <1>5, <2>4, <2>6, <2>7 DEF Within
  <2> QED
    BY <1>4, <2>5, <2>8, WithinAdd DEF after
<1> QED
  BY <1>6, <1>7

\* Folding a record keeps the catalogue within its limits: only a registration adds to
\* it, at most one entry, and not when it is full.
LEMMA CatalogueStep ==
    ASSUME NEW st, CatalogueWithin(st), NEW e \in EvidenceType, NEW new,
           DOMAIN new.claims = DOMAIN st.claims \cup decide(st, e).writes
    PROVE  CatalogueWithin(new)
<1> DEFINE writes == decide(st, e).writes
           objects(x) == {o \in Objects : object_exists(x, o)}
           endpoints(x) == {p \in Endpoints : endpoint_exists(x, p)}
<1>1. writes \subseteq ClaimKeys(e)
  BY StagedKeys DEF KeysWith, StagesNews
<1>2. writes # {} => ~CatalogueFull(st, e)
  BY WritesHaveRoom
<1>3. /\ MaxObjects \in Nat /\ MaxEndpoints \in Nat
      /\ Within(objects(st), MaxObjects) /\ Within(endpoints(st), MaxEndpoints)
  BY LimitsAssumption DEF CatalogueWithin
<1>4. Cardinality(objects(st)) \in Nat /\ Cardinality(endpoints(st)) \in Nat
  BY <1>3, FS_CardinalityType DEF Within
<1>5. DOMAIN new.claims = DOMAIN st.claims \cup writes
  OBVIOUS
<1> HIDE DEF writes
<1>6. Within(objects(new), MaxObjects)
  <2>1. CASE \E k \in writes : k.map = "object"
    <3>1. e.kind = "RegisterObject" /\ ~CatalogueFull(st, e)
      BY <1>1, <1>2, <2>1, RegistrationKey
    <3> DEFINE o == e.payload.object
    <3>2. objects(new) \subseteq objects(st) \cup {o}
      BY <1>1, <1>5, RegistrationKey DEF object_exists, KeysOf
    <3>3. o \in Objects
      BY <3>1, Zenon DEF EvidenceOf, EvidenceType
    <3>4. o \notin objects(st) => Cardinality(objects(st)) < MaxObjects
      BY <1>3, <1>4, <3>1, <3>3 DEF CatalogueFull
    <3> HIDE DEF objects, o
    <3> QED
      BY <1>3, <3>2, <3>4, WithinAdd
  <2>2. CASE ~\E k \in writes : k.map = "object"
    <3>1. objects(new) \subseteq objects(st)
      BY <1>5, <2>2 DEF object_exists, KeysOf
    <3> HIDE DEF objects
    <3> QED
      BY <1>3, <3>1, WithinSubset
  <2> QED
    BY <2>1, <2>2
<1>7. Within(endpoints(new), MaxEndpoints)
  <2>1. CASE \E k \in writes : k.map = "endpoint"
    <3>1. e.kind = "RegisterEndpoint" /\ ~CatalogueFull(st, e)
      BY <1>1, <1>2, <2>1, EndpointRegistrationKey
    <3> DEFINE p == e.payload.endpoint
    <3>2. endpoints(new) \subseteq endpoints(st) \cup {p}
      BY <1>1, <1>5, EndpointRegistrationKey DEF endpoint_exists, KeysOf
    <3>3. p \in Endpoints
      BY <3>1, Zenon DEF EvidenceOf, EvidenceType
    <3>4. p \notin endpoints(st) => Cardinality(endpoints(st)) < MaxEndpoints
      BY <1>3, <1>4, <3>1, <3>3 DEF CatalogueFull
    <3> HIDE DEF endpoints, p
    <3> QED
      BY <1>3, <3>2, <3>4, WithinAdd
  <2>2. CASE ~\E k \in writes : k.map = "endpoint"
    <3>1. endpoints(new) \subseteq endpoints(st)
      BY <1>5, <2>2 DEF endpoint_exists, KeysOf
    <3> HIDE DEF endpoints
    <3> QED
      BY <1>3, <3>1, WithinSubset
  <2> QED
    BY <2>1, <2>2
<1> QED
  BY <1>6, <1>7 DEF CatalogueWithin

\* OpenSession adds a source only when the table of sources has room.
LEMMA SourcesStep ==
    ASSUME TypeOK, Within(DOMAIN state.sources, MaxSources), [Next]_vars
    PROVE  Within(DOMAIN state'.sources, MaxSources)
<1> StateType(state) /\ MaxSources \in Nat
  BY LimitsAssumption DEF TypeOK
<1>1. ASSUME NEW o \in Openings, OpenSession(o),
             opens(open_disposition(state, o.source, o.authority, o.incarnation))
      PROVE  Within(DOMAIN state'.sources, MaxSources)
  <2> o.source \in SourceId /\ o.authority \in Nat /\ o.incarnation \in Nat
    BY OpeningsAssumption
  <2> DEFINE opened == apply_session_open(state, o.source, o.authority, o.incarnation)
             w == <<o.source, o.incarnation>>
  <2>1. DOMAIN opened.sources = DOMAIN state.sources \cup {o.source}
    BY DEF apply_session_open, StateType
  <2>2. StateType(opened)
    BY SessionOpenResult DEF OpenEffect
  <2>3. state' = set_session_live(opened, w, TRUE)
    BY <1>1 DEF OpenSession
  <2> HIDE DEF opened, w
  <2>4. state'.sources = opened.sources
    BY <2>2, <2>3, SetLiveResult, Zenon DEF SetLiveEffect
  <2>5. o.source \notin DOMAIN state.sources => Cardinality(DOMAIN state.sources) < MaxSources
    <3>1. Cardinality(DOMAIN state.sources) \in Nat
      BY FS_CardinalityType DEF Within
    <3> QED
      BY <1>1, <3>1 DEF open_disposition, opens
  <2> QED
    BY <2>1, <2>4, <2>5, WithinAdd
<1>2. ASSUME NEW w \in DOMAIN state.sessions, CloseSession(w)
      PROVE  state'.sources = state.sources
  BY <1>2, SetLiveResult, Zenon DEF CloseSession, SetLiveEffect
<1>3. ASSUME NEW e \in Evidence, Ingest(e)
      PROVE  state'.sources = state.sources
  BY <1>3, EvidenceAssumption, IngestResult, Zenon DEF Ingest, IngestEffect
<1>4. ASSUME NEW o \in Openings, OpenSession(o)
      PROVE  Within(DOMAIN state'.sources, MaxSources)
  <2>1. CASE ~opens(open_disposition(state, o.source, o.authority, o.incarnation))
    BY <1>4, <2>1 DEF OpenSession
  <2> QED
    BY <1>1, <1>4, <2>1
<1> QED
  BY <1>2, <1>3, <1>4 DEF Next, Close, vars

\* The inductive invariant behind BoundedRecords: every set it bounds is also finite.
AllWithin ==
    /\ RingsWithin(state) /\ PortsWithin(state) /\ CatalogueWithin(state)
    /\ Within(DOMAIN state.sources, MaxSources)

\* A registry that has just been opened holds nothing.
LEMMA AllWithinInit == ASSUME Init PROVE AllWithin
<1>1. DOMAIN state.claims = {} /\ DOMAIN state.sources = {}
  BY InitResult DEF Init, EmptyState, EmptyFunction
<1>2. \A n \in Nat : Within({}, n)
  BY FS_EmptySet DEF Within
<1>3. \A map, id : KeysOf(state, map, id) = {}
  BY <1>1 DEF KeysOf
<1>4. RingsWithin(state)
  BY <1>1 DEF RingsWithin
<1>5. PortsWithin(state)
  BY <1>2, <1>3, LimitsAssumption DEF PortsWithin
<1>6. CatalogueWithin(state)
  <2>1. /\ {o \in Objects : object_exists(state, o)} = {}
        /\ {x \in Endpoints : endpoint_exists(state, x)} = {}
    BY <1>3 DEF object_exists, endpoint_exists
  <2> QED
    BY <1>2, <2>1, LimitsAssumption DEF CatalogueWithin
<1>7. Within(DOMAIN state.sources, MaxSources)
  BY <1>1, <1>2, LimitsAssumption
<1> QED
  BY <1>4, <1>5, <1>6, <1>7 DEF AllWithin

\* A step keeps every table within its limit.
LEMMA AllWithinStep ==
    ASSUME TypeOK, AllWithin, [Next]_vars
    PROVE  AllWithin'
<1>1. Within(DOMAIN state'.sources, MaxSources)
  BY SourcesStep DEF AllWithin
<1>2. ClaimsStep(state, state')
  BY StepResult
<1>3. CASE state'.claims = state.claims
  <2>1. \A map, id : KeysOf(state', map, id) = KeysOf(state, map, id)
    BY <1>3 DEF KeysOf
  <2>2. RingsWithin(state') /\ PortsWithin(state')
    BY <1>3, <2>1 DEF AllWithin, RingsWithin, PortsWithin
  <2>3. CatalogueWithin(state')
    BY <2>1 DEF AllWithin, CatalogueWithin, object_exists, endpoint_exists
  <2> QED
    BY <1>1, <2>2, <2>3 DEF AllWithin
<1>4. ASSUME NEW e \in Evidence, KnownSession(state, e),
             state'.claims = FoldedClaims(state, e, TRUE, decide(state, e))
      PROVE  AllWithin'
  <2> e \in EvidenceType /\ StateType(state)
    BY EvidenceAssumption DEF TypeOK
  <2>1. DOMAIN state'.claims = DOMAIN state.claims \cup decide(state, e).writes
    <3>1. FoldEffect(state, e, decide(state, e), state'.claims)
      BY <1>4, FoldedClaimsResult, Zenon
    <3> QED
      BY <3>1, Zenon DEF FoldEffect
  <2>2. RingsWithin(state')
    BY <1>4, RingsStep, ZenonT(60) DEF AllWithin
  <2>3. PortsWithin(state') /\ CatalogueWithin(state')
    BY <2>1, PortsStep, CatalogueStep DEF AllWithin
  <2> QED
    BY <1>1, <2>2, <2>3 DEF AllWithin
<1> QED
  BY <1>2, <1>3, <1>4, Zenon DEF ClaimsStep

\* Every table stays within its limit, and a port within one record of it.
THEOREM LimitsHold == Spec => []BoundedRecords
<1>1. Init => AllWithin
  BY AllWithinInit
<1>2. TypeOK /\ AllWithin /\ [Next]_vars => AllWithin'
  BY AllWithinStep
<1>3. AllWithin => BoundedRecords
  BY DEF AllWithin, RingsWithin, PortsWithin, CatalogueWithin, Within, BoundedRecords
<1> QED
  BY <1>1, <1>2, <1>3, TypeCorrect, PTL DEF Spec
===============================================================================
