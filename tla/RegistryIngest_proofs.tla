-------------------------- MODULE RegistryIngest_proofs --------------------------
(***************************************************************************)
(* Lemmas about the write path: what the operators of RegistryIngest       *)
(* return, for every registry state and every evidence record.             *)
(*                                                                         *)
(* The second half is about what a registry remembers.  Two states that    *)
(* hold the same records decide alike and stay alike, so memory and the    *)
(* state that replaying the log would rebuild can be compared step by      *)
(* step.  A record that was accepted stays stored, so that delivering it   *)
(* again is no news.                                                       *)
(***************************************************************************)
EXTENDS RegistryIngest, WellFoundedInduction, TLAPS

\* The obligations are large: the provers get more than the default time.
USE SMTT(60), ZenonT(60)

\* A nonempty set of naturals has a least element.
LEMMA LeastNatural ==
    ASSUME NEW S \in SUBSET Nat, S # {}
    PROVE  \E n \in S : \A m \in S : n <= m
<1> DEFINE R == OpToRel(<, Nat)
<1>1. IsWellFoundedOn(R, Nat)
  BY NatLessThanWellFounded
<1>2. \A x, y \in Nat : <<x, y>> \in R <=> x < y
  BY DEF OpToRel
<1> HIDE DEF R
<1>3. PICK n \in S : \A y \in S : ~(<<y, n>> \in R)
  BY <1>1, WFMin, Zenon
<1>4. \A y \in S : ~(y < n)
  BY <1>2, <1>3, Zenon
<1>5. \A y \in S : n <= y
  BY <1>4
<1> QED
  BY <1>5

-----------------------------------------------------------------------------
(***************************************************************************)
(* What a record says.                                                     *)
(***************************************************************************)
\* The header of a record, whatever its kind.
LEMMA HeaderType ==
    ASSUME NEW e \in EvidenceType
    PROVE  /\ e.id \in Nat /\ e.source \in SourceId /\ e.generation \in Nat
           /\ OwnerOf(e) \in Owner
BY DEF EvidenceType, EvidenceOf, OwnerOf, Owner, SourceId

\* A record speaks for well-typed claim keys of its own source incarnation only.
LEMMA ClaimKeysType ==
    ASSUME NEW e \in EvidenceType, NEW k \in ClaimKeys(e)
    PROVE  k \in ClaimKey /\ k.owner = OwnerOf(e)
<1> OwnerOf(e) \in Owner
  BY HeaderType
<1> USE DEF ClaimKey, ObjectKey, EndpointKey, SubjectKey, PortKey, LifecycleKey,
            ReincarnationKey, ObjectCapKey, PortCapKey
<1>1. CASE e \in EvidenceOf("RegisterObject",
                    [object: Objects, label: Labels \cup {NoLabel}, sides: Nat])
  BY <1>1 DEF EvidenceOf, ClaimKeys
<1>2. CASE e \in EvidenceOf("RegisterEndpoint",
                    [endpoint: Endpoints, port_count: Nat, capacity: Nat])
  BY <1>2 DEF EvidenceOf, ClaimKeys
<1>3. CASE e \in EvidenceOf("Attach",
                    [subject: ObjectSide, port: Port, object_incarnation: Nat, slot: Nat])
  BY <1>3 DEF EvidenceOf, ClaimKeys
<1>4. CASE e \in EvidenceOf("Detach", [subject: ObjectSide, object_incarnation: Nat,
                                       from_port: Port \cup {NilPort}, slot: Nat])
  BY <1>4 DEF EvidenceOf, ClaimKeys
<1>5. CASE e \in EvidenceOf("Move", [subject: ObjectSide, object_incarnation: Nat,
                                     from: Port, to: Port, from_slot: Nat, to_slot: Nat])
  BY <1>5 DEF EvidenceOf, ClaimKeys, MoveKeys
<1>6. CASE e \in EvidenceOf("SetLifecycle", [object: Objects, object_incarnation: Nat,
                                             action: LifecycleAction])
  BY <1>6 DEF EvidenceOf, ClaimKeys
<1>7. CASE e \in EvidenceOf("ReincarnateObject", [object: Objects, from_incarnation: Nat])
  BY <1>7 DEF EvidenceOf, ClaimKeys
<1>8. CASE e \in EvidenceOf("PublishObjectCapability", [object: Objects, capability: Nat])
  BY <1>8 DEF EvidenceOf, ClaimKeys
<1>9. CASE e \in EvidenceOf("PublishPortCapability", [port: Port, capacity: Nat])
  BY <1>9 DEF EvidenceOf, ClaimKeys
<1> QED
  BY <1>1, <1>2, <1>3, <1>4, <1>5, <1>6, <1>7, <1>8, <1>9 DEF EvidenceType

\* What a record asserts for a key of its own is a value of that key's map.
LEMMA AssertedValueType ==
    ASSUME NEW e \in EvidenceType, NEW k \in ClaimKeys(e)
    PROVE  AssertedValue(e, k) \in ClaimValue(k.map)
<1> USE DEF ObjectKey, EndpointKey, SubjectKey, PortKey, LifecycleKey,
            ReincarnationKey, ObjectCapKey, PortCapKey
<1>1. CASE e \in EvidenceOf("RegisterObject",
                    [object: Objects, label: Labels \cup {NoLabel}, sides: Nat])
  <2>1. k.map = "object"
    BY <1>1 DEF EvidenceOf, ClaimKeys
  <2> QED
    BY <1>1, <2>1, Zenon DEF EvidenceOf, AssertedValue, ClaimValue
<1>2. CASE e \in EvidenceOf("RegisterEndpoint",
                    [endpoint: Endpoints, port_count: Nat, capacity: Nat])
  <2>1. k.map = "endpoint"
    BY <1>2 DEF EvidenceOf, ClaimKeys
  <2> QED
    BY <1>2, <2>1, Zenon DEF EvidenceOf, AssertedValue, ClaimValue
<1>3. CASE e \in EvidenceOf("Attach",
                    [subject: ObjectSide, port: Port, object_incarnation: Nat, slot: Nat])
  <2>1. k.map = "subject" \/ k.map = "port"
    BY <1>3 DEF EvidenceOf, ClaimKeys
  <2>2. CASE k.map = "subject"
    BY <1>3, <2>2 DEF EvidenceOf, AssertedValue, SubjectValue, ClaimValue
  <2>3. CASE k.map = "port"
    BY <1>3, <2>3 DEF EvidenceOf, AssertedValue, PortValue, ClaimValue
  <2> QED
    BY <2>1, <2>2, <2>3
<1>4. CASE e \in EvidenceOf("Detach", [subject: ObjectSide, object_incarnation: Nat,
                                       from_port: Port \cup {NilPort}, slot: Nat])
  <2>1. k.map = "subject" \/ k.map = "port"
    BY <1>4 DEF EvidenceOf, ClaimKeys
  <2>2. CASE k.map = "subject"
    BY <1>4, <2>2 DEF EvidenceOf, AssertedValue, SubjectValue, ClaimValue
  <2>3. CASE k.map = "port"
    BY <1>4, <2>3 DEF EvidenceOf, AssertedValue, PortValue, ClaimValue
  <2> QED
    BY <2>1, <2>2, <2>3
<1>5. CASE e \in EvidenceOf("Move", [subject: ObjectSide, object_incarnation: Nat,
                                     from: Port, to: Port, from_slot: Nat, to_slot: Nat])
  <2>1. k.map = "subject" \/ k.map = "port"
    BY <1>5 DEF EvidenceOf, ClaimKeys, MoveKeys
  <2>2. CASE k.map = "subject"
    BY <1>5, <2>2 DEF EvidenceOf, AssertedValue, SubjectValue, ClaimValue
  <2>3. CASE k.map = "port"
    BY <1>5, <2>3 DEF EvidenceOf, AssertedValue, PortValue, ClaimValue
  <2> QED
    BY <2>1, <2>2, <2>3
<1>6. CASE e \in EvidenceOf("SetLifecycle", [object: Objects, object_incarnation: Nat,
                                             action: LifecycleAction])
  <2>1. k.map = "lifecycle"
    BY <1>6 DEF EvidenceOf, ClaimKeys
  <2> QED
    BY <1>6, <2>1 DEF EvidenceOf, AssertedValue, ClaimValue
<1>7. CASE e \in EvidenceOf("ReincarnateObject", [object: Objects, from_incarnation: Nat])
  <2>1. k.map = "reincarnation"
    BY <1>7 DEF EvidenceOf, ClaimKeys
  <2> QED
    BY <1>7, <2>1 DEF EvidenceOf, AssertedValue, ClaimValue
<1>8. CASE e \in EvidenceOf("PublishObjectCapability", [object: Objects, capability: Nat])
  <2>1. k.map = "object_cap"
    BY <1>8 DEF EvidenceOf, ClaimKeys
  <2> QED
    BY <1>8, <2>1 DEF EvidenceOf, AssertedValue, ClaimValue
<1>9. CASE e \in EvidenceOf("PublishPortCapability", [port: Port, capacity: Nat])
  <2>1. k.map = "port_cap"
    BY <1>9 DEF EvidenceOf, ClaimKeys
  <2> QED
    BY <1>9, <2>1 DEF EvidenceOf, AssertedValue, ClaimValue
<1> QED
  BY <1>1, <1>2, <1>3, <1>4, <1>5, <1>6, <1>7, <1>8, <1>9 DEF EvidenceType

-----------------------------------------------------------------------------
(***************************************************************************)
(* Folding.                                                                *)
(***************************************************************************)
\* Trimming only removes records from a ring.
LEMMA TrimRingSubset == ASSUME NEW ring PROVE TrimRing(ring) \subseteq ring
BY DEF TrimRing

\* fold takes the incoming record as the winner; the ring keeps what it held and the old one.
TakesWinner(map, folded, meta, value) ==
    /\ fold(folded, meta, value) \in Folded(map)
    /\ fold(folded, meta, value).generation = meta.generation
    /\ fold(folded, meta, value).value = value
    /\ fold(folded, meta, value).superseded
          \subseteq folded.superseded \cup {AttestationOf(folded)}

\* fold keeps the incoming record as the winner; the ring holds only records that were
\* there, and the one it replaced.
LEMMA FoldResult ==
    ASSUME NEW map, NEW folded \in Folded(map),
           NEW meta \in [generation: Nat, evidence: Nat, authority: Nat,
                         asserted_in_lifetime: BOOLEAN],
           NEW value \in ClaimValue(map)
    PROVE  TakesWinner(map, folded, meta, value)
<1> USE DEF TakesWinner
<1> DEFINE ring == IF RingHolds(folded, folded.evidence) THEN folded.superseded
                   ELSE folded.superseded \cup {AttestationOf(folded)}
<1>1. ring \subseteq folded.superseded \cup {AttestationOf(folded)}
  OBVIOUS
<1>2. TrimRing(ring) \subseteq folded.superseded \cup {AttestationOf(folded)}
  BY <1>1, TrimRingSubset
<1>3. AttestationOf(folded) \in Attestation /\ folded.superseded \subseteq Attestation
  BY DEF AttestationOf, Attestation, Folded
<1>4. TrimRing(ring) \in SUBSET Attestation
  BY <1>2, <1>3
<1>5. fold(folded, meta, value) = FoldedRecord(meta, value, TrimRing(ring))
  BY DEF fold
<1> HIDE DEF ring
<1> QED
  BY <1>2, <1>4, <1>5 DEF FoldedRecord, Folded

\* fold_losing keeps the winner and adds at most the late record to the ring.
KeepsWinner(map, folded, meta) ==
    /\ fold_losing(folded, meta) \in Folded(map)
    /\ fold_losing(folded, meta).generation = folded.generation
    /\ fold_losing(folded, meta).value = folded.value
    /\ fold_losing(folded, meta).evidence = folded.evidence
    /\ fold_losing(folded, meta).authority = folded.authority
    /\ fold_losing(folded, meta).superseded
          \subseteq folded.superseded \cup {AttestationOf(meta)}

\* fold_losing keeps the winner; at most the late record joins the ring.
LEMMA FoldLosingResult ==
    ASSUME NEW map, NEW folded \in Folded(map),
           NEW meta \in [generation: Nat, evidence: Nat, authority: Nat,
                         asserted_in_lifetime: BOOLEAN]
    PROVE  KeepsWinner(map, folded, meta)
<1> USE DEF KeepsWinner
<1> DEFINE ring == folded.superseded \cup {AttestationOf(meta)}
<1>1. TrimRing(ring) \subseteq ring
  BY TrimRingSubset
<1>2. AttestationOf(meta) \in Attestation /\ folded.superseded \subseteq Attestation
  BY DEF AttestationOf, Attestation, Folded
<1>3. TrimRing(ring) \in SUBSET Attestation
  BY <1>1, <1>2
<1>4. fold_losing(folded, meta) = folded
      \/ fold_losing(folded, meta) = [folded EXCEPT !.superseded = TrimRing(ring)]
  BY DEF fold_losing
<1> HIDE DEF ring
<1>5. [folded EXCEPT !.superseded = TrimRing(ring)] \in Folded(map)
  BY <1>3 DEF Folded
<1> QED
  BY <1>1, <1>4, <1>5 DEF Folded, ring

-----------------------------------------------------------------------------
(***************************************************************************)
(* Deciding.                                                               *)
(***************************************************************************)
\* What each outcome says about the generations.
OutcomeFits(st, e, k) ==
    /\ existing_outcome(st, e, k) = "Insert" => e.generation > st.claims[k].generation
    /\ existing_outcome(st, e, k) = "Superseded" => e.generation < st.claims[k].generation
    /\ existing_outcome(st, e, k) = "Duplicate" =>
          /\ e.generation = st.claims[k].generation
          /\ SameContent(k, st.claims[k].value, AssertedValue(e, k))
    /\ existing_outcome(st, e, k) \in {"Insert", "Superseded", "Duplicate", "Collision"}

\* The generation of a record against the one its key holds fixes the outcome.
LEMMA OutcomeByGeneration ==
    ASSUME NEW st, StateType(st), NEW e \in EvidenceType, NEW k \in DOMAIN st.claims
    PROVE  OutcomeFits(st, e, k)
<1> USE DEF OutcomeFits
<1>1. e.generation \in Nat
  BY HeaderType
<1>2. st.claims[k].generation \in Nat
  BY DEF StateType, Folded
<1> DEFINE same == SameContent(k, st.claims[k].value, AssertedValue(e, k))
<1>3. existing_outcome(st, e, k)
        = compare_generation(st.claims[k].generation, e.generation, same)
  BY DEF existing_outcome
<1> HIDE DEF same
<1>4. CASE e.generation > st.claims[k].generation
  BY <1>1, <1>2, <1>3, <1>4 DEF compare_generation
<1>5. CASE e.generation < st.claims[k].generation
  BY <1>1, <1>2, <1>3, <1>5 DEF compare_generation
<1>6. CASE e.generation = st.claims[k].generation
  BY <1>1, <1>2, <1>3, <1>6 DEF compare_generation, same
<1> QED
  BY <1>1, <1>2, <1>4, <1>5, <1>6

\* The keys that decide stages.
StagesNews(st, e) ==
    LET change == decide(st, e)
    IN  /\ change.writes \in {{}, KeysWith(st, e, "Insert")}
        /\ change.writes # {} =>
              /\ KeysWith(st, e, "Collision") = {}
              /\ change.rings = KeysWith(st, e, "Superseded")
        /\ \/ change.rings \subseteq KeysWith(st, e, "Superseded")
           \/ /\ e.kind = "ReincarnateObject" /\ change.writes = {}
              /\ change.rings = KeysWith(st, e, "Insert")

\* What decide stages: it writes all keys the record is news for or none, never past a
\* collision; a ring grows where the record lost, or where a replacement came too late.
LEMMA StagedKeys ==
    ASSUME NEW st, NEW e \in EvidenceType
    PROVE  StagesNews(st, e)
<1> USE DEF StagesNews
<1> DEFINE change == decide(st, e)
           inserts == KeysWith(st, e, "Insert")
           superseded == KeysWith(st, e, "Superseded")
<1>1. \/ \E d : change = Staged(d, {}, {})
      \/ change = Staged("AcceptedSuperseded", {}, superseded)
      \/ e.kind = "ReincarnateObject" /\ change = Staged("AcceptedSuperseded", {}, inserts)
      \/ /\ KeysWith(st, e, "Collision") = {}
         /\ \E d : change = Staged(d, inserts, superseded)
  BY DEF decide, AlreadyReincarnated
<1>2. ASSUME NEW d, NEW w, NEW r
      PROVE  Staged(d, w, r).writes = w /\ Staged(d, w, r).rings = r
  BY DEF Staged
<1> HIDE DEF change, inserts, superseded
<1>3. /\ change.writes \in {{}, inserts}
      /\ change.writes # {} => KeysWith(st, e, "Collision") = {} /\ change.rings = superseded
      /\ \/ change.rings \subseteq superseded
         \/ e.kind = "ReincarnateObject" /\ change.writes = {} /\ change.rings = inserts
  BY <1>1, <1>2
<1> QED
  BY <1>3 DEF change, inserts, superseded

\* A replacement speaks for one reincarnation key.
LEMMA ReincarnateKeys ==
    ASSUME NEW e \in EvidenceType, e.kind = "ReincarnateObject", NEW k \in ClaimKeys(e)
    PROVE  k.map = "reincarnation"
BY DEF ClaimKeys, ReincarnationKey

\* A record overwrites only an older winner, and joins the ring of a newer one; a
\* replacement that comes too late joins the ring of its key whatever its generation.
LEMMA StagedGenerations ==
    ASSUME NEW st, StateType(st), NEW e \in EvidenceType
    PROVE  LET change == decide(st, e)
           IN  /\ \A k \in change.writes \cap DOMAIN st.claims :
                     e.generation > st.claims[k].generation
               /\ \A k \in change.rings \cap DOMAIN st.claims :
                     e.generation < st.claims[k].generation \/ k.map = "reincarnation"
<1> DEFINE change == decide(st, e)
<1>1. /\ change.writes \in {{}, KeysWith(st, e, "Insert")}
      /\ \/ change.rings \subseteq KeysWith(st, e, "Superseded")
         \/ e.kind = "ReincarnateObject" /\ change.rings = KeysWith(st, e, "Insert")
  BY StagedKeys DEF StagesNews
<1> HIDE DEF change
<1>2. \A k \in KeysWith(st, e, "Insert") \cap DOMAIN st.claims :
          e.generation > st.claims[k].generation
  BY OutcomeByGeneration DEF KeysWith, OutcomeFits
<1>3. \A k \in KeysWith(st, e, "Superseded") \cap DOMAIN st.claims :
          e.generation < st.claims[k].generation
  BY OutcomeByGeneration DEF KeysWith, OutcomeFits
<1>4. e.kind = "ReincarnateObject" => \A k \in KeysWith(st, e, "Insert") : k.map = "reincarnation"
  BY ReincarnateKeys DEF KeysWith
<1> QED
  BY <1>1, <1>2, <1>3, <1>4 DEF change

-----------------------------------------------------------------------------
(***************************************************************************)
(* Applying.                                                               *)
(***************************************************************************)
\* What the claims look like after a staged change: a written key holds the record, a
\* ring key keeps its winner, every other key is as it was.
FoldEffect(st, e, change, claims) ==
    /\ DOMAIN claims = DOMAIN st.claims \cup change.writes
    /\ \A k \in DOMAIN claims : claims[k] \in Folded(k.map) /\ k \in ClaimKey
    /\ \A k \in change.writes :
          /\ claims[k].generation = e.generation
          /\ claims[k].value = AssertedValue(e, k)
          /\ k \in DOMAIN st.claims =>
                claims[k].superseded \subseteq
                    st.claims[k].superseded \cup {AttestationOf(st.claims[k])}
          /\ k \notin DOMAIN st.claims => claims[k].superseded = {}
    /\ \A k \in DOMAIN st.claims \ change.writes :
          /\ claims[k].generation = st.claims[k].generation
          /\ claims[k].value = st.claims[k].value
          /\ k \notin change.rings => claims[k].superseded = st.claims[k].superseded
          /\ k \in change.rings =>
                claims[k].superseded \subseteq st.claims[k].superseded
                    \cup {[generation |-> e.generation, evidence |-> e.id]}

\* FoldedClaims has that effect.
LEMMA FoldedClaimsResult ==
    ASSUME NEW st, StateType(st), NEW e \in EvidenceType, KnownSession(st, e),
           NEW live \in BOOLEAN
    PROVE  FoldEffect(st, e, decide(st, e), FoldedClaims(st, e, live, decide(st, e)))
<1> DEFINE change == decide(st, e)
           claims == FoldedClaims(st, e, live, change)
           meta == MetaOf(st, e, live)
<1>1. meta \in [generation: Nat, evidence: Nat, authority: Nat, asserted_in_lifetime: BOOLEAN]
  <2>1. st.sources[e.source].authority \in Nat
    BY DEF StateType, SourceRecord, KnownSession
  <2> QED
    BY <2>1, HeaderType DEF MetaOf
<1>2. meta.generation = e.generation /\ meta.evidence = e.id
  BY DEF MetaOf
<1>3. change.writes \subseteq ClaimKeys(e)
  BY StagedKeys DEF KeysWith, StagesNews
<1> HIDE DEF change, meta
<1>4. claims = [k \in DOMAIN st.claims \cup change.writes |->
            IF k \in change.writes
            THEN IF k \in DOMAIN st.claims
                 THEN fold(st.claims[k], meta, AssertedValue(e, k))
                 ELSE FoldedRecord(meta, AssertedValue(e, k), {})
            ELSE IF k \in change.rings THEN fold_losing(st.claims[k], meta)
            ELSE st.claims[k]]
  BY DEF FoldedClaims, meta
<1> HIDE DEF claims
<1>5. DOMAIN claims = DOMAIN st.claims \cup change.writes
  BY <1>4
<1>6. ASSUME NEW k \in change.writes
      PROVE  /\ claims[k] \in Folded(k.map) /\ k \in ClaimKey
             /\ claims[k].generation = e.generation
             /\ claims[k].value = AssertedValue(e, k)
             /\ k \in DOMAIN st.claims =>
                   claims[k].superseded \subseteq
                       st.claims[k].superseded \cup {AttestationOf(st.claims[k])}
             /\ k \notin DOMAIN st.claims => claims[k].superseded = {}
  <2>1. k \in ClaimKeys(e)
    BY <1>3
  <2>2. AssertedValue(e, k) \in ClaimValue(k.map) /\ k \in ClaimKey
    BY <2>1, AssertedValueType, ClaimKeysType
  <2>3. CASE k \in DOMAIN st.claims
    <3>1. claims[k] = fold(st.claims[k], meta, AssertedValue(e, k))
      BY <1>4, <2>3
    <3>2. st.claims[k] \in Folded(k.map)
      BY <2>3 DEF StateType
    <3> QED
      BY <1>1, <1>2, <2>2, <2>3, <3>1, <3>2, FoldResult DEF TakesWinner
  <2>4. CASE k \notin DOMAIN st.claims
    <3>1. claims[k] = FoldedRecord(meta, AssertedValue(e, k), {})
      BY <1>4, <2>4
    <3> QED
      BY <1>1, <1>2, <2>2, <2>4, <3>1 DEF FoldedRecord, Folded
  <2> QED
    BY <2>3, <2>4
<1>7. ASSUME NEW k \in DOMAIN st.claims \ change.writes
      PROVE  /\ claims[k] \in Folded(k.map) /\ k \in ClaimKey
             /\ claims[k].generation = st.claims[k].generation
             /\ claims[k].value = st.claims[k].value
             /\ k \notin change.rings => claims[k].superseded = st.claims[k].superseded
             /\ k \in change.rings =>
                   claims[k].superseded \subseteq st.claims[k].superseded
                       \cup {[generation |-> e.generation, evidence |-> e.id]}
  <2>1. st.claims[k] \in Folded(k.map) /\ k \in ClaimKey
    BY DEF StateType
  <2>2. CASE k \in change.rings
    <3>1. claims[k] = fold_losing(st.claims[k], meta)
      BY <1>4, <2>2
    <3>2. AttestationOf(meta) = [generation |-> e.generation, evidence |-> e.id]
      BY <1>2 DEF AttestationOf
    <3> QED
      BY <1>1, <2>1, <2>2, <3>1, <3>2, FoldLosingResult DEF KeepsWinner
  <2>3. CASE k \notin change.rings
    BY <1>4, <2>1, <2>3
  <2> QED
    BY <2>2, <2>3
<1>8. \A k \in DOMAIN claims : claims[k] \in Folded(k.map) /\ k \in ClaimKey
  BY <1>5, <1>6, <1>7
<1>9. FoldEffect(st, e, change, claims)
  BY <1>5, <1>6, <1>7, <1>8 DEF FoldEffect
<1> QED
  BY <1>9 DEF claims, change

\* The keys that folding a record changes.
FoldsOwnKeys(st, e, live) ==
    LET change == decide(st, e)
        claims == FoldedClaims(st, e, live, change)
    IN  /\ DOMAIN claims = DOMAIN st.claims \cup change.writes
        /\ change.writes \subseteq ClaimKeys(e) /\ change.rings \subseteq ClaimKeys(e)
        /\ \A k \in change.writes \cup change.rings : k.owner = OwnerOf(e)

\* A step that folds a record changes only keys the record speaks for.
LEMMA FoldedKeys ==
    ASSUME NEW st, StateType(st), NEW e \in EvidenceType, KnownSession(st, e),
           NEW live
    PROVE  FoldsOwnKeys(st, e, live)
<1> USE DEF FoldsOwnKeys
<1> DEFINE change == decide(st, e)
<1>1. DOMAIN FoldedClaims(st, e, live, change) = DOMAIN st.claims \cup change.writes
  BY DEF FoldedClaims
<1>2. change.writes \subseteq ClaimKeys(e) /\ change.rings \subseteq ClaimKeys(e)
  BY StagedKeys DEF KeysWith, StagesNews
<1> HIDE DEF change
<1>3. \A k \in change.writes \cup change.rings : k.owner = OwnerOf(e)
  BY <1>2, ClaimKeysType
<1> QED
  BY <1>1, <1>2, <1>3 DEF change

\* The labels of the registrations are labels of objects.
LEMMA RegisteredLabelsType ==
    ASSUME NEW st, StateType(st)
    PROVE  RegisteredLabels(st) \subseteq Labels \X Objects
<1>1. ASSUME NEW k \in DOMAIN st.claims, k.map = "object", st.claims[k].value.label # NoLabel
      PROVE  st.claims[k].value.label \in Labels /\ k.id \in Objects
  <2>1. k \in ClaimKey /\ st.claims[k] \in Folded("object")
    BY <1>1 DEF StateType
  <2>2. st.claims[k].value \in [label: Labels \cup {NoLabel}, sides: Nat]
    BY <2>1 DEF Folded, ClaimValue
  <2>3. k.id \in Objects
    BY <1>1, <2>1 DEF ClaimKey
  <2> QED
    BY <1>1, <2>2, <2>3
<1> QED
  BY <1>1 DEF RegisteredLabels

\* What consult_label_index does.
ConsultEffect(st, e) ==
    LET looked_up == consult_label_index(st, e)
    IN  /\ StateType(looked_up)
        /\ looked_up.sources = st.sources /\ looked_up.sessions = st.sessions
        /\ looked_up.claims = st.claims
        /\ ConsultsLabelIndex(st, e) =>
              /\ looked_up.label_index_valid = TRUE
              /\ looked_up.label_index = label_index_after_lookup(st)
        /\ ~ConsultsLabelIndex(st, e) => looked_up = st

\* Consulting the label index may build it and changes nothing else.
LEMMA ConsultResult ==
    ASSUME NEW st, StateType(st), NEW e
    PROVE  ConsultEffect(st, e)
<1> USE DEF ConsultEffect
<1>1. CASE ConsultsLabelIndex(st, e)
  <2> DEFINE index == label_index_after_lookup(st)
  <2>1. index \subseteq Labels \X Objects
    BY RegisteredLabelsType DEF label_index_after_lookup, StateType
  <2>2. consult_label_index(st, e) =
            [st EXCEPT !.label_index = index, !.label_index_valid = TRUE]
    BY <1>1 DEF consult_label_index
  <2> HIDE DEF index
  <2>3. consult_label_index(st, e) =
            [sources |-> st.sources, sessions |-> st.sessions, claims |-> st.claims,
             label_index |-> index, label_index_valid |-> TRUE]
    BY <2>2, Zenon DEF StateType
  <2>4. StateType(consult_label_index(st, e))
    BY <2>1, <2>3 DEF StateType
  <2> QED
    BY <1>1, <2>3, <2>4 DEF index
<1>2. CASE ~ConsultsLabelIndex(st, e)
  BY <1>2 DEF consult_label_index, StateType
<1> QED
  BY <1>1, <1>2, Zenon

\* What raise_high_water does.
RaiseEffect(st, e) ==
    LET raised == raise_high_water(st, e)
    IN  /\ StateType(raised)
        /\ raised.sources = st.sources /\ raised.claims = st.claims
        /\ raised.label_index = st.label_index
        /\ raised.label_index_valid = st.label_index_valid
        /\ DOMAIN raised.sessions = DOMAIN st.sessions
        /\ \A w \in DOMAIN st.sessions :
              raised.sessions[w].high_water >= st.sessions[w].high_water
        /\ OwnerOf(e) \in DOMAIN st.sessions =>
              raised.sessions[OwnerOf(e)].high_water >= e.generation

\* The high-water mark of the record's session covers the record; no mark falls and
\* nothing else changes.
LEMMA RaiseResult ==
    ASSUME NEW st, StateType(st), NEW e \in EvidenceType
    PROVE  RaiseEffect(st, e)
<1> USE DEF RaiseEffect
<1> DEFINE session(w) == IF w = OwnerOf(e) /\ e.generation > st.sessions[w].high_water
                         THEN [st.sessions[w] EXCEPT !.high_water = e.generation]
                         ELSE st.sessions[w]
           sessions == [w \in DOMAIN st.sessions |-> session(w)]
<1>1. raise_high_water(st, e) =
          [sources |-> st.sources, sessions |-> sessions, claims |-> st.claims,
           label_index |-> st.label_index, label_index_valid |-> st.label_index_valid]
  BY DEF raise_high_water, StateType
<1>2. ASSUME NEW w \in DOMAIN st.sessions
      PROVE  /\ session(w) \in SessionRecord
             /\ session(w).high_water >= st.sessions[w].high_water
             /\ w = OwnerOf(e) => session(w).high_water >= e.generation
  <2>1. st.sessions[w] \in SessionRecord
    BY DEF StateType
  <2>2. e.generation \in Nat
    BY HeaderType
  <2> QED
    BY <2>1, <2>2 DEF SessionRecord
<1> HIDE DEF session
<1>3. sessions \in [DOMAIN st.sessions -> SessionRecord]
  BY <1>2
<1>4. \A w \in DOMAIN st.sessions : sessions[w] = session(w)
  OBVIOUS
<1> HIDE DEF sessions
<1>5. DOMAIN sessions = DOMAIN st.sessions
  BY <1>3
<1>6. StateType(raise_high_water(st, e))
  BY <1>1, <1>3, <1>5 DEF StateType
<1> QED
  BY <1>1, <1>2, <1>4, <1>5, <1>6

\* What apply_change does.
ApplyEffect(st, e, live) ==
    LET looked_up == consult_label_index(st, e)
        applied == apply_change(looked_up, e, live, decide(st, e))
    IN  /\ StateType(applied)
        /\ applied.sources = st.sources /\ applied.sessions = st.sessions
        /\ applied.claims = FoldedClaims(st, e, live, decide(st, e))
        /\ applied.label_index_valid = looked_up.label_index_valid
        /\ looked_up.label_index \subseteq applied.label_index
        /\ (/\ e.kind = "RegisterObject" /\ e.payload.label # NoLabel
            /\ decide(st, e).writes # {} /\ looked_up.label_index_valid) =>
              <<e.payload.label, e.payload.object>> \in applied.label_index

\* apply_change folds the claims and keeps the label index well typed.
LEMMA ApplyResult ==
    ASSUME NEW st, StateType(st), NEW e \in EvidenceType, KnownSession(st, e),
           NEW live \in BOOLEAN
    PROVE  ApplyEffect(st, e, live)
<1> USE DEF ApplyEffect
<1> DEFINE change == decide(st, e)
           looked_up == consult_label_index(st, e)
           claims == FoldedClaims(st, e, live, change)
           added == /\ e.kind = "RegisterObject" /\ e.payload.label # NoLabel
                    /\ change.writes # {} /\ looked_up.label_index_valid
           index == IF added
                    THEN looked_up.label_index \cup {<<e.payload.label, e.payload.object>>}
                    ELSE looked_up.label_index
<1>1. /\ StateType(looked_up) /\ looked_up.sources = st.sources
      /\ looked_up.sessions = st.sessions /\ looked_up.claims = st.claims
  BY ConsultResult, Zenon DEF ConsultEffect
<1>2. FoldedClaims(looked_up, e, live, change) = claims
  BY <1>1 DEF FoldedClaims, MetaOf
<1>3. /\ DOMAIN claims \subseteq ClaimKey
      /\ claims = [k \in DOMAIN claims |-> claims[k]]
      /\ \A k \in DOMAIN claims : claims[k] \in Folded(k.map)
  <2>1. claims = [k \in DOMAIN claims |-> claims[k]]
    BY DEF FoldedClaims
  <2>2. \A k \in DOMAIN claims : claims[k] \in Folded(k.map) /\ k \in ClaimKey
    BY FoldedClaimsResult, Zenon DEF FoldEffect
  <2> HIDE DEF claims
  <2> QED
    BY <2>1, <2>2
<1>4. e.kind = "RegisterObject" /\ e.payload.label # NoLabel =>
          <<e.payload.label, e.payload.object>> \in Labels \X Objects
  <2>1. e.kind = "RegisterObject" =>
            e.payload \in [object: Objects, label: Labels \cup {NoLabel}, sides: Nat]
    BY DEF EvidenceOf, EvidenceType
  <2> QED
    BY <2>1
<1>5. index \subseteq Labels \X Objects
  BY <1>1, <1>4 DEF StateType
<1>6. apply_change(looked_up, e, live, change) =
          [looked_up EXCEPT !.claims = claims, !.label_index = index]
  BY <1>2 DEF apply_change
<1> HIDE DEF change, claims, index, looked_up
<1>7. apply_change(looked_up, e, live, change) =
          [sources |-> st.sources, sessions |-> st.sessions, claims |-> claims,
           label_index |-> index, label_index_valid |-> looked_up.label_index_valid]
  BY <1>1, <1>6, Zenon DEF StateType
<1>8. StateType(apply_change(looked_up, e, live, change))
  BY <1>1, <1>3, <1>5, <1>7 DEF StateType
<1> QED
  BY <1>7, <1>8 DEF change, claims, index, looked_up

\* What ingest_locked does.
IngestEffect(st, e, live, durable) ==
    LET new == ingest_locked(st, e, live, durable).state
    IN  /\ StateType(new)
        /\ new.sources = st.sources
        /\ DOMAIN new.sessions = DOMAIN st.sessions
        /\ \A w \in DOMAIN st.sessions :
              new.sessions[w].high_water >= st.sessions[w].high_water
        /\ \/ new.claims = st.claims
           \/ /\ KnownSession(st, e)
              /\ new.claims = FoldedClaims(st, e, live, decide(st, e))
              /\ new.sessions[OwnerOf(e)].high_water >= e.generation

\* One record: the sources stay, the sessions stay with their marks no lower, and the
\* claims are as they were or folded with the record, which its session then covers.
LEMMA IngestResult ==
    ASSUME NEW st, StateType(st), NEW e \in EvidenceType,
           NEW live \in BOOLEAN, NEW durable \in BOOLEAN
    PROVE  IngestEffect(st, e, live, durable)
<1> USE DEF IngestEffect
<1> DEFINE change == decide(st, e)
           looked_up == consult_label_index(st, e)
           applied == apply_change(looked_up, e, live, change)
           new == ingest_locked(st, e, live, durable).state
<1>1. \/ new = st
      \/ new = raise_high_water(looked_up, e)
      \/ KnownSession(st, e) /\ new = raise_high_water(applied, e)
  BY DEF ingest_locked
<1>2. /\ StateType(looked_up) /\ looked_up.sources = st.sources
      /\ looked_up.sessions = st.sessions /\ looked_up.claims = st.claims
  BY ConsultResult, Zenon DEF ConsultEffect
<1> HIDE DEF change, looked_up, new
<1>3. CASE new = st
  <2>1. \A w \in DOMAIN st.sessions : st.sessions[w].high_water \in Nat
    BY DEF StateType, SessionRecord
  <2> QED
    BY <1>3, <2>1 DEF new
<1>4. CASE new = raise_high_water(looked_up, e)
  BY <1>2, <1>4, RaiseResult DEF new, RaiseEffect
<1>5. CASE KnownSession(st, e) /\ new = raise_high_water(applied, e)
  <2>1. /\ StateType(applied) /\ applied.sources = st.sources
        /\ applied.sessions = st.sessions
        /\ applied.claims = FoldedClaims(st, e, live, change)
    BY <1>5, ApplyResult, Zenon DEF change, looked_up, ApplyEffect
  <2>2. OwnerOf(e) \in DOMAIN st.sessions
    BY <1>5 DEF KnownSession
  <2> HIDE DEF applied
  <2> QED
    BY <1>5, <2>1, <2>2, RaiseResult DEF new, change, RaiseEffect
<1> QED
  BY <1>1, <1>3, <1>4, <1>5, Zenon

-----------------------------------------------------------------------------
(***************************************************************************)
(* The label index.                                                        *)
(***************************************************************************)
\* Only a registration speaks for a registration key, with the label it carries.
LEMMA RegistrationKey ==
    ASSUME NEW e \in EvidenceType, NEW k \in ClaimKeys(e), k.map = "object"
    PROVE  /\ e.kind = "RegisterObject" /\ k.id = e.payload.object
           /\ AssertedValue(e, k).label = e.payload.label
<1> USE DEF ObjectKey, EndpointKey, SubjectKey, PortKey, LifecycleKey,
            ReincarnationKey, ObjectCapKey, PortCapKey
<1>1. e.kind \in {"RegisterObject", "RegisterEndpoint", "Attach", "Detach", "Move",
                  "SetLifecycle", "ReincarnateObject", "PublishObjectCapability",
                  "PublishPortCapability"}
  BY DEF EvidenceOf, EvidenceType
<1>2. e.kind = "RegisterObject"
  BY <1>1 DEF ClaimKeys, MoveKeys
<1>3. k = ObjectKey(e.payload.object, OwnerOf(e))
  BY <1>2 DEF ClaimKeys
<1> QED
  BY <1>2, <1>3 DEF AssertedValue

\* What LabelIndexComplete says of a state.
Indexed(st) == st.label_index_valid => RegisteredLabels(st) \subseteq st.label_index

\* The labels depend on the claims only.
LEMMA SameClaimsSameLabels ==
    ASSUME NEW st, NEW new, new.claims = st.claims
    PROVE  RegisteredLabels(new) = RegisteredLabels(st)
BY DEF RegisteredLabels

\* A lookup leaves an index that is in use complete.
LEMMA ConsultIndexed ==
    ASSUME NEW st, StateType(st), Indexed(st), NEW e
    PROVE  LET looked_up == consult_label_index(st, e)
           IN  looked_up.label_index_valid => RegisteredLabels(st) \subseteq looked_up.label_index
<1>1. CASE ConsultsLabelIndex(st, e)
  <2>1. consult_label_index(st, e).label_index = label_index_after_lookup(st)
    BY <1>1, ConsultResult, Zenon DEF ConsultEffect
  <2> QED
    BY <2>1 DEF label_index_after_lookup, Indexed
<1>2. CASE ~ConsultsLabelIndex(st, e)
  BY <1>2 DEF consult_label_index, Indexed
<1> QED
  BY <1>1, <1>2

\* A registration that is written under a label goes into an index that is in use.
LEMMA ApplyIndexed ==
    ASSUME NEW st, StateType(st), Indexed(st), NEW e \in EvidenceType, KnownSession(st, e),
           NEW live \in BOOLEAN
    PROVE  Indexed(apply_change(consult_label_index(st, e), e, live, decide(st, e)))
<1> DEFINE change == decide(st, e)
           looked_up == consult_label_index(st, e)
           applied == apply_change(looked_up, e, live, change)
<1>1. /\ applied.claims = FoldedClaims(st, e, live, change)
      /\ applied.label_index_valid = looked_up.label_index_valid
      /\ looked_up.label_index \subseteq applied.label_index
      /\ (/\ e.kind = "RegisterObject" /\ e.payload.label # NoLabel
          /\ change.writes # {} /\ looked_up.label_index_valid) =>
            <<e.payload.label, e.payload.object>> \in applied.label_index
  BY ApplyResult DEF ApplyEffect
<1>2. looked_up.label_index_valid => RegisteredLabels(st) \subseteq looked_up.label_index
  BY ConsultIndexed
<1>3. FoldEffect(st, e, change, applied.claims)
  BY <1>1, FoldedClaimsResult
<1>4. change.writes \subseteq ClaimKeys(e)
  BY StagedKeys DEF KeysWith, StagesNews
<1> HIDE DEF change, looked_up, applied
<1>5. ASSUME looked_up.label_index_valid, NEW k \in DOMAIN applied.claims, k.map = "object",
             applied.claims[k].value.label # NoLabel
      PROVE  <<applied.claims[k].value.label, k.id>> \in applied.label_index
  <2>1. CASE k \in change.writes
    <3>1. applied.claims[k].value = AssertedValue(e, k)
      BY <1>3, <2>1, Zenon DEF FoldEffect
    <3>2. /\ e.kind = "RegisterObject" /\ k.id = e.payload.object
          /\ applied.claims[k].value.label = e.payload.label
      BY <1>4, <1>5, <2>1, <3>1, RegistrationKey
    <3> QED
      BY <1>1, <1>5, <2>1, <3>2
  <2>2. CASE k \notin change.writes
    <3>1. k \in DOMAIN st.claims /\ applied.claims[k].value = st.claims[k].value
      BY <1>3, <2>2 DEF FoldEffect
    <3>2. <<st.claims[k].value.label, k.id>> \in RegisteredLabels(st)
      BY <1>5, <3>1 DEF RegisteredLabels
    <3> QED
      BY <1>1, <1>2, <1>5, <3>1, <3>2
  <2> QED
    BY <2>1, <2>2
<1>6. Indexed(applied)
  BY <1>1, <1>5 DEF Indexed, RegisteredLabels
<1> QED
  BY <1>6 DEF applied, looked_up, change

\* Ingest keeps the index complete, whichever way it returns.
LEMMA IngestIndexed ==
    ASSUME NEW st, StateType(st), Indexed(st), NEW e \in EvidenceType,
           NEW live \in BOOLEAN, NEW durable \in BOOLEAN
    PROVE  Indexed(ingest_locked(st, e, live, durable).state)
<1> DEFINE looked_up == consult_label_index(st, e)
           applied == apply_change(looked_up, e, live, decide(st, e))
           new == ingest_locked(st, e, live, durable).state
<1>1. \/ new = st
      \/ new = raise_high_water(looked_up, e)
      \/ KnownSession(st, e) /\ new = raise_high_water(applied, e)
  BY Zenon DEF ingest_locked
<1>2. StateType(looked_up) /\ looked_up.claims = st.claims
  BY ConsultResult, Zenon DEF ConsultEffect
<1>3. looked_up.label_index_valid => RegisteredLabels(st) \subseteq looked_up.label_index
  BY ConsultIndexed
<1>4. KnownSession(st, e) => StateType(applied) /\ Indexed(applied)
  BY ApplyResult, ApplyIndexed, Zenon DEF ApplyEffect
<1> HIDE DEF looked_up, applied, new
<1>5. Indexed(looked_up)
  BY <1>2, <1>3, SameClaimsSameLabels DEF Indexed
<1>6. ASSUME NEW x, StateType(x), Indexed(x)
      PROVE  Indexed(raise_high_water(x, e))
  <2> DEFINE raised == raise_high_water(x, e)
  <2>1. /\ raised.claims = x.claims /\ raised.label_index = x.label_index
        /\ raised.label_index_valid = x.label_index_valid
    BY <1>6, RaiseResult DEF RaiseEffect
  <2> HIDE DEF raised
  <2>2. Indexed(raised)
    BY <1>6, <2>1, SameClaimsSameLabels DEF Indexed
  <2> QED
    BY <2>2 DEF raised
<1>7. Indexed(new)
  BY <1>1, <1>2, <1>4, <1>5, <1>6
<1> QED
  BY <1>7 DEF new

-----------------------------------------------------------------------------
(***************************************************************************)
(* Sessions.                                                               *)
(***************************************************************************)
\* What apply_session_open does.
OpenEffect(st, s, authority, incarnation) ==
    LET opened == apply_session_open(st, s, authority, incarnation)
    IN  /\ StateType(opened)
        /\ opened.claims = st.claims /\ opened.label_index = st.label_index
        /\ opened.label_index_valid = st.label_index_valid
        /\ \A x \in DOMAIN st.sources :
              /\ x \in DOMAIN opened.sources
              /\ opened.sources[x].current_incarnation >= st.sources[x].current_incarnation
        /\ \A w \in DOMAIN st.sessions :
              w \in DOMAIN opened.sessions /\ opened.sessions[w] = st.sessions[w]

\* Opening a session forgets nothing: sources keep their incarnation or gain a higher
\* one, sessions keep their marks, claims and labels are left alone.
LEMMA SessionOpenResult ==
    ASSUME NEW st, StateType(st),
           NEW s \in SourceId, NEW authority \in Nat, NEW incarnation \in Nat
    PROVE  OpenEffect(st, s, authority, incarnation)
<1> USE DEF OpenEffect
<1> DEFINE known == s \in DOMAIN st.sources
           described == known /\ incarnation <= st.sources[s].descriptor_incarnation
           current == IF known /\ incarnation <= st.sources[s].current_incarnation
                      THEN st.sources[s].current_incarnation ELSE incarnation
           source == [authority |-> IF described THEN st.sources[s].authority ELSE authority,
                      descriptor_incarnation |->
                          IF described THEN st.sources[s].descriptor_incarnation
                          ELSE incarnation,
                      current_incarnation |-> current]
           w0 == <<s, incarnation>>
           fresh == [live |-> FALSE, closed |-> FALSE, high_water |-> 0]
           sources == [x \in DOMAIN st.sources \cup {s} |->
                          IF x = s THEN source ELSE st.sources[x]]
           sessions == [x \in DOMAIN st.sessions \cup {w0} |->
                          IF x \in DOMAIN st.sessions THEN st.sessions[x] ELSE fresh]
           opened == apply_session_open(st, s, authority, incarnation)
<1>1. opened = [st EXCEPT !.sources = sources, !.sessions = sessions]
  BY DEF apply_session_open
<1>2. known => /\ st.sources[s].authority \in Nat
               /\ st.sources[s].descriptor_incarnation \in Nat
               /\ st.sources[s].current_incarnation \in Nat
  BY DEF StateType, SourceRecord
<1>3. source \in SourceRecord /\ (known => current >= st.sources[s].current_incarnation)
  BY <1>2 DEF SourceRecord
<1>4. source.current_incarnation = current
  OBVIOUS
<1> HIDE DEF known, source, current
<1>5. \A x \in DOMAIN st.sources : st.sources[x].current_incarnation \in Nat
  BY DEF StateType, SourceRecord
<1>6. /\ sources \in [DOMAIN st.sources \cup {s} -> SourceRecord]
      /\ \A x \in DOMAIN st.sources :
            sources[x].current_incarnation >= st.sources[x].current_incarnation
  BY <1>3, <1>4, <1>5 DEF StateType, known
<1>7. fresh \in SessionRecord /\ w0 \in Owner
  BY DEF SessionRecord, Owner
<1> HIDE DEF fresh
<1>8. /\ sessions \in [DOMAIN st.sessions \cup {w0} -> SessionRecord]
      /\ \A x \in DOMAIN st.sessions : sessions[x] = st.sessions[x]
  BY <1>7 DEF StateType
<1> HIDE DEF sources, sessions, w0, opened
<1>9. opened = [sources |-> sources, sessions |-> sessions, claims |-> st.claims,
                label_index |-> st.label_index, label_index_valid |-> st.label_index_valid]
  BY <1>1, Zenon DEF StateType
<1>10. DOMAIN sources = DOMAIN st.sources \cup {s} /\ DOMAIN sessions = DOMAIN st.sessions \cup {w0}
  BY <1>6, <1>8
<1>11. StateType(opened)
  BY <1>6, <1>7, <1>8, <1>9, <1>10 DEF StateType
<1> QED
  BY <1>6, <1>8, <1>9, <1>10, <1>11 DEF opened

\* What set_session_live does.
SetLiveEffect(st, w, live) ==
    LET new == set_session_live(st, w, live)
    IN  /\ StateType(new)
        /\ new.claims = st.claims /\ new.sources = st.sources
        /\ new.label_index = st.label_index
        /\ new.label_index_valid = st.label_index_valid
        /\ DOMAIN new.sessions = DOMAIN st.sessions
        /\ \A x \in DOMAIN st.sessions :
              new.sessions[x].high_water = st.sessions[x].high_water

\* Setting the flags of a session changes nothing else.
LEMMA SetLiveResult ==
    ASSUME NEW st, StateType(st), NEW w, NEW live \in BOOLEAN
    PROVE  SetLiveEffect(st, w, live)
<1> USE DEF SetLiveEffect
<1> DEFINE session(x) == IF x = w THEN [st.sessions[x] EXCEPT !.live = live, !.closed = ~live]
                         ELSE st.sessions[x]
           sessions == [x \in DOMAIN st.sessions |-> session(x)]
           new == set_session_live(st, w, live)
<1>1. new = [st EXCEPT !.sessions = sessions]
  BY DEF set_session_live
<1>2. ASSUME NEW x \in DOMAIN st.sessions
      PROVE  session(x) \in SessionRecord /\ session(x).high_water = st.sessions[x].high_water
  BY Zenon DEF StateType, SessionRecord
<1> HIDE DEF session
<1>3. /\ sessions \in [DOMAIN st.sessions -> SessionRecord]
      /\ \A x \in DOMAIN st.sessions : sessions[x].high_water = st.sessions[x].high_water
  BY <1>2
<1> HIDE DEF sessions, new
<1>4. new = [sources |-> st.sources, sessions |-> sessions, claims |-> st.claims,
             label_index |-> st.label_index, label_index_valid |-> st.label_index_valid]
  BY <1>1 DEF StateType
<1>5. DOMAIN sessions = DOMAIN st.sessions
  BY <1>3
<1>6. StateType(new)
  BY <1>3, <1>4, <1>5 DEF StateType
<1> QED
  BY <1>3, <1>4, <1>5, <1>6 DEF new

-----------------------------------------------------------------------------
(***************************************************************************)
(* Similar states.                                                         *)
(***************************************************************************)
\* The same folded record but for its freshness.
SameRecord(f, g) ==
    /\ f.generation = g.generation /\ f.evidence = g.evidence /\ f.authority = g.authority
    /\ f.value = g.value /\ f.superseded = g.superseded

\* The same sources, sessions and claims, up to what a restart forgets and to the marks
\* and flags no decision reads.
Similar(s, t) ==
    /\ s.sources = t.sources
    /\ DOMAIN s.sessions = DOMAIN t.sessions
    /\ DOMAIN s.claims = DOMAIN t.claims
    /\ \A k \in DOMAIN s.claims : SameRecord(s.claims[k], t.claims[k])

\* Similarity is an equivalence.
LEMMA SimilarEquivalence ==
    /\ \A s : Similar(s, s)
    /\ \A s, t : Similar(s, t) => Similar(t, s)
    /\ \A s, t, u : Similar(s, t) /\ Similar(t, u) => Similar(s, u)
BY DEF Similar, SameRecord

\* The questions that ingest asks of a state have the same answers.
SameAnswers(s, t) ==
    /\ \A m, i : KeysOf(s, m, i) = KeysOf(t, m, i)
    /\ \A m, i : UnfencedKeys(s, m, i) = UnfencedKeys(t, m, i)
    /\ \A w : session_is_fenced(s, w) <=> session_is_fenced(t, w)
    /\ \A o : object_incarnation_of(s, o) = object_incarnation_of(t, o)
    /\ \A o : object_exists(s, o) <=> object_exists(t, o)
    /\ \A x : endpoint_exists(s, x) <=> endpoint_exists(t, x)
    /\ \A p : port_exists(s, p) <=> port_exists(t, p)
    /\ RegisteredLabels(s) = RegisteredLabels(t)

\* Similar states have the same keys, fences, incarnations and registrations.
LEMMA SimilarQuestions ==
    ASSUME NEW s, NEW t, Similar(s, t)
    PROVE  SameAnswers(s, t)
<1> USE DEF SameAnswers
<1>1. \A m, i : KeysOf(s, m, i) = KeysOf(t, m, i) /\ KeysOf(s, m, i) \subseteq DOMAIN s.claims
  BY DEF KeysOf, Similar
<1>2. \A w : session_is_fenced(s, w) <=> session_is_fenced(t, w)
  BY DEF session_is_fenced, Similar
<1>3. \A m, i : /\ UnfencedKeys(s, m, i) = UnfencedKeys(t, m, i)
                /\ UnfencedKeys(s, m, i) \subseteq DOMAIN s.claims
  BY <1>1, <1>2 DEF UnfencedKeys
<1>4. \A k \in DOMAIN s.claims : s.claims[k].value = t.claims[k].value
  BY DEF Similar, SameRecord
<1>5. ASSUME NEW o
      PROVE  object_incarnation_of(s, o) = object_incarnation_of(t, o)
  <2>1. {s.claims[k].value.target : k \in UnfencedKeys(s, "reincarnation", o)}
            = {t.claims[k].value.target : k \in UnfencedKeys(t, "reincarnation", o)}
    BY <1>3, <1>4
  <2> QED
    BY <2>1, Zenon DEF object_incarnation_of
<1>6. /\ \A o : object_exists(s, o) <=> object_exists(t, o)
      /\ \A x : endpoint_exists(s, x) <=> endpoint_exists(t, x)
  BY <1>1 DEF object_exists, endpoint_exists
<1>7. ASSUME NEW p
      PROVE  port_exists(s, p) <=> port_exists(t, p)
  <2>1. {s.claims[k].value.port_count : k \in KeysOf(s, "endpoint", p[1])}
            = {t.claims[k].value.port_count : k \in KeysOf(t, "endpoint", p[1])}
    BY <1>1, <1>4
  <2> QED
    BY <2>1, Zenon DEF port_exists, endpoint_port_count
<1>8. RegisteredLabels(s) = RegisteredLabels(t)
  <2>1. {k \in DOMAIN s.claims : k.map = "object" /\ s.claims[k].value.label # NoLabel}
            = {k \in DOMAIN t.claims : k.map = "object" /\ t.claims[k].value.label # NoLabel}
    BY <1>4 DEF Similar
  <2> QED
    BY <1>4, <2>1 DEF RegisteredLabels
<1> QED
  BY <1>1, <1>2, <1>3, <1>5, <1>6, <1>7, <1>8

\* ... and the same lifecycles.
LEMMA SimilarLifecycle ==
    ASSUME NEW s, NEW t, Similar(s, t), NEW o
    PROVE  lifecycle_action_of(s, o) = lifecycle_action_of(t, o)
<1> DEFINE K == LifecycleCandidates(s, o)
           T == TopAuthority(s, K)
<1>1. /\ \A k \in DOMAIN s.claims : /\ s.claims[k].value = t.claims[k].value
                                    /\ s.claims[k].authority = t.claims[k].authority
      /\ \A m, i : UnfencedKeys(s, m, i) \subseteq DOMAIN s.claims
  BY DEF Similar, SameRecord, UnfencedKeys, KeysOf
<1>2. /\ \A m, i : UnfencedKeys(s, m, i) = UnfencedKeys(t, m, i)
      /\ object_incarnation_of(s, o) = object_incarnation_of(t, o)
  BY SimilarQuestions DEF SameAnswers
<1>3. K = LifecycleCandidates(t, o) /\ K \subseteq DOMAIN s.claims
  BY <1>1, <1>2 DEF LifecycleCandidates
<1> HIDE DEF K
<1>4. T = TopAuthority(t, K) /\ T \subseteq K
  BY <1>1, <1>3 DEF TopAuthority
<1> HIDE DEF T
<1>5. {CandidateAction(s, k) : k \in T} = {CandidateAction(t, k) : k \in T}
  BY <1>1, <1>3, <1>4 DEF CandidateAction
<1> QED
  BY <1>3, <1>4, <1>5, Zenon DEF lifecycle_action_of, K, T

\* ... so they decide alike.  The label index may be in use in one and not in the other.
LEMMA SimilarDecide ==
    ASSUME NEW s, NEW t, Similar(s, t), Indexed(s), Indexed(t), NEW e
    PROVE  decide(s, e) = decide(t, e) /\ (KnownSession(s, e) <=> KnownSession(t, e))
<1>1. /\ \A m, i : KeysOf(s, m, i) = KeysOf(t, m, i)
      /\ \A w : session_is_fenced(s, w) <=> session_is_fenced(t, w)
      /\ \A o : object_incarnation_of(s, o) = object_incarnation_of(t, o)
      /\ \A o : object_exists(s, o) <=> object_exists(t, o)
      /\ \A x : endpoint_exists(s, x) <=> endpoint_exists(t, x)
      /\ \A p : port_exists(s, p) <=> port_exists(t, p)
      /\ RegisteredLabels(s) = RegisteredLabels(t)
  BY SimilarQuestions DEF SameAnswers
<1>2. \A k : existing_outcome(s, e, k) = existing_outcome(t, e, k)
  BY DEF existing_outcome, Similar, SameRecord
<1>3. \A outcome : KeysWith(s, e, outcome) = KeysWith(t, e, outcome)
  BY <1>2 DEF KeysWith
<1>4. \A k : port_capacity_reached(s, k) <=> port_capacity_reached(t, k)
  BY <1>1 DEF port_capacity_reached, Similar
<1>5. AlreadyReincarnated(s, e) <=> AlreadyReincarnated(t, e)
  BY <1>1 DEF AlreadyReincarnated
<1>6. LabelHeldElsewhere(s, e) <=> LabelHeldElsewhere(t, e)
  <2>1. /\ RegisteredLabels(s) \subseteq label_index_after_lookup(s)
        /\ RegisteredLabels(t) \subseteq label_index_after_lookup(t)
    BY DEF Indexed, label_index_after_lookup
  <2>2. \A o : lifecycle_action_of(s, o) = lifecycle_action_of(t, o)
    BY SimilarLifecycle
  <2> QED
    BY <1>1, <2>1, <2>2, Zenon DEF LabelHeldElsewhere
<1>7. CatalogueFull(s, e) <=> CatalogueFull(t, e)
  <2>1. /\ {o \in Objects : object_exists(s, o)} = {o \in Objects : object_exists(t, o)}
        /\ {x \in Endpoints : endpoint_exists(s, x)} = {x \in Endpoints : endpoint_exists(t, x)}
    BY <1>1
  <2> QED
    BY <1>1, <2>1, Zenon DEF CatalogueFull
<1>8. effective_disposition(s, e) = effective_disposition(t, e)
  <2>1. \A k : MissingReference(s, k) <=> MissingReference(t, k)
    BY <1>1, Zenon DEF MissingReference
  <2> QED
    BY <1>1, <2>1 DEF effective_disposition
<1>9. KnownSession(s, e) <=> KnownSession(t, e)
  BY DEF KnownSession, Similar
<1>10. decide(s, e) = decide(t, e)
  BY <1>3, <1>4, <1>5, <1>6, <1>7, <1>8 DEF decide
<1> QED
  BY <1>9, <1>10

\* Folding the same record into similar claims gives similar claims, fresh or not.
LEMMA SimilarFold ==
    ASSUME NEW s, NEW t, StateType(s), StateType(t), Similar(s, t), NEW e, NEW l, NEW m,
           NEW change
    PROVE  LET f == FoldedClaims(s, e, l, change)
               g == FoldedClaims(t, e, m, change)
           IN  DOMAIN f = DOMAIN g /\ \A k \in DOMAIN f : SameRecord(f[k], g[k])
<1> DEFINE f == FoldedClaims(s, e, l, change)
           g == FoldedClaims(t, e, m, change)
           a == MetaOf(s, e, l)
           b == MetaOf(t, e, m)
<1>1. a.generation = b.generation /\ a.evidence = b.evidence /\ a.authority = b.authority
  BY DEF MetaOf, Similar
<1>2. ASSUME NEW x, NEW y, SameRecord(x, y), NEW v
      PROVE  SameRecord(fold(x, a, v), fold(y, b, v))
  BY <1>1, <1>2, Zenon DEF SameRecord, fold, FoldedRecord, RingHolds, AttestationOf
<1>3. ASSUME NEW v
      PROVE  SameRecord(FoldedRecord(a, v, {}), FoldedRecord(b, v, {}))
  BY <1>1 DEF SameRecord, FoldedRecord
<1>4. ASSUME NEW i, NEW j, NEW x \in Folded(i), NEW y \in Folded(j), SameRecord(x, y)
      PROVE  SameRecord(fold_losing(x, a), fold_losing(y, b))
  <2>1. AttestationOf(a) = AttestationOf(b)
    BY <1>1 DEF AttestationOf
  <2> DEFINE known == x.evidence = a.evidence \/ RingHolds(x, a.evidence)
  <2>2. known <=> (y.evidence = b.evidence \/ RingHolds(y, b.evidence))
    BY <1>1, <1>4, Zenon DEF SameRecord, RingHolds
  <2>3. CASE known
    BY <1>4, <2>2, <2>3 DEF fold_losing
  <2>4. CASE ~known
    <3> DEFINE ring == TrimRing(x.superseded \cup {AttestationOf(a)})
    <3>1. /\ fold_losing(x, a) = [x EXCEPT !.superseded = ring]
          /\ fold_losing(y, b) = [y EXCEPT !.superseded = ring]
      BY <1>4, <2>1, <2>2, <2>4 DEF fold_losing, SameRecord
    <3> HIDE DEF ring
    <3> QED
      BY <1>4, <3>1 DEF SameRecord, Folded
  <2> QED
    BY <2>3, <2>4, Zenon

<1> HIDE DEF a, b
<1>5. /\ f = [k \in DOMAIN s.claims \cup change.writes |->
                IF k \in change.writes
                THEN IF k \in DOMAIN s.claims THEN fold(s.claims[k], a, AssertedValue(e, k))
                     ELSE FoldedRecord(a, AssertedValue(e, k), {})
                ELSE IF k \in change.rings THEN fold_losing(s.claims[k], a)
                ELSE s.claims[k]]
      /\ g = [k \in DOMAIN t.claims \cup change.writes |->
                IF k \in change.writes
                THEN IF k \in DOMAIN t.claims THEN fold(t.claims[k], b, AssertedValue(e, k))
                     ELSE FoldedRecord(b, AssertedValue(e, k), {})
                ELSE IF k \in change.rings THEN fold_losing(t.claims[k], b)
                ELSE t.claims[k]]
  BY Zenon DEF FoldedClaims, a, b
<1> HIDE DEF f, g
<1>6. DOMAIN f = DOMAIN s.claims \cup change.writes /\ DOMAIN g = DOMAIN f
  BY <1>5 DEF Similar
<1>7. ASSUME NEW k \in DOMAIN f
      PROVE  SameRecord(f[k], g[k])
  <2>1. k \in DOMAIN s.claims <=> k \in DOMAIN t.claims
    BY DEF Similar
  <2>2. k \in DOMAIN s.claims =>
            /\ SameRecord(s.claims[k], t.claims[k])
            /\ s.claims[k] \in Folded(k.map) /\ t.claims[k] \in Folded(k.map)
    BY <2>1 DEF Similar, StateType
  <2>3. CASE k \in change.writes /\ k \in DOMAIN s.claims
    <3>1. f[k] = fold(s.claims[k], a, AssertedValue(e, k)) /\ g[k] = fold(t.claims[k], b, AssertedValue(e, k))
      BY <1>5, <1>6, <2>1, <2>3, Zenon
    <3> QED
      BY <1>2, <2>2, <2>3, <3>1
  <2>4. CASE k \in change.writes /\ k \notin DOMAIN s.claims
    <3>1. f[k] = FoldedRecord(a, AssertedValue(e, k), {}) /\ g[k] = FoldedRecord(b, AssertedValue(e, k), {})
      BY <1>5, <1>6, <2>1, <2>4
    <3> QED
      BY <1>3, <3>1
  <2>5. CASE k \notin change.writes /\ k \in change.rings
    <3>1. k \in DOMAIN s.claims
      BY <1>6, <2>5
    <3>2. f[k] = fold_losing(s.claims[k], a) /\ g[k] = fold_losing(t.claims[k], b)
      BY <1>5, <1>6, <2>1, <2>5, Zenon
    <3> QED
      BY <1>4, <2>2, <3>1, <3>2
  <2>6. CASE k \notin change.writes /\ k \notin change.rings
    <3>1. k \in DOMAIN s.claims
      BY <1>6, <2>6
    <3>2. f[k] = s.claims[k] /\ g[k] = t.claims[k]
      BY <1>5, <1>6, <2>1, <2>6
    <3> QED
      BY <2>2, <3>1, <3>2
  <2> QED
    BY <2>3, <2>4, <2>5, <2>6
<1> QED
  BY <1>6, <1>7, Zenon DEF f, g

\* A record that is appended is folded into the claims.
LEMMA AppendedClaims ==
    ASSUME NEW st, StateType(st), NEW e \in EvidenceType, NeedsAppend(st, e),
           NEW live \in BOOLEAN, NEW durable \in BOOLEAN, durable
    PROVE  ingest_locked(st, e, live, durable).state.claims
               = FoldedClaims(st, e, live, decide(st, e))
<1> DEFINE change == decide(st, e)
           applied == apply_change(consult_label_index(st, e), e, live, change)
<1>1. ingest_locked(st, e, live, durable).state = raise_high_water(applied, e)
  BY DEF NeedsAppend, ingest_locked
<1>2. StateType(applied) /\ applied.claims = FoldedClaims(st, e, live, change)
  BY ApplyResult, Zenon DEF NeedsAppend, ApplyEffect
<1> HIDE DEF applied, change
<1> QED
  BY <1>1, <1>2, RaiseResult, Zenon DEF change, RaiseEffect

\* One that is not leaves them alone.
LEMMA UnappendedClaims ==
    ASSUME NEW st, StateType(st), NEW e \in EvidenceType,
           NEW live \in BOOLEAN, NEW durable \in BOOLEAN, ~NeedsAppend(st, e) \/ ~durable
    PROVE  ingest_locked(st, e, live, durable).state.claims = st.claims
<1> DEFINE looked_up == consult_label_index(st, e)
           new == ingest_locked(st, e, live, durable).state
<1>1. StateType(looked_up) /\ looked_up.claims = st.claims
  BY ConsultResult, Zenon DEF ConsultEffect
<1>2. new = st \/ new = raise_high_water(looked_up, e)
  BY DEF NeedsAppend, ingest_locked
<1> HIDE DEF new, looked_up
<1>3. new.claims = st.claims
  BY <1>1, <1>2, RaiseResult DEF RaiseEffect
<1> QED
  BY <1>3 DEF new

\* Ingesting touches no source and opens no session.
LEMMA IngestSameSessions ==
    ASSUME NEW st, StateType(st), NEW e \in EvidenceType, NEW live \in BOOLEAN, NEW durable \in BOOLEAN
    PROVE  LET new == ingest_locked(st, e, live, durable).state
           IN  new.sources = st.sources /\ DOMAIN new.sessions = DOMAIN st.sessions
  BY IngestResult DEF IngestEffect

\* Live ingestion and replay of one record keep states similar.
LEMMA SimilarIngest ==
    ASSUME NEW s, NEW t, StateType(s), StateType(t), Similar(s, t), Indexed(s), Indexed(t),
           NEW e \in EvidenceType, NEW l \in BOOLEAN, NEW m \in BOOLEAN
    PROVE  Similar(ingest_locked(s, e, l, TRUE).state, ingest_locked(t, e, m, TRUE).state)
<1> DEFINE u == ingest_locked(s, e, l, TRUE).state
           v == ingest_locked(t, e, m, TRUE).state
<1>1. /\ u.sources = s.sources /\ DOMAIN u.sessions = DOMAIN s.sessions
      /\ v.sources = t.sources /\ DOMAIN v.sessions = DOMAIN t.sessions
  <2>1. u.sources = s.sources /\ DOMAIN u.sessions = DOMAIN s.sessions
    BY IngestSameSessions, ZenonT(30)
  <2>2. v.sources = t.sources /\ DOMAIN v.sessions = DOMAIN t.sessions
    BY IngestSameSessions, ZenonT(30)
  <2> QED
    BY <2>1, <2>2, Zenon
<1>2. decide(s, e) = decide(t, e) /\ (NeedsAppend(s, e) <=> NeedsAppend(t, e))
  BY SimilarDecide DEF NeedsAppend
<1>3. CASE NeedsAppend(s, e)
  <2> DEFINE change == decide(s, e)
             f == FoldedClaims(s, e, l, change)
             g == FoldedClaims(t, e, m, change)
  <2>1. u.claims = f
    BY <1>3, AppendedClaims, Zenon
  <2>2. v.claims = g
    <3>1. NeedsAppend(t, e)
      BY <1>2, <1>3
    <3>2. v.claims = FoldedClaims(t, e, m, decide(t, e))
      BY <3>1, AppendedClaims, Zenon
    <3> QED
      BY <1>2, <3>2, Zenon
  <2> HIDE DEF u, v, change
  <2>3. DOMAIN f = DOMAIN g /\ \A k \in DOMAIN f : SameRecord(f[k], g[k])
    BY SimilarFold
  <2> HIDE DEF f, g
  <2>4. Similar(u, v)
    BY <1>1, <2>1, <2>2, <2>3 DEF Similar
  <2> QED
    BY <2>4, Zenon DEF u, v
<1>4. CASE ~NeedsAppend(s, e)
  <2>1. u.claims = s.claims
    BY <1>4, UnappendedClaims, Zenon
  <2>2. v.claims = t.claims
    BY <1>2, <1>4, UnappendedClaims, Zenon
  <2> HIDE DEF u, v
  <2>3. Similar(u, v)
    BY <1>1, <2>1, <2>2 DEF Similar
  <2> QED
    BY <2>3, Zenon DEF u, v
<1> QED
  BY <1>3, <1>4, Zenon

\* A record that is not appended leaves a similar state.
LEMMA SimilarUnappended ==
    ASSUME NEW st, StateType(st), NEW e \in EvidenceType, NEW live \in BOOLEAN,
           NEW durable \in BOOLEAN, ~NeedsAppend(st, e) \/ ~durable
    PROVE  Similar(st, ingest_locked(st, e, live, durable).state)
<1> DEFINE new == ingest_locked(st, e, live, durable).state
<1>1. new.sources = st.sources /\ DOMAIN new.sessions = DOMAIN st.sessions
  BY IngestResult DEF IngestEffect
<1>2. new.claims = st.claims
  BY UnappendedClaims
<1> HIDE DEF new
<1>3. Similar(st, new)
  BY <1>1, <1>2 DEF Similar, SameRecord
<1> QED
  BY <1>3 DEF new

\* Opening a session keeps states similar.
LEMMA SimilarOpen ==
    ASSUME NEW s, NEW t, StateType(s), StateType(t), Similar(s, t),
           NEW x, NEW authority, NEW incarnation
    PROVE  Similar(apply_session_open(s, x, authority, incarnation),
                   apply_session_open(t, x, authority, incarnation))
<1> DEFINE u == apply_session_open(s, x, authority, incarnation)
           v == apply_session_open(t, x, authority, incarnation)
<1>1. u.claims = s.claims /\ v.claims = t.claims
  BY DEF apply_session_open, StateType
<1>2. u.sources = v.sources
  BY DEF apply_session_open, StateType, Similar
<1>3. DOMAIN u.sessions = DOMAIN v.sessions
  BY DEF apply_session_open, StateType, Similar
<1> HIDE DEF u, v
<1>4. Similar(u, v)
  BY <1>1, <1>2, <1>3 DEF Similar
<1> QED
  BY <1>4 DEF u, v

\* The flags of a session do not matter.
LEMMA SimilarFlags ==
    ASSUME NEW st, StateType(st), NEW w, NEW live \in BOOLEAN
    PROVE  Similar(st, set_session_live(st, w, live))
<1> DEFINE new == set_session_live(st, w, live)
<1>1. /\ new.claims = st.claims /\ new.sources = st.sources
      /\ DOMAIN new.sessions = DOMAIN st.sessions
  BY SetLiveResult DEF SetLiveEffect
<1> HIDE DEF new
<1>2. Similar(st, new)
  BY <1>1 DEF Similar, SameRecord
<1> QED
  BY <1>2 DEF new

-----------------------------------------------------------------------------
(***************************************************************************)
(* What becomes of an accepted record.                                     *)
(***************************************************************************)
\* The key holds what the record said of it, or something newer from the same source.
CoveredAt(st, e, k) ==
    /\ k \in DOMAIN st.claims
    /\ \/ st.claims[k].generation > e.generation
       \/ /\ st.claims[k].generation = e.generation
          /\ SameContent(k, st.claims[k].value, AssertedValue(e, k))

\* Every key holds it; a replacement may instead have found its object replaced already.
Stored(st, e) ==
    \/ \A k \in ClaimKeys(e) : CoveredAt(st, e, k)
    \/ e.kind = "ReincarnateObject" /\ object_exists(st, e.payload.object)

\* No key is lost and every winner stays or is overtaken.
Grows(st, new) ==
    /\ DOMAIN st.claims \subseteq DOMAIN new.claims
    /\ \A k \in DOMAIN st.claims :
          \/ new.claims[k].generation > st.claims[k].generation
          \/ /\ new.claims[k].generation = st.claims[k].generation
             /\ new.claims[k].value = st.claims[k].value

\* What is stored stays stored.
LEMMA StoredGrows ==
    ASSUME NEW st, StateType(st), NEW new, StateType(new), Grows(st, new),
           NEW e \in EvidenceType, Stored(st, e)
    PROVE  Stored(new, e)
<1>1. ASSUME NEW k, CoveredAt(st, e, k)
      PROVE  CoveredAt(new, e, k)
  <2>1. k \in DOMAIN st.claims /\ k \in DOMAIN new.claims
    BY <1>1 DEF CoveredAt, Grows
  <2>2. e.generation \in Nat /\ st.claims[k].generation \in Nat /\ new.claims[k].generation \in Nat
    BY <2>1, HeaderType DEF StateType, Folded
  <2> QED
    BY <1>1, <2>1, <2>2 DEF CoveredAt, Grows
<1>2. object_exists(st, e.payload.object) => object_exists(new, e.payload.object)
  BY DEF object_exists, KeysOf, Grows
<1> QED
  BY <1>1, <1>2 DEF Stored

\* Folding a record loses nothing.
LEMMA FoldGrows ==
    ASSUME NEW st, StateType(st), NEW e \in EvidenceType, NEW new,
           FoldEffect(st, e, decide(st, e), new.claims)
    PROVE  Grows(st, new)
<1> DEFINE change == decide(st, e)
<1>1. \A k \in change.writes \cap DOMAIN st.claims : e.generation > st.claims[k].generation
  BY StagedGenerations
<1>2. FoldEffect(st, e, change, new.claims)
  OBVIOUS
<1> HIDE DEF change
<1>3. DOMAIN st.claims \subseteq DOMAIN new.claims
  BY <1>2, Zenon DEF FoldEffect
<1>4. ASSUME NEW k \in DOMAIN st.claims
      PROVE  \/ new.claims[k].generation > st.claims[k].generation
             \/ /\ new.claims[k].generation = st.claims[k].generation
                /\ new.claims[k].value = st.claims[k].value
  <2>1. CASE k \in change.writes
    BY <1>1, <1>2, <2>1, ZenonT(60) DEF FoldEffect
  <2>2. CASE k \notin change.writes
    BY <1>2, <2>2, Zenon DEF FoldEffect
  <2> QED
    BY <2>1, <2>2, Zenon
<1> QED
  BY <1>3, <1>4 DEF Grows

\* So does ingesting one, whichever way it ends.
LEMMA IngestGrows ==
    ASSUME NEW st, StateType(st), NEW e \in EvidenceType,
           NEW live \in BOOLEAN, NEW durable \in BOOLEAN
    PROVE  Grows(st, ingest_locked(st, e, live, durable).state)
<1> DEFINE new == ingest_locked(st, e, live, durable).state
<1>1. \/ new.claims = st.claims
      \/ /\ KnownSession(st, e)
         /\ new.claims = FoldedClaims(st, e, live, decide(st, e))
  BY IngestResult, Zenon DEF IngestEffect
<1> HIDE DEF new
<1>2. CASE new.claims = st.claims
  <2>1. Grows(st, new)
    BY <1>2 DEF Grows
  <2> QED
    BY <2>1 DEF new
<1>3. CASE /\ KnownSession(st, e)
           /\ new.claims = FoldedClaims(st, e, live, decide(st, e))
  <2>1. FoldEffect(st, e, decide(st, e), new.claims)
    BY <1>3, FoldedClaimsResult
  <2>2. Grows(st, new)
    BY <2>1, FoldGrows
  <2> QED
    BY <2>2 DEF new
<1> QED
  BY <1>1, <1>2, <1>3, Zenon

\* A similar state holds the same.
LEMMA SimilarGrows ==
    ASSUME NEW s, NEW t, Similar(s, t)
    PROVE  Grows(s, t)
BY DEF Similar, SameRecord, Grows

\* An accepted record collides nowhere; it is written wherever it is news, unless it is
\* a replacement that was reported before.
LEMMA AcceptedStaged ==
    ASSUME NEW st, NEW e, is_accepted(decide(st, e).disposition)
    PROVE  /\ KeysWith(st, e, "Collision") = {}
           /\ \/ decide(st, e).writes = KeysWith(st, e, "Insert")
              \/ AlreadyReincarnated(st, e)
<1> DEFINE change == decide(st, e)
           inserts == KeysWith(st, e, "Insert")
           superseded == KeysWith(st, e, "Superseded")
           collisions == KeysWith(st, e, "Collision")
<1>1. \/ \E d \in {"RefusedCapacity", "RefusedConflict", "RefusedLabelConflict"} :
            change = Staged(d, {}, {})
      \/ /\ collisions = {} /\ inserts = {}
         /\ \E d, r : change = Staged(d, {}, r)
      \/ collisions = {} /\ AlreadyReincarnated(st, e)
      \/ /\ collisions = {}
         /\ \E d : change = Staged(d, inserts, superseded)
  BY Zenon DEF decide
<1>2. ASSUME NEW d, NEW w, NEW r
      PROVE  Staged(d, w, r).writes = w /\ Staged(d, w, r).disposition = d
  BY DEF Staged
<1>3. ~is_accepted("RefusedCapacity") /\ ~is_accepted("RefusedConflict")
      /\ ~is_accepted("RefusedLabelConflict")
  BY DEF is_accepted
<1> HIDE DEF change, inserts, superseded, collisions
<1>4. is_accepted(change.disposition)
  BY DEF change
<1> SUFFICES collisions = {} /\ (change.writes = inserts \/ AlreadyReincarnated(st, e))
  BY DEF change, inserts, collisions
<1>5. CASE \E d \in {"RefusedCapacity", "RefusedConflict", "RefusedLabelConflict"} :
              change = Staged(d, {}, {})
  BY <1>2, <1>3, <1>4, <1>5
<1>6. CASE /\ collisions = {} /\ inserts = {}
           /\ \E d, r : change = Staged(d, {}, r)
  BY <1>2, <1>6
<1>7. CASE collisions = {} /\ AlreadyReincarnated(st, e)
  BY <1>7
<1>8. CASE /\ collisions = {}
           /\ \E d : change = Staged(d, inserts, superseded)
  BY <1>2, <1>8
<1> QED
  BY <1>1, <1>5, <1>6, <1>7, <1>8, Zenon

\* Only a record that is accepted is staged.
LEMMA AppliedAccepted ==
    ASSUME NEW st, NEW e, decide(st, e).apply
    PROVE  is_accepted(decide(st, e).disposition)
<1> DEFINE change == decide(st, e)
<1>1. \/ \E d \in {"RefusedCapacity", "RefusedConflict", "RefusedLabelConflict", "Duplicate"} :
            change = Staged(d, {}, {})
      \/ \E w, r : change = Staged("AcceptedSuperseded", w, r)
      \/ \E w, r : change = Staged(effective_disposition(st, e), w, r)
  BY Zenon DEF decide
<1>2. ASSUME NEW d, NEW w, NEW r
      PROVE  Staged(d, w, r).disposition = d /\ (Staged(d, w, r).apply => w # {} \/ r # {})
  BY Zenon DEF Staged
<1>3. is_accepted("AcceptedSuperseded") /\ is_accepted(effective_disposition(st, e))
  BY Zenon DEF is_accepted, effective_disposition
<1>4. change.apply
  OBVIOUS
<1> HIDE DEF change
<1> SUFFICES is_accepted(change.disposition)
  BY DEF change
<1>5. CASE \E d \in {"RefusedCapacity", "RefusedConflict", "RefusedLabelConflict", "Duplicate"} :
              change = Staged(d, {}, {})
  BY <1>2, <1>4, <1>5, Zenon
<1>6. CASE \E w, r : change = Staged("AcceptedSuperseded", w, r)
  BY <1>2, <1>3, <1>6
<1>7. CASE \E w, r : change = Staged(effective_disposition(st, e), w, r)
  BY <1>2, <1>3, <1>7
<1> QED
  BY <1>1, <1>5, <1>6, <1>7, Zenon

\* A key the record is neither news for nor in conflict with covers it.
LEMMA SettledKeyCovers ==
    ASSUME NEW st, StateType(st), NEW e \in EvidenceType, NEW k \in ClaimKeys(e),
           k \notin KeysWith(st, e, "Insert"), k \notin KeysWith(st, e, "Collision")
    PROVE  CoveredAt(st, e, k)
<1>1. /\ existing_outcome(st, e, k) # "Insert" /\ existing_outcome(st, e, k) # "Collision"
      /\ k \in DOMAIN st.claims
  BY DEF KeysWith, existing_outcome
<1>2. e.generation \in Nat /\ st.claims[k].generation \in Nat
  BY <1>1, HeaderType DEF StateType, Folded
<1> QED
  BY <1>1, <1>2, OutcomeByGeneration DEF CoveredAt, OutcomeFits

\* Every key covers a record that is answered as accepted, unless it is a replacement that
\* was reported before.
LEMMA AcceptedCovered ==
    ASSUME NEW st, StateType(st), NEW e \in EvidenceType,
           NEW live \in BOOLEAN, NEW durable \in BOOLEAN,
           is_accepted(ingest_locked(st, e, live, durable).disposition)
    PROVE  /\ KnownSession(st, e) /\ WellFormed(e)
           /\ \/ AlreadyReincarnated(st, e)
              \/ \A k \in ClaimKeys(e) : CoveredAt(ingest_locked(st, e, live, durable).state, e, k)
<1> DEFINE change == decide(st, e)
           result == ingest_locked(st, e, live, durable)
           new == result.state
<1>1. /\ ~is_accepted("RefusedInvalid") /\ ~is_accepted("RefusedUnknownSource")
      /\ ~is_accepted("RefusedPersistence")
  BY DEF is_accepted
<1>2. /\ KnownSession(st, e) /\ WellFormed(e) /\ is_accepted(change.disposition)
      /\ change.apply => durable
  BY <1>1, Zenon DEF ingest_locked
<1>3. /\ KeysWith(st, e, "Collision") = {}
      /\ change.writes = KeysWith(st, e, "Insert") \/ AlreadyReincarnated(st, e)
  BY <1>2, AcceptedStaged
<1>4. StateType(new) /\ Grows(st, new)
  BY IngestResult, IngestGrows DEF IngestEffect
<1>5. CASE AlreadyReincarnated(st, e)
  BY <1>2, <1>5, Zenon
<1>6. CASE change.writes = KeysWith(st, e, "Insert")
  <2>1. ASSUME NEW k \in ClaimKeys(e)
        PROVE  CoveredAt(new, e, k)
    <3>1. CASE k \in change.writes
      <4>1. change.apply
        BY <3>1, Zenon DEF decide, Staged
      <4>2. new.claims = FoldedClaims(st, e, live, change)
        <5>1. NeedsAppend(st, e) /\ durable
          BY <1>2, <4>1 DEF NeedsAppend
        <5> QED
          BY <5>1, AppendedClaims, Zenon
      <4>3. FoldEffect(st, e, change, new.claims)
        BY <1>2, <4>2, FoldedClaimsResult
      <4> HIDE DEF change, new
      <4>4. k \in DOMAIN new.claims /\ new.claims[k].generation = e.generation
            /\ new.claims[k].value = AssertedValue(e, k)
        BY <3>1, <4>3, Zenon DEF FoldEffect
      <4> QED
        BY <4>4 DEF CoveredAt, SameContent
    <3>2. CASE k \notin change.writes
      <4>1. CoveredAt(st, e, k)
        BY <1>3, <1>6, <3>2, SettledKeyCovers
      <4> HIDE DEF new
      <4>2. k \in DOMAIN st.claims /\ k \in DOMAIN new.claims
        BY <1>4, <4>1 DEF CoveredAt, Grows
      <4>3. e.generation \in Nat /\ st.claims[k].generation \in Nat
            /\ new.claims[k].generation \in Nat
        BY <1>4, <4>2, HeaderType DEF StateType, Folded
      <4> QED
        BY <1>4, <4>1, <4>2, <4>3 DEF CoveredAt, Grows
    <3> QED
      BY <3>1, <3>2
  <2> QED
    BY <1>2, <2>1
<1> QED
  BY <1>3, <1>5, <1>6, Zenon

\* A record that is answered as accepted is stored: appended and folded, or known before.
LEMMA AcceptedStored ==
    ASSUME NEW st, StateType(st), NEW e \in EvidenceType,
           NEW live \in BOOLEAN, NEW durable \in BOOLEAN,
           is_accepted(ingest_locked(st, e, live, durable).disposition)
    PROVE  KnownSession(st, e) /\ Stored(ingest_locked(st, e, live, durable).state, e)
<1> DEFINE new == ingest_locked(st, e, live, durable).state
<1>1. /\ KnownSession(st, e)
      /\ AlreadyReincarnated(st, e) \/ \A k \in ClaimKeys(e) : CoveredAt(new, e, k)
  BY AcceptedCovered
<1>2. StateType(new) /\ Grows(st, new)
  BY IngestResult, IngestGrows, Zenon DEF IngestEffect
<1> HIDE DEF new
<1>3. CASE AlreadyReincarnated(st, e)
  <2>1. Stored(st, e)
    BY <1>3 DEF AlreadyReincarnated, Stored
  <2>2. Stored(new, e)
    BY <1>2, <2>1, StoredGrows
  <2> QED
    BY <1>1, <2>2 DEF new
<1>4. CASE \A k \in ClaimKeys(e) : CoveredAt(new, e, k)
  <2>1. Stored(new, e)
    BY <1>4 DEF Stored
  <2> QED
    BY <1>1, <2>1 DEF new
<1> QED
  BY <1>1, <1>3, <1>4

\* A record that every key covers is no news.
LEMMA CoveredIsNoNews ==
    ASSUME NEW st, StateType(st), NEW e \in EvidenceType,
           \A k \in ClaimKeys(e) : CoveredAt(st, e, k)
    PROVE  decide(st, e).writes = {}
<1>1. ASSUME NEW k \in ClaimKeys(e)
      PROVE  existing_outcome(st, e, k) # "Insert"
  <2>1. k \in DOMAIN st.claims
    BY DEF CoveredAt
  <2>2. e.generation \in Nat /\ st.claims[k].generation \in Nat
    BY <2>1, HeaderType DEF StateType, Folded
  <2> QED
    BY <2>1, <2>2, OutcomeByGeneration DEF CoveredAt, OutcomeFits
<1>2. KeysWith(st, e, "Insert") = {}
  BY <1>1 DEF KeysWith
<1> QED
  BY <1>2, StagedKeys, Zenon DEF StagesNews

\* A replacement the object has reached is no news.
LEMMA ReachedIsNoNews ==
    ASSUME NEW st, NEW e, AlreadyReincarnated(st, e)
    PROVE  decide(st, e).writes = {}
<1> DEFINE change == decide(st, e)
<1>1. \E d, r : change = Staged(d, {}, r)
  BY DEF decide
<1> HIDE DEF change
<1>2. change.writes = {}
  BY <1>1 DEF Staged
<1> QED
  BY <1>2 DEF change

\* A stored record is no news: delivered again it writes nothing, unless it is a
\* replacement and the object has fallen back.
LEMMA StoredIsNoNews ==
    ASSUME NEW st, StateType(st), NEW e \in EvidenceType, Stored(st, e), ~Unreached(st, e)
    PROVE  decide(st, e).writes = {}
<1>1. CASE \A k \in ClaimKeys(e) : CoveredAt(st, e, k)
  BY <1>1, CoveredIsNoNews
<1>2. CASE e.kind = "ReincarnateObject" /\ object_exists(st, e.payload.object)
  <2>1. AlreadyReincarnated(st, e)
    BY <1>2 DEF AlreadyReincarnated, Unreached
  <2> QED
    BY <2>1, ReachedIsNoNews
<1> QED
  BY <1>1, <1>2 DEF Stored

\* Every key covers a record that was appended, unless it is a replacement.
LEMMA AppliedCovered ==
    ASSUME NEW st, StateType(st), NEW e \in EvidenceType, NeedsAppend(st, e),
           e.kind # "ReincarnateObject", NEW live \in BOOLEAN
    PROVE  \A k \in ClaimKeys(e) : CoveredAt(ingest_locked(st, e, live, TRUE).state, e, k)
<1>1. WellFormed(e) /\ KnownSession(st, e) /\ decide(st, e).apply
  BY DEF NeedsAppend
<1>2. ingest_locked(st, e, live, TRUE).disposition = decide(st, e).disposition
  BY <1>1, Zenon DEF ingest_locked
<1>3. is_accepted(ingest_locked(st, e, live, TRUE).disposition)
  BY <1>1, <1>2, AppliedAccepted, Zenon
<1>4. ~AlreadyReincarnated(st, e)
  BY DEF AlreadyReincarnated
<1> QED
  BY <1>3, <1>4, AcceptedCovered, Zenon

\* A covered record is appended again only where something newer has overtaken it.
LEMMA RepeatIsOvertaken ==
    ASSUME NEW st, StateType(st), NEW e \in EvidenceType, NeedsAppend(st, e),
           e.kind # "ReincarnateObject", \A k \in ClaimKeys(e) : CoveredAt(st, e, k)
    PROVE  \E k \in DOMAIN st.claims :
              k.owner = OwnerOf(e) /\ st.claims[k].generation > e.generation
<1> DEFINE change == decide(st, e)
<1>1. change.apply /\ change.writes = {}
  BY CoveredIsNoNews DEF NeedsAppend
<1>2. change.rings # {}
  <2>1. \E d, w, r : change = Staged(d, w, r)
    BY Zenon DEF decide
  <2>2. ASSUME NEW d, NEW w, NEW r
        PROVE  /\ Staged(d, w, r).writes = w /\ Staged(d, w, r).rings = r
               /\ Staged(d, w, r).apply => w # {} \/ r # {}
    BY Zenon DEF Staged
  <2> HIDE DEF change
  <2> QED
    BY <1>1, <2>1, <2>2
<1>3. change.rings \subseteq KeysWith(st, e, "Superseded")
  BY StagedKeys, Zenon DEF StagesNews
<1> HIDE DEF change
<1>4. PICK k \in ClaimKeys(e) : existing_outcome(st, e, k) = "Superseded"
  BY <1>2, <1>3 DEF KeysWith
<1>5. k \in DOMAIN st.claims /\ k.owner = OwnerOf(e)
  BY <1>4, ClaimKeysType DEF CoveredAt
<1>6. e.generation < st.claims[k].generation
  BY <1>4, <1>5, OutcomeByGeneration, Zenon DEF OutcomeFits
<1>7. e.generation \in Nat /\ st.claims[k].generation \in Nat
  BY <1>5, HeaderType DEF StateType, Folded
<1> QED
  BY <1>5, <1>6, <1>7

-----------------------------------------------------------------------------
(***************************************************************************)
(* Nothing is forgotten.                                                   *)
(***************************************************************************)
\* A state in which everything has its type and the label index is complete if in use.
Sound(st) == StateType(st) /\ Indexed(st)

\* Nothing is forgotten: sources, sessions and claims stay or move forward.
Keeps(st, new) ==
    /\ \A s \in DOMAIN st.sources :
          /\ s \in DOMAIN new.sources
          /\ new.sources[s].current_incarnation >= st.sources[s].current_incarnation
    /\ DOMAIN st.sessions \subseteq DOMAIN new.sessions
    /\ Grows(st, new)

\* Going to a similar state forgets nothing.
LEMMA SimilarKeeps ==
    ASSUME NEW s, StateType(s), NEW t, Similar(s, t)
    PROVE  Keeps(s, t)
<1>1. \A x \in DOMAIN s.sources : s.sources[x].current_incarnation \in Nat
  BY DEF StateType, SourceRecord
<1> QED
  BY <1>1, SimilarGrows DEF Similar, Keeps

\* Opening a session, live or replayed, keeps a state sound and forgets nothing.
LEMMA OpenKeeps ==
    ASSUME NEW st, Sound(st),
           NEW s \in SourceId, NEW authority \in Nat, NEW incarnation \in Nat
    PROVE  LET new == apply_session_open(st, s, authority, incarnation)
           IN  Sound(new) /\ Keeps(st, new)
<1> DEFINE new == apply_session_open(st, s, authority, incarnation)
<1>2. /\ StateType(new)
      /\ new.claims = st.claims /\ new.label_index = st.label_index
      /\ new.label_index_valid = st.label_index_valid
      /\ \A x \in DOMAIN st.sources :
            /\ x \in DOMAIN new.sources
            /\ new.sources[x].current_incarnation >= st.sources[x].current_incarnation
      /\ \A w \in DOMAIN st.sessions : w \in DOMAIN new.sessions
  BY SessionOpenResult, ZenonT(60) DEF Sound, OpenEffect
<1> HIDE DEF new
<1>3. Indexed(new)
  BY <1>2, SameClaimsSameLabels DEF Sound, Indexed
<1>4. Grows(st, new)
  BY <1>2 DEF Grows
<1>5. Sound(new) /\ Keeps(st, new)
  BY <1>2, <1>3, <1>4 DEF Sound, Keeps
<1> QED
  BY <1>5 DEF new

\* So does setting the flags of a session.
LEMMA FlagsKeep ==
    ASSUME NEW st, Sound(st), NEW w, NEW live \in BOOLEAN
    PROVE  LET new == set_session_live(st, w, live)
           IN  Sound(new) /\ Keeps(st, new) /\ Similar(st, new)
<1> DEFINE new == set_session_live(st, w, live)
<1>1. /\ StateType(new)
      /\ new.claims = st.claims /\ new.label_index = st.label_index
      /\ new.label_index_valid = st.label_index_valid
  BY SetLiveResult DEF Sound, SetLiveEffect
<1>2. Similar(st, new)
  BY SimilarFlags DEF Sound
<1> HIDE DEF new
<1>3. Indexed(new)
  BY <1>1, SameClaimsSameLabels DEF Sound, Indexed
<1>4. Sound(new) /\ Keeps(st, new)
  BY <1>1, <1>2, <1>3, SimilarKeeps DEF Sound
<1> QED
  BY <1>2, <1>4 DEF new

\* So does ingesting a record.
LEMMA IngestKeeps ==
    ASSUME NEW st, Sound(st), NEW e \in EvidenceType, NEW live \in BOOLEAN, NEW durable \in BOOLEAN
    PROVE  LET new == ingest_locked(st, e, live, durable).state
           IN  Sound(new) /\ Keeps(st, new)
<1> DEFINE new == ingest_locked(st, e, live, durable).state
<1>1. StateType(new) /\ new.sources = st.sources /\ DOMAIN new.sessions = DOMAIN st.sessions
  BY IngestResult DEF Sound, IngestEffect
<1>2. Indexed(new) /\ Grows(st, new)
  BY IngestIndexed, IngestGrows DEF Sound
<1>3. \A s \in DOMAIN st.sources : st.sources[s].current_incarnation \in Nat
  BY DEF Sound, StateType, SourceRecord
<1> HIDE DEF new
<1>4. Sound(new) /\ Keeps(st, new)
  BY <1>1, <1>2, <1>3 DEF Sound, Keeps
<1> QED
  BY <1>4 DEF new

\* What a restart forgets leaves a similar state.
LEMMA ClearedResult ==
    ASSUME NEW st, Sound(st)
    PROVE  Sound(clear_volatile(st)) /\ Similar(st, clear_volatile(st))
<1> DEFINE new == clear_volatile(st)
           sessions == [w \in DOMAIN st.sessions |-> [st.sessions[w] EXCEPT !.live = FALSE]]
           claims == [k \in DOMAIN st.claims |-> [st.claims[k] EXCEPT !.asserted_in_lifetime = FALSE]]
<1>1. new = [sources |-> st.sources, sessions |-> sessions, claims |-> claims,
             label_index |-> st.label_index, label_index_valid |-> st.label_index_valid]
  <2>1. new = [st EXCEPT !.sessions = sessions, !.claims = claims]
    BY DEF clear_volatile
  <2> HIDE DEF new, sessions, claims
  <2> QED
    BY <2>1, Zenon DEF Sound, StateType
<1>2. sessions \in [DOMAIN st.sessions -> SessionRecord]
  BY Zenon DEF Sound, StateType, SessionRecord
<1>3. ASSUME NEW k \in DOMAIN st.claims
      PROVE  claims[k] \in Folded(k.map) /\ SameRecord(st.claims[k], claims[k])
  <2>1. st.claims[k] \in Folded(k.map) /\ claims[k] = [st.claims[k] EXCEPT !.asserted_in_lifetime = FALSE]
    BY DEF Sound, StateType
  <2> QED
    BY <2>1, Zenon DEF Folded, SameRecord
<1>4. DOMAIN claims = DOMAIN st.claims /\ claims = [k \in DOMAIN claims |-> claims[k]]
  OBVIOUS
<1> HIDE DEF new, sessions, claims
<1>5. StateType(new)
  <2>1. /\ DOMAIN claims \subseteq ClaimKey /\ \A k \in DOMAIN claims : claims[k] \in Folded(k.map)
    BY <1>3, <1>4 DEF Sound, StateType
  <2>2. DOMAIN sessions = DOMAIN st.sessions
    BY <1>2
  <2> QED
    BY <1>1, <1>2, <1>4, <2>1, <2>2, Zenon DEF Sound, StateType
<1>6. Similar(st, new)
  BY <1>1, <1>2, <1>3, <1>4 DEF Similar
<1>7. RegisteredLabels(new) = RegisteredLabels(st)
  BY <1>6, SimilarQuestions DEF SameAnswers
<1>8. Indexed(new)
  BY <1>1, <1>7 DEF Indexed, Sound
<1> QED
  BY <1>5, <1>6, <1>8 DEF Sound, new

\* No claim is fresh after a restart.
LEMMA ClearedClaims ==
    ASSUME NEW st, Sound(st)
    PROVE  \A k \in DOMAIN clear_volatile(st).claims :
               clear_volatile(st).claims[k].asserted_in_lifetime = FALSE
<1>1. clear_volatile(st).claims
        = [k \in DOMAIN st.claims |-> [st.claims[k] EXCEPT !.asserted_in_lifetime = FALSE]]
  BY DEF clear_volatile, Sound, StateType
<1>2. \A k \in DOMAIN st.claims : st.claims[k] \in Folded(k.map)
  BY DEF Sound, StateType
<1>3. \A k \in DOMAIN st.claims :
        [st.claims[k] EXCEPT !.asserted_in_lifetime = FALSE].asserted_in_lifetime = FALSE
  BY <1>2 DEF Folded
<1> QED
  BY <1>1, <1>3, Zenon

\* A registry that was just created is sound.
LEMMA EmptySound == Sound(EmptyState) /\ DOMAIN EmptyState.sessions = {} /\ DOMAIN EmptyState.claims = {}
<1>1. /\ DOMAIN EmptyState.sources = {} /\ EmptyState.sources \in [{} -> SourceRecord]
      /\ DOMAIN EmptyState.sessions = {} /\ EmptyState.sessions \in [{} -> SessionRecord]
      /\ DOMAIN EmptyState.claims = {}
      /\ EmptyState.claims = [k \in {} |-> EmptyState.claims[k]]
  BY DEF EmptyState, EmptyFunction
<1>2. EmptyState.label_index = {} /\ EmptyState.label_index_valid = FALSE
  BY DEF EmptyState
<1>3. EmptyState = [sources |-> EmptyState.sources, sessions |-> EmptyState.sessions,
                    claims |-> EmptyState.claims, label_index |-> EmptyState.label_index,
                    label_index_valid |-> EmptyState.label_index_valid]
  BY DEF EmptyState
<1>4. StateType(EmptyState)
  BY <1>1, <1>2, <1>3, Zenon DEF StateType
<1> QED
  BY <1>1, <1>2, <1>4 DEF Sound, Indexed

-----------------------------------------------------------------------------
(***************************************************************************)
(* Fresh claims.                                                           *)
(***************************************************************************)
\* What the record says of a key is what the key holds.
Said(e, k, folded) ==
    /\ k \in ClaimKeys(e)
    /\ folded.evidence = e.id /\ folded.value = AssertedValue(e, k)

\* Every fresh claim was made by a record of the set.
FreshFrom(claims, records) ==
    \A k \in DOMAIN claims :
        claims[k].asserted_in_lifetime => \E e \in records : Said(e, k, claims[k])

\* A key that a record does not write keeps its winner.
LEMMA UnwrittenSame ==
    ASSUME NEW st, StateType(st), NEW e, NEW live, NEW change,
           NEW k \in DOMAIN st.claims, k \notin change.writes,
           NEW claims, claims = FoldedClaims(st, e, live, change)
    PROVE  /\ claims[k].evidence = st.claims[k].evidence
           /\ claims[k].value = st.claims[k].value
           /\ claims[k].asserted_in_lifetime = st.claims[k].asserted_in_lifetime
<1> DEFINE meta == MetaOf(st, e, live)
           f == st.claims[k]
<1>1. claims[k] = f \/ claims[k] = fold_losing(f, meta)
  BY Zenon DEF FoldedClaims
<1>2. f \in Folded(k.map)
  BY DEF StateType
<1> HIDE DEF f, meta
<1>3. \A ring : /\ [f EXCEPT !.superseded = ring].evidence = f.evidence
                /\ [f EXCEPT !.superseded = ring].value = f.value
                /\ [f EXCEPT !.superseded = ring].asserted_in_lifetime = f.asserted_in_lifetime
  BY <1>2 DEF Folded
<1>4. fold_losing(f, meta) = f \/ \E ring : fold_losing(f, meta) = [f EXCEPT !.superseded = ring]
  BY Zenon DEF fold_losing
<1>5. /\ claims[k].evidence = f.evidence /\ claims[k].value = f.value
      /\ claims[k].asserted_in_lifetime = f.asserted_in_lifetime
  BY <1>1, <1>3, <1>4, ZenonT(60)
<1> QED
  BY <1>5, Zenon DEF f

\* One that it writes holds what the record says.
LEMMA WrittenSaid ==
    ASSUME NEW st, NEW e \in EvidenceType, NEW live, NEW k \in decide(st, e).writes
    PROVE  Said(e, k, FoldedClaims(st, e, live, decide(st, e))[k])
<1> DEFINE change == decide(st, e)
           meta == MetaOf(st, e, live)
           value == AssertedValue(e, k)
           written == FoldedClaims(st, e, live, change)[k]
<1>1. k \in ClaimKeys(e)
  BY StagedKeys, Zenon DEF KeysWith, StagesNews
<1>2. written = fold(st.claims[k], meta, value) \/ written = FoldedRecord(meta, value, {})
  BY Zenon DEF FoldedClaims
<1>3. meta.evidence = e.id
  BY DEF MetaOf
<1> HIDE DEF written, value, meta
<1>4. PICK ring : written = FoldedRecord(meta, value, ring)
  BY <1>2, Zenon DEF fold
<1>5. written.evidence = meta.evidence /\ written.value = value
  BY <1>4 DEF FoldedRecord
<1>6. Said(e, k, written)
  BY <1>1, <1>3, <1>5, Zenon DEF Said, value
<1> QED
  BY <1>6, Zenon DEF written

\* An ingested record leaves no fresh claim but its own.
LEMMA FoldedFresh ==
    ASSUME NEW st, StateType(st), NEW e \in EvidenceType, NEW live, NEW records,
           FreshFrom(st.claims, records)
    PROVE  FreshFrom(FoldedClaims(st, e, live, decide(st, e)), records \cup {e})
<1> DEFINE change == decide(st, e)
           claims == FoldedClaims(st, e, live, change)
<1>1. DOMAIN claims = DOMAIN st.claims \cup change.writes
  BY Zenon DEF FoldedClaims
<1>0. ASSUME NEW k \in DOMAIN st.claims, k \notin change.writes
      PROVE  /\ claims[k].evidence = st.claims[k].evidence
             /\ claims[k].value = st.claims[k].value
             /\ claims[k].asserted_in_lifetime = st.claims[k].asserted_in_lifetime
  <2>1. claims = FoldedClaims(st, e, live, change)
    OBVIOUS
  <2> HIDE DEF claims, change
  <2> QED
    BY <1>0, <2>1, UnwrittenSame
<1> SUFFICES ASSUME NEW k \in DOMAIN claims, claims[k].asserted_in_lifetime
             PROVE  \E x \in records \cup {e} : Said(x, k, claims[k])
  BY Zenon DEF FreshFrom
<1>2. CASE k \in change.writes
  <2>1. Said(e, k, claims[k])
    BY <1>2, WrittenSaid, Zenon
  <2> QED
    BY <2>1, Zenon
<1>3. CASE k \notin change.writes
  <2>1. k \in DOMAIN st.claims
    BY <1>1, <1>3, Zenon
  <2> HIDE DEF claims, change
  <2>3. PICK x \in records : Said(x, k, st.claims[k])
    BY <1>0, <1>3, <2>1, Zenon DEF FreshFrom
  <2>4. Said(x, k, claims[k])
    BY <1>0, <1>3, <2>1, <2>3, Zenon DEF Said
  <2> QED
    BY <2>4, Zenon
<1> QED
  BY <1>2, <1>3, Zenon

\* A record occupies one slot of one port at most.
LEMMA OneOccupiedKey ==
    ASSUME NEW e \in EvidenceType, NEW j \in ClaimKeys(e), NEW k \in ClaimKeys(e),
           j.map = "port", k.map = "port",
           ~AssertedValue(e, j).empty, ~AssertedValue(e, k).empty
    PROVE  j = k
<1> USE DEF ObjectKey, EndpointKey, SubjectKey, PortKey, LifecycleKey,
            ReincarnationKey, ObjectCapKey, PortCapKey
<1>1. e.kind \in {"RegisterObject", "RegisterEndpoint", "Attach", "Detach", "Move",
                  "SetLifecycle", "ReincarnateObject", "PublishObjectCapability",
                  "PublishPortCapability"}
  BY Zenon DEF EvidenceType, EvidenceOf
<1>2. CASE e.kind = "Attach"
  BY <1>2 DEF ClaimKeys
<1>3. CASE e.kind = "Detach"
  BY <1>3 DEF ClaimKeys, AssertedValue, PortValue
<1>4. CASE e.kind = "Move"
  <2>1. \A x : x.map = "port" /\ ~AssertedValue(e, x).empty =>
                  x = PortKey(e.payload.to, OwnerOf(e), e.payload.to_slot)
    BY <1>4, Zenon DEF AssertedValue, PortValue
  <2> QED
    BY <2>1
<1>5. CASE e.kind \notin {"Attach", "Detach", "Move"}
  BY <1>1, <1>5 DEF ClaimKeys
<1> QED
  BY <1>2, <1>3, <1>4, <1>5
==================================================================================
