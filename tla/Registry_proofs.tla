----------------------------- MODULE Registry_proofs -----------------------------
(***************************************************************************)
(* The invariants of the registry, for every set of evidence records and   *)
(* OpenSession calls, however long the run: records may reach the registry *)
(* in any order, any number of times, or never.                            *)
(***************************************************************************)
EXTENDS Registry, RegistryIngest_proofs, FiniteSetTheorems

\* The obligations are large: the provers get more than the default time.
USE SMTT(60), ZenonT(60)

-----------------------------------------------------------------------------
(***************************************************************************)
(* What one step does.                                                     *)
(***************************************************************************)
\* The state of a registry that has just been opened without a store.
LEMMA InitResult == Init => TypeOK /\ DOMAIN state.claims = {} /\ ~state.label_index_valid
<1>1. StateType(EmptyState)
  <2>1. /\ DOMAIN EmptyState.sources = {} /\ EmptyState.sources \in [{} -> SourceRecord]
        /\ DOMAIN EmptyState.sessions = {} /\ EmptyState.sessions \in [{} -> SessionRecord]
        /\ DOMAIN EmptyState.claims = {}
        /\ EmptyState.claims = [k \in {} |-> EmptyState.claims[k]]
    BY DEF EmptyState, EmptyFunction
  <2>2. EmptyState.label_index = {} /\ EmptyState.label_index_valid = FALSE
    BY DEF EmptyState
  <2>3. EmptyState = [sources |-> EmptyState.sources, sessions |-> EmptyState.sessions,
                      claims |-> EmptyState.claims, label_index |-> EmptyState.label_index,
                      label_index_valid |-> EmptyState.label_index_valid]
    BY DEF EmptyState
  <2> QED
    BY <2>1, <2>2, <2>3, Zenon DEF StateType
<1>2. DOMAIN EmptyState.claims = {} /\ ~EmptyState.label_index_valid
  BY DEF EmptyState, EmptyFunction
<1> QED
  BY <1>1, <1>2, Zenon DEF Init, TypeOK

\* Sources and sessions are never forgotten, and high-water marks never fall.
Retained(st, new) ==
    /\ \A s \in DOMAIN st.sources :
          /\ s \in DOMAIN new.sources
          /\ new.sources[s].current_incarnation >= st.sources[s].current_incarnation
    /\ \A w \in DOMAIN st.sessions :
          /\ w \in DOMAIN new.sessions
          /\ new.sessions[w].high_water >= st.sessions[w].high_water

\* The claims are left alone, or folded with one record of a known session.
ClaimsStep(st, new) ==
    \/ new.claims = st.claims
    \/ \E e \in Evidence :
          /\ KnownSession(st, e)
          /\ new.claims = FoldedClaims(st, e, TRUE, decide(st, e))
          /\ new.sessions[OwnerOf(e)].high_water >= e.generation

\* A step that changes nothing keeps everything.
LEMMA RetainedRefl == ASSUME NEW st, StateType(st) PROVE Retained(st, st)
BY DEF Retained, StateType, SourceRecord, SessionRecord

\* OpenSession keeps the types and everything stored, and touches no claim.
LEMMA OpenSessionResult ==
    ASSUME StateType(state), NEW o \in Openings, OpenSession(o)
    PROVE  StateType(state') /\ Retained(state, state') /\ state'.claims = state.claims
<1> o.source \in SourceId /\ o.authority \in Nat /\ o.incarnation \in Nat
  BY OpeningsAssumption
<1>1. CASE opens(open_disposition(state, o.source, o.authority, o.incarnation))
  <2> DEFINE opened == apply_session_open(state, o.source, o.authority, o.incarnation)
  <2>1. /\ StateType(opened) /\ opened.claims = state.claims
        /\ \A x \in DOMAIN state.sources :
              /\ x \in DOMAIN opened.sources
              /\ opened.sources[x].current_incarnation >= state.sources[x].current_incarnation
        /\ \A w \in DOMAIN state.sessions :
              w \in DOMAIN opened.sessions /\ opened.sessions[w] = state.sessions[w]
    BY SessionOpenResult, Zenon DEF OpenEffect
  <2>2. state' = set_session_live(opened, <<o.source, o.incarnation>>, TRUE)
    BY <1>1 DEF OpenSession
  <2> HIDE DEF opened
  <2>3. \A w \in DOMAIN state.sessions : state.sessions[w].high_water \in Nat
    BY DEF StateType, SessionRecord
  <2>4. /\ StateType(state') /\ state'.claims = opened.claims
        /\ state'.sources = opened.sources /\ DOMAIN state'.sessions = DOMAIN opened.sessions
        /\ \A x \in DOMAIN opened.sessions :
              state'.sessions[x].high_water = opened.sessions[x].high_water
    <3> DEFINE w == <<o.source, o.incarnation>>
    <3>1. StateType(opened)
      BY <2>1
    <3> HIDE DEF w
    <3>2. /\ StateType(set_session_live(opened, w, TRUE))
          /\ set_session_live(opened, w, TRUE).claims = opened.claims
          /\ set_session_live(opened, w, TRUE).sources = opened.sources
          /\ DOMAIN set_session_live(opened, w, TRUE).sessions = DOMAIN opened.sessions
          /\ \A x \in DOMAIN opened.sessions :
                set_session_live(opened, w, TRUE).sessions[x].high_water
                    = opened.sessions[x].high_water
      BY <3>1, SetLiveResult, Zenon DEF SetLiveEffect
    <3> QED
      BY <2>2, <3>2, Zenon DEF w
  <2> QED
    BY <2>1, <2>3, <2>4 DEF Retained
<1>2. CASE ~opens(open_disposition(state, o.source, o.authority, o.incarnation))
  BY <1>2, RetainedRefl DEF OpenSession
<1> QED
  BY <1>1, <1>2

\* CloseSession only changes the flags of one session.
LEMMA CloseSessionResult ==
    ASSUME StateType(state), NEW w, CloseSession(w)
    PROVE  StateType(state') /\ Retained(state, state') /\ state'.claims = state.claims
<1>1. /\ \A x \in DOMAIN state.sessions : state.sessions[x].high_water \in Nat
      /\ \A s \in DOMAIN state.sources : state.sources[s].current_incarnation \in Nat
  BY DEF StateType, SessionRecord, SourceRecord
<1>2. /\ StateType(state') /\ state'.claims = state.claims
      /\ state'.sources = state.sources /\ DOMAIN state'.sessions = DOMAIN state.sessions
      /\ \A x \in DOMAIN state.sessions :
            state'.sessions[x].high_water = state.sessions[x].high_water
  BY SetLiveResult, Zenon DEF CloseSession, SetLiveEffect
<1> QED
  BY <1>1, <1>2 DEF Retained

\* Ingest keeps the types and everything stored, and folds at most one record.
LEMMA IngestStepResult ==
    ASSUME StateType(state), NEW e \in Evidence, Ingest(e)
    PROVE  StateType(state') /\ Retained(state, state') /\ ClaimsStep(state, state')
<1> e \in EvidenceType
  BY EvidenceAssumption
<1> DEFINE new == ingest_locked(state, e, TRUE, TRUE).state
<1>1. state' = new
  BY DEF Ingest
<1>2. /\ StateType(new)
      /\ new.sources = state.sources
      /\ DOMAIN new.sessions = DOMAIN state.sessions
      /\ \A w \in DOMAIN state.sessions :
            new.sessions[w].high_water >= state.sessions[w].high_water
      /\ \/ new.claims = state.claims
         \/ /\ KnownSession(state, e)
            /\ new.claims = FoldedClaims(state, e, TRUE, decide(state, e))
            /\ new.sessions[OwnerOf(e)].high_water >= e.generation
  BY IngestResult, Zenon DEF IngestEffect
<1> HIDE DEF new
<1>3. Retained(state, new)
  BY <1>2 DEF Retained, StateType, SourceRecord
<1>4. ClaimsStep(state, new)
  BY <1>2, Zenon DEF ClaimsStep
<1> QED
  BY <1>1, <1>2, <1>3, <1>4

\* Every step of the registry, in one statement.
LEMMA StepResult ==
    ASSUME TypeOK, [Next]_vars
    PROVE  TypeOK' /\ Retained(state, state') /\ ClaimsStep(state, state')
<1> StateType(state)
  BY DEF TypeOK
<1>1. CASE UNCHANGED vars
  BY <1>1, RetainedRefl DEF TypeOK, vars, ClaimsStep
<1>2. ASSUME NEW o \in Openings, OpenSession(o)
      PROVE  TypeOK' /\ Retained(state, state') /\ ClaimsStep(state, state')
  BY <1>2, OpenSessionResult, Zenon DEF TypeOK, OpenSession, ClaimsStep
<1>3. ASSUME NEW w \in DOMAIN state.sessions, CloseSession(w)
      PROVE  TypeOK' /\ Retained(state, state') /\ ClaimsStep(state, state')
  BY <1>3, CloseSessionResult, Zenon DEF TypeOK, CloseSession, ClaimsStep
<1>4. ASSUME NEW e \in Evidence, Ingest(e)
      PROVE  TypeOK' /\ Retained(state, state') /\ ClaimsStep(state, state')
  <2>1. accepted' \subseteq Evidence /\ closed' \in BOOLEAN
    BY <1>4, Zenon DEF Ingest, TypeOK
  <2> QED
    BY <1>4, <2>1, IngestStepResult DEF TypeOK
<1>5. CASE Close
  BY <1>5, RetainedRefl DEF TypeOK, Close, ClaimsStep
<1> QED
  BY <1>1, <1>2, <1>3, <1>4, <1>5 DEF Next

-----------------------------------------------------------------------------
\* Every value the registry stores has its type, whatever is published to it.
THEOREM TypeCorrect == Spec => []TypeOK
<1>1. Init => TypeOK
  BY InitResult
<1>2. TypeOK /\ [Next]_vars => TypeOK'
  BY StepResult
<1> QED
  BY <1>1, <1>2, PTL DEF Spec

-----------------------------------------------------------------------------
(***************************************************************************)
(* Claims and sessions.                                                    *)
(***************************************************************************)
\* A step keeps every claim within its session and below its high water mark.
LEMMA ClaimsBelongStep ==
    ASSUME TypeOK, ClaimsBelongToSessions, [Next]_vars
    PROVE  ClaimsBelongToSessions'
<1>1. StateType(state) /\ StateType(state')
  BY StepResult DEF TypeOK
<1>2. Retained(state, state') /\ ClaimsStep(state, state')
  BY StepResult
<1>3. \A w \in DOMAIN state.sessions :
          state.sessions[w].high_water \in Nat /\ w \in DOMAIN state'.sessions
          /\ state'.sessions[w].high_water \in Nat
          /\ state'.sessions[w].high_water >= state.sessions[w].high_water
  BY <1>1, <1>2 DEF StateType, SessionRecord, Retained
<1>4. \A k \in DOMAIN state.claims :
          /\ state.claims[k].generation \in Nat
          /\ \A a \in state.claims[k].superseded : a.generation \in Nat
  BY <1>1 DEF StateType, Folded, Attestation
<1>5. ASSUME NEW k \in DOMAIN state.claims
      PROVE  /\ k.owner \in DOMAIN state'.sessions /\ k.owner[1] \in DOMAIN state'.sources
             /\ state.claims[k].generation <= state'.sessions[k.owner].high_water
             /\ \A a \in state.claims[k].superseded :
                   a.generation <= state'.sessions[k.owner].high_water
  BY <1>2, <1>3, <1>4 DEF ClaimsBelongToSessions, Retained
<1>6. CASE state'.claims = state.claims
  BY <1>5, <1>6 DEF ClaimsBelongToSessions
<1>7. ASSUME NEW e \in Evidence, KnownSession(state, e),
             state'.claims = FoldedClaims(state, e, TRUE, decide(state, e)),
             state'.sessions[OwnerOf(e)].high_water >= e.generation
      PROVE  ClaimsBelongToSessions'
  <2> e \in EvidenceType
    BY EvidenceAssumption
  <2> DEFINE change == decide(state, e)
             w == OwnerOf(e)
  <2>1. /\ w \in DOMAIN state'.sessions /\ w[1] \in DOMAIN state'.sources
        /\ e.generation \in Nat
    BY <1>2, <1>7, HeaderType DEF KnownSession, Retained, OwnerOf
  <2>2. /\ DOMAIN state'.claims = DOMAIN state.claims \cup change.writes
        /\ \A k \in change.writes \cup change.rings : k.owner = w
    BY <1>1, <1>7, FoldedKeys, ZenonT(30) DEF FoldsOwnKeys
  <2>3. /\ \A k \in change.writes :
              /\ state'.claims[k].generation = e.generation
              /\ k \in DOMAIN state.claims =>
                    state'.claims[k].superseded \subseteq
                        state.claims[k].superseded \cup {AttestationOf(state.claims[k])}
              /\ k \notin DOMAIN state.claims => state'.claims[k].superseded = {}
        /\ \A k \in DOMAIN state.claims \ change.writes :
              /\ state'.claims[k].generation = state.claims[k].generation
              /\ k \notin change.rings =>
                    state'.claims[k].superseded = state.claims[k].superseded
              /\ k \in change.rings =>
                    state'.claims[k].superseded \subseteq state.claims[k].superseded
                        \cup {[generation |-> e.generation, evidence |-> e.id]}
    <3>1. FoldEffect(state, e, change, state'.claims)
      BY <1>1, <1>7, FoldedClaimsResult, Zenon
    <3> HIDE DEF change
    <3> QED
      BY <3>1 DEF FoldEffect
  <2> HIDE DEF change
  <2>4. ASSUME NEW k \in change.writes
        PROVE  /\ k.owner \in DOMAIN state'.sessions /\ k.owner[1] \in DOMAIN state'.sources
               /\ state'.claims[k].generation <= state'.sessions[k.owner].high_water
               /\ \A a \in state'.claims[k].superseded :
                     a.generation <= state'.sessions[k.owner].high_water
    <3>1. k.owner = w
      BY <2>2
    <3>2. state'.claims[k].generation <= state'.sessions[w].high_water
      BY <1>1, <1>7, <2>1, <2>3, Zenon DEF StateType, SessionRecord
    <3>3. CASE k \in DOMAIN state.claims
      BY <1>5, <2>1, <2>3, <3>1, <3>2, <3>3 DEF AttestationOf
    <3>4. CASE k \notin DOMAIN state.claims
      BY <2>1, <2>3, <3>1, <3>2, <3>4
    <3> QED
      BY <3>3, <3>4
  <2>5. ASSUME NEW k \in DOMAIN state.claims \ change.writes
        PROVE  /\ k.owner \in DOMAIN state'.sessions /\ k.owner[1] \in DOMAIN state'.sources
               /\ state'.claims[k].generation <= state'.sessions[k.owner].high_water
               /\ \A a \in state'.claims[k].superseded :
                     a.generation <= state'.sessions[k.owner].high_water
    <3>1. CASE k \in change.rings
      <4>1. k.owner = w
        BY <2>2, <3>1
      <4>2. e.generation <= state'.sessions[w].high_water
        BY <1>1, <1>7, <2>1 DEF StateType, SessionRecord
      <4> QED
        BY <1>5, <2>3, <3>1, <4>1, <4>2
    <3>2. CASE k \notin change.rings
      BY <1>5, <2>3, <3>2
    <3> QED
      BY <3>1, <3>2
  <2> QED
    BY <2>2, <2>4, <2>5 DEF ClaimsBelongToSessions
<1> QED
  BY <1>2, <1>6, <1>7, Zenon DEF ClaimsStep

\* No claim without its session, and no claim the session's mark does not cover.
THEOREM ClaimsBelong == Spec => []ClaimsBelongToSessions
<1>1. Init => ClaimsBelongToSessions
  BY InitResult DEF ClaimsBelongToSessions
<1>2. TypeOK /\ ClaimsBelongToSessions /\ [Next]_vars => ClaimsBelongToSessions'
  BY ClaimsBelongStep
<1> QED
  BY <1>1, <1>2, TypeCorrect, PTL DEF Spec

-----------------------------------------------------------------------------
(***************************************************************************)
(* Generations.                                                            *)
(***************************************************************************)
\* A step keeps the newest accepted record of every key as its winner.
LEMMA NewestWinsStep ==
    ASSUME TypeOK, NewestGenerationWins, [Next]_vars
    PROVE  NewestGenerationWins'
<1>1. StateType(state) /\ ClaimsStep(state, state')
  BY StepResult DEF TypeOK
<1>2. CASE state'.claims = state.claims
  BY <1>2 DEF NewestGenerationWins
<1>3. ASSUME NEW e \in Evidence, KnownSession(state, e),
             state'.claims = FoldedClaims(state, e, TRUE, decide(state, e))
      PROVE  NewestGenerationWins'
  <2> e \in EvidenceType
    BY EvidenceAssumption
  <2> DEFINE change == decide(state, e)
  <2>1. FoldEffect(state, e, change, state'.claims)
    BY <1>1, <1>3, FoldedClaimsResult, Zenon
  <2>2. /\ \A k \in change.writes \cap DOMAIN state.claims :
              e.generation > state.claims[k].generation
        /\ \A k \in change.rings \cap DOMAIN state.claims :
              e.generation < state.claims[k].generation \/ k.map = "reincarnation"
    BY <1>1, StagedGenerations
  <2>3. e.generation \in Nat
    BY HeaderType
  <2> HIDE DEF change
  <2>4. ASSUME NEW k \in DOMAIN state'.claims, k.map # "reincarnation",
               NEW a \in state'.claims[k].superseded
        PROVE  a.generation < state'.claims[k].generation
    <3>1. CASE k \in change.writes /\ k \in DOMAIN state.claims
      <4>1. /\ state.claims[k].generation \in Nat
            /\ \A b \in state.claims[k].superseded :
                  b.generation \in Nat /\ b.generation < state.claims[k].generation
        BY <1>1, <2>4, <3>1 DEF StateType, Folded, Attestation, NewestGenerationWins
      <4>2. a \in state.claims[k].superseded \/ a = AttestationOf(state.claims[k])
        BY <2>1, <2>4, <3>1 DEF FoldEffect
      <4>3. state'.claims[k].generation = e.generation
        BY <2>1, <3>1 DEF FoldEffect
      <4>4. e.generation > state.claims[k].generation
        BY <2>2, <3>1
      <4> QED
        BY <2>3, <4>1, <4>2, <4>3, <4>4 DEF AttestationOf
    <3>2. CASE k \in change.writes /\ k \notin DOMAIN state.claims
      BY <2>1, <2>4, <3>2 DEF FoldEffect
    <3>3. CASE k \notin change.writes
      <4>1. k \in DOMAIN state.claims \ change.writes
        BY <2>1, <3>3 DEF FoldEffect
      <4>2. /\ state'.claims[k].generation = state.claims[k].generation
            /\ \/ a \in state.claims[k].superseded
               \/ k \in change.rings /\ a = [generation |-> e.generation, evidence |-> e.id]
        BY <2>1, <2>4, <4>1 DEF FoldEffect
      <4> QED
        BY <2>2, <2>4, <4>1, <4>2 DEF NewestGenerationWins
    <3> QED
      BY <3>1, <3>2, <3>3
  <2> QED
    BY <2>4 DEF NewestGenerationWins
<1> QED
  BY <1>1, <1>2, <1>3, Zenon DEF ClaimsStep

\* The winner of a key is the newest record its source incarnation sent for it.
THEOREM NewestWins == Spec => []NewestGenerationWins
<1>1. Init => NewestGenerationWins
  BY InitResult DEF NewestGenerationWins
<1>2. TypeOK /\ NewestGenerationWins /\ [Next]_vars => NewestGenerationWins'
  BY NewestWinsStep
<1> QED
  BY <1>1, <1>2, TypeCorrect, PTL DEF Spec

-----------------------------------------------------------------------------
(***************************************************************************)
(* Nothing is forgotten.                                                   *)
(***************************************************************************)
\* What NothingForgotten says of one step.
LEMMA ForgetsNothing ==
    ASSUME TypeOK, [Next]_vars
    PROVE  /\ Retained(state, state')
           /\ \A k \in DOMAIN state.claims :
                 /\ k \in DOMAIN state'.claims
                 /\ state'.claims[k].generation >= state.claims[k].generation
<1>1. StateType(state) /\ Retained(state, state') /\ ClaimsStep(state, state')
  BY StepResult DEF TypeOK
<1>2. \A k \in DOMAIN state.claims : state.claims[k].generation \in Nat
  BY <1>1 DEF StateType, Folded
<1>3. CASE state'.claims = state.claims
  BY <1>1, <1>2, <1>3
<1>4. ASSUME NEW e \in Evidence, KnownSession(state, e),
             state'.claims = FoldedClaims(state, e, TRUE, decide(state, e)),
             NEW k \in DOMAIN state.claims
      PROVE  /\ k \in DOMAIN state'.claims
             /\ state'.claims[k].generation >= state.claims[k].generation
  <2> e \in EvidenceType
    BY EvidenceAssumption
  <2> DEFINE change == decide(state, e)
  <2>1. FoldEffect(state, e, change, state'.claims)
    BY <1>1, <1>4, FoldedClaimsResult, Zenon
  <2>2. \A j \in change.writes \cap DOMAIN state.claims :
            e.generation > state.claims[j].generation
    BY <1>1, StagedGenerations
  <2>3. e.generation \in Nat
    BY HeaderType
  <2> HIDE DEF change
  <2>4. CASE k \in change.writes
    BY <1>2, <2>1, <2>2, <2>3, <2>4 DEF FoldEffect
  <2>5. CASE k \notin change.writes
    BY <1>2, <2>1, <2>5 DEF FoldEffect
  <2> QED
    BY <2>4, <2>5
<1> QED
  BY <1>1, <1>3, <1>4, Zenon DEF ClaimsStep

\* No step ever forgets a source, a session or a claim, or goes back to an older winner.
THEOREM NeverForgets == Spec => NothingForgotten
<1>1. TypeOK /\ [Next]_vars =>
        [/\ \A s \in DOMAIN state.sources :
               /\ s \in DOMAIN state'.sources
               /\ state'.sources[s].current_incarnation >= state.sources[s].current_incarnation
         /\ \A w \in DOMAIN state.sessions :
               /\ w \in DOMAIN state'.sessions
               /\ state'.sessions[w].high_water >= state.sessions[w].high_water
         /\ \A k \in DOMAIN state.claims :
               /\ k \in DOMAIN state'.claims
               /\ state'.claims[k].generation >= state.claims[k].generation]_vars
  BY ForgetsNothing DEF Retained
<1> QED
  BY <1>1, TypeCorrect, PTL DEF Spec, NothingForgotten

-----------------------------------------------------------------------------
(***************************************************************************)
(* The two halves of an attachment.                                        *)
(***************************************************************************)
\* What SubjectBackedByPort says of one side record.
Backed(claims, k) ==
    LET value == claims[k].value
        half == PortKey(value.port, k.owner, value.slot)
    IN  /\ half \in DOMAIN claims
        /\ claims[half].generation >= claims[k].generation
        /\ claims[half].generation = claims[k].generation =>
              /\ ~claims[half].value.empty
              /\ claims[half].value.subject = k.id

\* SubjectBackedByPort, key by key.
LEMMA BackedEverywhere ==
    SubjectBackedByPort <=>
        \A k \in DOMAIN state.claims :
            k.map = "subject" /\ state.claims[k].value.attached => Backed(state.claims, k)
BY DEF SubjectBackedByPort, Backed

\* A record that places a side at a slot speaks for that slot too, and names the side
\* as its occupant: the two halves of an attachment.
LEMMA PlacedSideHasPortHalf ==
    ASSUME NEW e \in EvidenceType, NEW k \in ClaimKeys(e),
           k.map = "subject", AssertedValue(e, k).attached
    PROVE  LET value == AssertedValue(e, k)
               half == PortKey(value.port, k.owner, value.slot)
           IN  /\ half \in ClaimKeys(e)
               /\ ~AssertedValue(e, half).empty
               /\ AssertedValue(e, half).subject = k.id
<1> USE DEF ObjectKey, EndpointKey, SubjectKey, PortKey, LifecycleKey,
            ReincarnationKey, ObjectCapKey, PortCapKey
<1>1. CASE e \in EvidenceOf("RegisterObject",
                    [object: Objects, label: Labels \cup {NoLabel}, sides: Nat])
  BY <1>1 DEF EvidenceOf, ClaimKeys
<1>2. CASE e \in EvidenceOf("RegisterEndpoint",
                    [endpoint: Endpoints, port_count: Nat, capacity: Nat])
  BY <1>2 DEF EvidenceOf, ClaimKeys
<1>3. CASE e \in EvidenceOf("Attach",
                    [subject: ObjectSide, port: Port, object_incarnation: Nat, slot: Nat])
  <2> DEFINE p == e.payload
             half == PortKey(p.port, OwnerOf(e), p.slot)
  <2>1. k = SubjectKey(p.subject, OwnerOf(e)) /\ half \in ClaimKeys(e)
    BY <1>3 DEF EvidenceOf, ClaimKeys
  <2>2. AssertedValue(e, k) = SubjectValue(p, TRUE, p.port, p.slot, NilPort)
    BY <1>3 DEF EvidenceOf, AssertedValue
  <2>3. AssertedValue(e, half) = PortValue(p, FALSE)
    BY <1>3 DEF EvidenceOf, AssertedValue
  <2> QED
    BY <2>1, <2>2, <2>3 DEF SubjectValue, PortValue
<1>4. CASE e \in EvidenceOf("Detach", [subject: ObjectSide, object_incarnation: Nat,
                                       from_port: Port \cup {NilPort}, slot: Nat])
  BY <1>4 DEF EvidenceOf, ClaimKeys, AssertedValue, SubjectValue, PortValue
<1>5. CASE e \in EvidenceOf("Move", [subject: ObjectSide, object_incarnation: Nat,
                                     from: Port, to: Port, from_slot: Nat, to_slot: Nat])
  <2> DEFINE p == e.payload
             half == PortKey(p.to, OwnerOf(e), p.to_slot)
  <2>1. k = SubjectKey(p.subject, OwnerOf(e)) /\ half \in ClaimKeys(e)
    BY <1>5 DEF EvidenceOf, ClaimKeys, MoveKeys
  <2>2. AssertedValue(e, k) = SubjectValue(p, TRUE, p.to, p.to_slot, p.from)
    BY <1>5 DEF EvidenceOf, AssertedValue
  <2>3. AssertedValue(e, half) = PortValue(p, FALSE)
    BY <1>5 DEF EvidenceOf, AssertedValue
  <2> QED
    BY <2>1, <2>2, <2>3 DEF SubjectValue, PortValue
<1>6. CASE e \in EvidenceOf("SetLifecycle", [object: Objects, object_incarnation: Nat,
                                             action: LifecycleAction])
  BY <1>6 DEF EvidenceOf, ClaimKeys
<1>7. CASE e \in EvidenceOf("ReincarnateObject", [object: Objects, from_incarnation: Nat])
  BY <1>7 DEF EvidenceOf, ClaimKeys
<1>8. CASE e \in EvidenceOf("PublishObjectCapability", [object: Objects, capability: Nat])
  BY <1>8 DEF EvidenceOf, ClaimKeys
<1>9. CASE e \in EvidenceOf("PublishPortCapability", [port: Port, capacity: Nat])
  BY <1>9 DEF EvidenceOf, ClaimKeys
<1> QED
  BY <1>1, <1>2, <1>3, <1>4, <1>5, <1>6, <1>7, <1>8, <1>9, Zenon DEF EvidenceType

\* A record that is written as the place of a side finds its port half written with it,
\* stored already, or overtaken by a newer record of the same source.
LEMMA WrittenSideBacked ==
    ASSUME NEW st, StateType(st), NEW e \in EvidenceType, NEW claims,
           FoldEffect(st, e, decide(st, e), claims),
           NEW k \in decide(st, e).writes, k.map = "subject", claims[k].value.attached
    PROVE  Backed(claims, k)
<1> DEFINE change == decide(st, e)
           value == AssertedValue(e, k)
           half == PortKey(value.port, k.owner, value.slot)
<1>1. /\ change.writes = KeysWith(st, e, "Insert") /\ KeysWith(st, e, "Collision") = {}
      /\ k \in ClaimKeys(e)
  BY StagedKeys DEF KeysWith, StagesNews
<1>2. claims[k].value = value /\ claims[k].generation = e.generation
  BY DEF FoldEffect
<1>3. /\ half \in ClaimKeys(e)
      /\ ~AssertedValue(e, half).empty /\ AssertedValue(e, half).subject = k.id
  BY <1>1, <1>2, PlacedSideHasPortHalf
<1>4. half.map = "port"
  BY DEF PortKey
<1>5. e.generation \in Nat
  BY HeaderType
<1> HIDE DEF change, value, half
<1>6. CASE half \in change.writes
  <2>1. /\ half \in DOMAIN claims /\ claims[half].generation = e.generation
        /\ claims[half].value = AssertedValue(e, half)
    BY <1>6 DEF FoldEffect, change
  <2> QED
    BY <1>2, <1>3, <1>5, <2>1 DEF Backed, half
<1>7. CASE half \notin change.writes
  <2>1. existing_outcome(st, e, half) # "Insert" /\ existing_outcome(st, e, half) # "Collision"
    BY <1>1, <1>3, <1>7 DEF KeysWith
  <2>2. half \in DOMAIN st.claims
    BY <2>1 DEF existing_outcome
  <2>3. \/ e.generation < st.claims[half].generation
        \/ /\ e.generation = st.claims[half].generation
           /\ SameContent(half, st.claims[half].value, AssertedValue(e, half))
    BY <2>1, <2>2, OutcomeByGeneration DEF OutcomeFits
  <2>4. st.claims[half].generation \in Nat
    BY <2>2 DEF StateType, Folded
  <2>5. /\ half \in DOMAIN claims /\ claims[half].generation = st.claims[half].generation
        /\ claims[half].value = st.claims[half].value
    BY <1>7, <2>2, Zenon DEF FoldEffect, change
  <2>6. e.generation = st.claims[half].generation =>
            st.claims[half].value = AssertedValue(e, half)
    BY <1>4, <1>5, <2>3, <2>4 DEF SameContent
  <2> QED
    <3>1. st.claims[half].generation >= e.generation
      BY <1>5, <2>3, <2>4
    <3> QED
      BY <1>2, <1>3, <2>5, <2>6, <3>1, Zenon DEF Backed, half
<1> QED
  BY <1>6, <1>7

\* A side record that stays keeps its port half, unless a newer record takes the slot.
LEMMA KeptSideBacked ==
    ASSUME NEW st, StateType(st), NEW e \in EvidenceType, NEW claims,
           FoldEffect(st, e, decide(st, e), claims),
           NEW k \in DOMAIN st.claims \ decide(st, e).writes, Backed(st.claims, k)
    PROVE  Backed(claims, k)
<1> DEFINE change == decide(st, e)
           value == st.claims[k].value
           half == PortKey(value.port, k.owner, value.slot)
<1>1. claims[k].value = value /\ claims[k].generation = st.claims[k].generation
  BY Zenon DEF FoldEffect
<1>2. /\ half \in DOMAIN st.claims
      /\ st.claims[half].generation >= st.claims[k].generation
      /\ st.claims[half].generation = st.claims[k].generation =>
            ~st.claims[half].value.empty /\ st.claims[half].value.subject = k.id
  BY ZenonT(30) DEF Backed
<1>3. half \in change.writes => e.generation > st.claims[half].generation
  BY <1>2, StagedGenerations, ZenonT(30)
<1>4. e.generation \in Nat
  BY HeaderType
<1> HIDE DEF change, value, half
<1>5. st.claims[half].generation \in Nat /\ st.claims[k].generation \in Nat
  BY <1>2, SMTT(30) DEF StateType, Folded
<1>6. CASE half \in change.writes
  <2>1. half \in DOMAIN claims /\ claims[half].generation = e.generation
    BY <1>6, Zenon DEF FoldEffect, change
  <2>2. /\ claims[half].generation >= claims[k].generation
        /\ claims[half].generation # claims[k].generation
    BY <1>1, <1>2, <1>3, <1>4, <1>5, <1>6, <2>1
  <2> QED
    BY <1>1, <2>1, <2>2, Zenon DEF Backed, half
<1>7. CASE half \notin change.writes
  <2>1. /\ half \in DOMAIN claims /\ claims[half].generation = st.claims[half].generation
        /\ claims[half].value = st.claims[half].value
    BY <1>2, <1>7, Zenon DEF FoldEffect, change
  <2> QED
    BY <1>1, <1>2, <2>1, Zenon DEF Backed, half
<1> QED
  BY <1>6, <1>7

\* A step keeps every attached side backed by its port.
LEMMA BackedStep ==
    ASSUME TypeOK, SubjectBackedByPort, [Next]_vars
    PROVE  SubjectBackedByPort'
<1>1. StateType(state) /\ ClaimsStep(state, state')
  BY StepResult DEF TypeOK
<1>2. CASE state'.claims = state.claims
  <2>1. \A k \in DOMAIN state'.claims :
            k.map = "subject" /\ state'.claims[k].value.attached => Backed(state'.claims, k)
    BY <1>2, BackedEverywhere
  <2> QED
    BY <2>1, Zenon DEF SubjectBackedByPort, Backed
<1>3. ASSUME NEW e \in Evidence, KnownSession(state, e),
             state'.claims = FoldedClaims(state, e, TRUE, decide(state, e)),
             NEW k \in DOMAIN state'.claims, k.map = "subject", state'.claims[k].value.attached
      PROVE  Backed(state'.claims, k)
  <2> e \in EvidenceType
    BY EvidenceAssumption
  <2>1. FoldEffect(state, e, decide(state, e), state'.claims)
    BY <1>1, <1>3, FoldedClaimsResult, Zenon
  <2>2. CASE k \in decide(state, e).writes
    <3> DEFINE claims == state'.claims
    <3>1. /\ FoldEffect(state, e, decide(state, e), claims)
          /\ k.map = "subject" /\ claims[k].value.attached
      BY <1>3, <2>1, Zenon
    <3> HIDE DEF claims
    <3>2. Backed(claims, k)
      BY <1>1, <2>2, <3>1, WrittenSideBacked
    <3> QED
      BY <3>2 DEF claims
  <2>3. CASE k \notin decide(state, e).writes
    <3>1. k \in DOMAIN state.claims \ decide(state, e).writes
      BY <1>3, <2>1, <2>3, Zenon DEF FoldEffect
    <3>2. state.claims[k].value.attached
      BY <1>3, <2>1, <3>1, Zenon DEF FoldEffect
    <3>3. Backed(state.claims, k)
      BY <1>3, <3>1, <3>2, BackedEverywhere
    <3> QED
      BY <1>1, <2>1, <3>1, <3>3, KeptSideBacked
  <2> QED
    BY <2>2, <2>3
<1>4. ASSUME NEW e \in Evidence, KnownSession(state, e),
             state'.claims = FoldedClaims(state, e, TRUE, decide(state, e))
      PROVE  SubjectBackedByPort'
  <2>1. \A k \in DOMAIN state'.claims :
            k.map = "subject" /\ state'.claims[k].value.attached => Backed(state'.claims, k)
    BY <1>3, <1>4, ZenonT(30)
  <2> QED
    BY <2>1, Zenon DEF SubjectBackedByPort, Backed
<1> QED
  BY <1>1, <1>2, <1>4, Zenon DEF ClaimsStep

\* The two halves of an attachment are never torn apart.
THEOREM HalvesTogether == Spec => []SubjectBackedByPort
<1>1. Init => SubjectBackedByPort
  BY InitResult, Zenon DEF SubjectBackedByPort
<1>2. TypeOK /\ SubjectBackedByPort /\ [Next]_vars => SubjectBackedByPort'
  BY BackedStep
<1> QED
  BY <1>1, <1>2, TypeCorrect, PTL DEF Spec

-----------------------------------------------------------------------------
(***************************************************************************)
(* The label index.                                                        *)
(***************************************************************************)
\* A step of the registry keeps the index complete.
LEMMA IndexedStep ==
    ASSUME TypeOK, LabelIndexComplete, [Next]_vars
    PROVE  LabelIndexComplete'
<1>1. StateType(state) /\ Indexed(state)
  BY DEF TypeOK, LabelIndexComplete, Indexed
<1>2. ASSUME NEW o \in Openings, OpenSession(o)
      PROVE  Indexed(state')
  <2> o.source \in SourceId /\ o.authority \in Nat /\ o.incarnation \in Nat
    BY OpeningsAssumption
  <2> DEFINE opened == apply_session_open(state, o.source, o.authority, o.incarnation)
             w == <<o.source, o.incarnation>>
  <2>1. state' = state \/ state' = set_session_live(opened, w, TRUE)
    BY <1>2, Zenon DEF OpenSession
  <2>2. /\ StateType(opened) /\ opened.claims = state.claims
        /\ opened.label_index = state.label_index
        /\ opened.label_index_valid = state.label_index_valid
    BY <1>1, SessionOpenResult, Zenon DEF OpenEffect
  <2> HIDE DEF opened, w
  <2>3. /\ set_session_live(opened, w, TRUE).claims = opened.claims
        /\ set_session_live(opened, w, TRUE).label_index = opened.label_index
        /\ set_session_live(opened, w, TRUE).label_index_valid = opened.label_index_valid
    BY <2>2, SetLiveResult, Zenon DEF SetLiveEffect
  <2>4. Indexed(set_session_live(opened, w, TRUE))
    BY <1>1, <2>2, <2>3, SameClaimsSameLabels, Zenon DEF Indexed
  <2> QED
    BY <1>1, <2>1, <2>4, Zenon
<1>3. ASSUME NEW w \in DOMAIN state.sessions, CloseSession(w)
      PROVE  Indexed(state')
  <2>1. /\ state'.claims = state.claims /\ state'.label_index = state.label_index
        /\ state'.label_index_valid = state.label_index_valid
    BY <1>1, <1>3, SetLiveResult, Zenon DEF CloseSession, SetLiveEffect
  <2> QED
    BY <1>1, <2>1, SameClaimsSameLabels DEF Indexed
<1>4. ASSUME NEW e \in Evidence, Ingest(e)
      PROVE  Indexed(state')
  <2>1. e \in EvidenceType /\ state' = ingest_locked(state, e, TRUE, TRUE).state
    BY <1>4, EvidenceAssumption DEF Ingest
  <2> QED
    BY <1>1, <2>1, IngestIndexed, Zenon
<1>5. ASSUME state' = state
      PROVE  Indexed(state')
  BY <1>1, <1>5
<1>6. \/ \E o \in Openings : OpenSession(o)
      \/ \E w \in DOMAIN state.sessions : CloseSession(w)
      \/ \E e \in Evidence : Ingest(e)
      \/ state' = state
  BY DEF Next, Close, vars
<1>7. Indexed(state')
  BY <1>2, <1>3, <1>4, <1>5, <1>6
<1> QED
  BY <1>7 DEF LabelIndexComplete, Indexed

\* A label index that is in use knows every registered label.
THEOREM LabelIndexCorrect == Spec => []LabelIndexComplete
<1>1. Init => LabelIndexComplete
  BY InitResult DEF LabelIndexComplete
<1>2. TypeOK /\ LabelIndexComplete /\ [Next]_vars => LabelIndexComplete'
  BY IndexedStep
<1> QED
  BY <1>1, <1>2, TypeCorrect, PTL DEF Spec

-----------------------------------------------------------------------------
(***************************************************************************)
(* Repeated deliveries.                                                    *)
(***************************************************************************)
\* A record that writes no key leaves every winner in place; only rings can grow.
LEMMA NoWritesSameWinners ==
    ASSUME NEW st, StateType(st), NEW e \in EvidenceType, decide(st, e).writes = {}
    PROVE  encode_provenance_image(ingest_locked(st, e, TRUE, TRUE).state)
               = encode_provenance_image(st)
<1> DEFINE change == decide(st, e)
           new == ingest_locked(st, e, TRUE, TRUE).state
           meta == MetaOf(st, e, TRUE)
<1>1. \/ new.claims = st.claims
      \/ KnownSession(st, e) /\ new.claims = FoldedClaims(st, e, TRUE, change)
  BY IngestResult, Zenon DEF IngestEffect
<1> HIDE DEF new
<1>2. CASE new.claims = st.claims
  <2>1. encode_provenance_image(new) = encode_provenance_image(st)
    BY <1>2 DEF encode_provenance_image
  <2> QED
    BY <2>1, Zenon DEF new
<1>3. CASE KnownSession(st, e) /\ new.claims = FoldedClaims(st, e, TRUE, change)
  <2>1. meta \in [generation: Nat, evidence: Nat, authority: Nat, asserted_in_lifetime: BOOLEAN]
    <3>1. st.sources[e.source].authority \in Nat
      BY <1>3 DEF StateType, SourceRecord, KnownSession
    <3> QED
      BY <3>1, HeaderType DEF MetaOf
  <2>2. change.writes = {}
    OBVIOUS
  <2> HIDE DEF change, meta
  <2>3. new.claims = [k \in DOMAIN st.claims |->
                        IF k \in change.rings THEN fold_losing(st.claims[k], meta)
                        ELSE st.claims[k]]
    BY <1>3, <2>2 DEF FoldedClaims, meta
  <2>4. ASSUME NEW k \in DOMAIN st.claims
        PROVE  /\ new.claims[k].generation = st.claims[k].generation
               /\ new.claims[k].evidence = st.claims[k].evidence
               /\ new.claims[k].authority = st.claims[k].authority
               /\ new.claims[k].value = st.claims[k].value
    <3>1. st.claims[k] \in Folded(k.map)
      BY DEF StateType
    <3>2. new.claims[k] = fold_losing(st.claims[k], meta) \/ new.claims[k] = st.claims[k]
      BY <2>3
    <3> QED
      BY <2>1, <3>1, <3>2, FoldLosingResult DEF KeepsWinner
  <2>5. DOMAIN new.claims = DOMAIN st.claims
    BY <2>3
  <2>6. encode_provenance_image(new) = encode_provenance_image(st)
    BY <2>4, <2>5 DEF encode_provenance_image
  <2> QED
    BY <2>6, Zenon DEF new
<1> QED
  BY <1>1, <1>2, <1>3, Zenon

\* Every accepted record is stored.
AcceptedStands == \A e \in accepted : Stored(state, e)

\* A step keeps what is stored and stores what it accepts.
LEMMA AcceptedStandsStep ==
    ASSUME TypeOK, AcceptedStands, [Next]_vars
    PROVE  AcceptedStands'
<1>1. StateType(state) /\ StateType(state') /\ accepted \subseteq Evidence
  BY StepResult DEF TypeOK
<1>2. Evidence \subseteq EvidenceType
  BY EvidenceAssumption
<1>3. ASSUME Grows(state, state'), NEW e \in accepted
      PROVE  Stored(state', e)
  BY <1>1, <1>2, <1>3, StoredGrows DEF AcceptedStands
<1>4. ASSUME NEW e \in Evidence, Ingest(e)
      PROVE  AcceptedStands'
  <2> DEFINE result == ingest_locked(state, e, TRUE, TRUE)
  <2>1. /\ state' = result.state
        /\ accepted' = IF is_accepted(result.disposition) THEN accepted \cup {e} ELSE accepted
    BY <1>4 DEF Ingest
  <2>2. e \in EvidenceType
    BY <1>2
  <2>3. Grows(state, result.state)
    BY <1>1, <2>2, IngestGrows, Zenon
  <2>4. is_accepted(result.disposition) => Stored(result.state, e)
    BY <1>1, <2>2, AcceptedStored, Zenon
  <2> HIDE DEF result
  <2> QED
    BY <1>3, <2>1, <2>3, <2>4 DEF AcceptedStands
<1>5. ASSUME state'.claims = state.claims, accepted' = accepted
      PROVE  AcceptedStands'
  <2>1. Grows(state, state')
    BY <1>5 DEF Grows
  <2> QED
    BY <1>3, <1>5, <2>1 DEF AcceptedStands
<1>6. ASSUME NEW o \in Openings, OpenSession(o)
      PROVE  AcceptedStands'
  BY <1>1, <1>5, <1>6, OpenSessionResult, Zenon DEF OpenSession
<1>7. ASSUME NEW w \in DOMAIN state.sessions, CloseSession(w)
      PROVE  AcceptedStands'
  BY <1>1, <1>5, <1>7, CloseSessionResult, Zenon DEF CloseSession
<1>8. CASE Close \/ UNCHANGED vars
  BY <1>5, <1>8 DEF Close, vars
<1> QED
  BY <1>4, <1>6, <1>7, <1>8 DEF Next

\* Whatever happened since a record was accepted, delivering it again changes no winner.
THEOREM RetriesHarmless == Spec => []RetryKeepsWinners
<1>1. Init => AcceptedStands
  BY DEF Init, AcceptedStands
<1>2. TypeOK /\ AcceptedStands /\ [Next]_vars => AcceptedStands'
  BY AcceptedStandsStep
<1>3. TypeOK /\ AcceptedStands => RetryKeepsWinners
  <2> SUFFICES ASSUME TypeOK, AcceptedStands, NEW e \in accepted, ~Unreached(state, e)
               PROVE  encode_provenance_image(ingest_locked(state, e, TRUE, TRUE).state)
                          = encode_provenance_image(state)
    BY Zenon DEF RetryKeepsWinners
  <2>1. StateType(state) /\ e \in EvidenceType /\ Stored(state, e)
    BY EvidenceAssumption DEF TypeOK, AcceptedStands
  <2>2. decide(state, e).writes = {}
    BY <2>1, StoredIsNoNews
  <2> QED
    BY <2>1, <2>2, NoWritesSameWinners, Zenon
<1> QED
  BY <1>1, <1>2, <1>3, TypeCorrect, PTL DEF Spec

-----------------------------------------------------------------------------
(***************************************************************************)
(* Histories.                                                              *)
(***************************************************************************)
\* A record of the set speaks for the key, with that generation and that evidence id.
Attested(records, k, generation, evidence) ==
    \E e \in records : k \in ClaimKeys(e) /\ e.generation = generation /\ e.id = evidence

\* The winner of a key and everything in its ring come from records of the set.
KeyAttested(folded, k, records) ==
    /\ Attested(records, k, folded.generation, folded.evidence)
    /\ \A a \in folded.superseded : Attested(records, k, a.generation, a.evidence)
    /\ IsFiniteSet(folded.superseded)

\* The inductive invariant behind HistoryCitesAccepted; there are finitely many keys.
ClaimsAttested(claims, records) ==
    /\ IsFiniteSet(DOMAIN claims)
    /\ \A k \in DOMAIN claims : KeyAttested(claims[k], k, records)

\* More records attest no less.
LEMMA AttestedMore ==
    ASSUME NEW folded, NEW k, NEW records, NEW more, records \subseteq more,
           KeyAttested(folded, k, records)
    PROVE  KeyAttested(folded, k, more)
BY Zenon DEF KeyAttested, Attested

\* A ring that gains at most one attested entry stays attested.
LEMMA RingAttested ==
    ASSUME NEW folded, NEW ring, NEW a, ring \subseteq folded.superseded \cup {a},
           NEW k, NEW records, KeyAttested(folded, k, records),
           Attested(records, k, a.generation, a.evidence)
    PROVE  /\ \A b \in ring : Attested(records, k, b.generation, b.evidence)
           /\ IsFiniteSet(ring)
<1>1. \A b \in ring : Attested(records, k, b.generation, b.evidence)
  BY Zenon DEF KeyAttested
<1>2. IsFiniteSet(folded.superseded \cup {a})
  BY FS_AddElement, Zenon DEF KeyAttested
<1>3. IsFiniteSet(ring)
  BY <1>2, FS_Subset, Zenon
<1> QED
  BY <1>1, <1>3, Zenon

\* A record speaks for at most three keys.
LEMMA ClaimKeysFinite ==
    ASSUME NEW e \in EvidenceType
    PROVE  IsFiniteSet(ClaimKeys(e))
<1> DEFINE w == OwnerOf(e)
           p == e.payload
<1>1. e.kind \in {"RegisterObject", "RegisterEndpoint", "Attach", "Detach", "Move",
                  "SetLifecycle", "ReincarnateObject", "PublishObjectCapability",
                  "PublishPortCapability"}
  BY Zenon DEF EvidenceType, EvidenceOf
<1>2. ASSUME NEW x, NEW y, NEW z, \A k \in ClaimKeys(e) : k \in {x, y, z}
      PROVE  IsFiniteSet(ClaimKeys(e))
  <2>1. IsFiniteSet({x}) /\ IsFiniteSet({x} \cup {y}) /\ IsFiniteSet(({x} \cup {y}) \cup {z})
    BY FS_Singleton, FS_AddElement, Zenon
  <2>2. ClaimKeys(e) \in SUBSET (({x} \cup {y}) \cup {z})
    BY <1>2, Zenon
  <2> HIDE DEF w, p
  <2> QED
    BY <2>1, <2>2, FS_Subset
<1>3. CASE e.kind = "Attach"
  <2>1. \A k \in ClaimKeys(e) : k \in {SubjectKey(p.subject, w), PortKey(p.port, w, p.slot),
                                     SubjectKey(p.subject, w)}
    BY <1>3, Zenon DEF ClaimKeys
  <2> QED
    BY <1>2, <2>1
<1>4. CASE e.kind = "Detach"
  <2>1. \A k \in ClaimKeys(e) : k \in {SubjectKey(p.subject, w), PortKey(p.from_port, w, p.slot),
                                     SubjectKey(p.subject, w)}
    BY <1>4, Zenon DEF ClaimKeys
  <2> QED
    BY <1>2, <2>1
<1>5. CASE e.kind = "Move"
  <2>1. \A k \in ClaimKeys(e) : k \in {SubjectKey(p.subject, w), PortKey(p.to, w, p.to_slot),
                                     PortKey(p.from, w, p.from_slot)}
    BY <1>5, Zenon DEF ClaimKeys, MoveKeys
  <2> QED
    BY <1>2, <2>1
<1>6. CASE e.kind \notin {"Attach", "Detach", "Move"}
  <2>1. \E x : ClaimKeys(e) = {x}
    BY <1>1, <1>6, Zenon DEF ClaimKeys
  <2> QED
    BY <2>1, FS_Singleton, Zenon
<1> QED
  BY <1>3, <1>4, <1>5, <1>6, Zenon

\* Folding a record keeps everything attested, by that record or by what was there.
LEMMA FoldedAttested ==
    ASSUME NEW st, StateType(st), NEW e \in EvidenceType, KnownSession(st, e),
           NEW live \in BOOLEAN, NEW records, ClaimsAttested(st.claims, records)
    PROVE  ClaimsAttested(FoldedClaims(st, e, live, decide(st, e)), records \cup {e})
<1> DEFINE change == decide(st, e)
           claims == FoldedClaims(st, e, live, change)
           more == records \cup {e}
           own == [generation |-> e.generation, evidence |-> e.id]
<1>1. FoldEffect(st, e, change, claims)
  BY FoldedClaimsResult, Zenon
<1>2. change.writes \subseteq ClaimKeys(e) /\ change.rings \subseteq ClaimKeys(e)
  BY FoldedKeys, Zenon DEF FoldsOwnKeys
<1>3. ASSUME NEW k \in change.writes
      PROVE  claims[k].evidence = e.id
  BY WrittenSaid, Zenon DEF Said
<1>4. ASSUME NEW k \in DOMAIN st.claims, k \notin change.writes
      PROVE  claims[k].evidence = st.claims[k].evidence
  <2>1. claims = FoldedClaims(st, e, live, change)
    OBVIOUS
  <2> HIDE DEF claims, change, own, more
  <2> QED
    BY <1>4, <2>1, UnwrittenSame
<1> HIDE DEF claims, change
<1>5. ASSUME NEW k \in ClaimKeys(e)
      PROVE  Attested(more, k, e.generation, e.id)
  BY Zenon DEF Attested
<1>6. own.generation = e.generation /\ own.evidence = e.id
  OBVIOUS
<1>7. ASSUME NEW k \in DOMAIN st.claims
      PROVE  KeyAttested(st.claims[k], k, more)
  <2>1. KeyAttested(st.claims[k], k, records) /\ records \subseteq more
    BY Zenon DEF ClaimsAttested
  <2> QED
    BY <2>1, AttestedMore, Zenon
<1> HIDE DEF more, own
<1>8. ASSUME NEW k \in change.writes
      PROVE  KeyAttested(claims[k], k, more)
  <2>1. claims[k].generation = e.generation /\ claims[k].evidence = e.id
    BY <1>1, <1>3, Zenon DEF FoldEffect
  <2>2. Attested(more, k, claims[k].generation, claims[k].evidence)
    BY <1>2, <1>5, <2>1, Zenon
  <2>3. CASE k \notin DOMAIN st.claims
    <3>1. claims[k].superseded = {}
      BY <1>1, <2>3, Zenon DEF FoldEffect
    <3> QED
      BY <2>2, <3>1, FS_EmptySet, Zenon DEF KeyAttested
  <2>4. CASE k \in DOMAIN st.claims
    <3> DEFINE a == AttestationOf(st.claims[k])
    <3>1. claims[k].superseded \subseteq st.claims[k].superseded \cup {a}
      BY <1>1, <2>4, Zenon DEF FoldEffect
    <3>2. a.generation = st.claims[k].generation /\ a.evidence = st.claims[k].evidence
      BY DEF AttestationOf
    <3> HIDE DEF a
    <3>3. KeyAttested(st.claims[k], k, more)
      BY <1>7, <2>4, Zenon
    <3>4. Attested(more, k, a.generation, a.evidence)
      BY <3>2, <3>3, Zenon DEF KeyAttested
    <3>5. /\ \A b \in claims[k].superseded : Attested(more, k, b.generation, b.evidence)
          /\ IsFiniteSet(claims[k].superseded)
      BY <3>1, <3>3, <3>4, RingAttested, Zenon
    <3> QED
      BY <2>2, <3>5, Zenon DEF KeyAttested
  <2> QED
    BY <2>3, <2>4, Zenon
<1>9. ASSUME NEW k \in DOMAIN st.claims \ change.writes
      PROVE  KeyAttested(claims[k], k, more)
  <2>1. /\ claims[k].generation = st.claims[k].generation
        /\ claims[k].evidence = st.claims[k].evidence
    BY <1>1, <1>4, Zenon DEF FoldEffect
  <2>2. KeyAttested(st.claims[k], k, more)
    BY <1>7, Zenon
  <2>3. Attested(more, k, claims[k].generation, claims[k].evidence)
    BY <2>1, <2>2, Zenon DEF KeyAttested
  <2>4. CASE k \notin change.rings
    <3>1. claims[k].superseded = st.claims[k].superseded
      BY <1>1, <2>4, Zenon DEF FoldEffect
    <3> QED
      BY <2>2, <2>3, <3>1, Zenon DEF KeyAttested
  <2>5. CASE k \in change.rings
    <3>1. claims[k].superseded \subseteq st.claims[k].superseded \cup {own}
      BY <1>1, <2>5, Zenon DEF FoldEffect, own
    <3>2. Attested(more, k, own.generation, own.evidence)
      BY <1>2, <1>5, <1>6, <2>5, Zenon
    <3>3. /\ \A b \in claims[k].superseded : Attested(more, k, b.generation, b.evidence)
          /\ IsFiniteSet(claims[k].superseded)
      BY <2>2, <3>1, <3>2, RingAttested, Zenon
    <3> QED
      BY <2>3, <3>3, Zenon DEF KeyAttested
  <2> QED
    BY <2>4, <2>5, Zenon
<1>10. DOMAIN claims = DOMAIN st.claims \cup change.writes
  BY <1>1, Zenon DEF FoldEffect
<1>11. IsFiniteSet(DOMAIN claims)
  <2>1. IsFiniteSet(DOMAIN st.claims) /\ IsFiniteSet(change.writes)
    BY <1>2, ClaimKeysFinite, FS_Subset, Zenon DEF ClaimsAttested
  <2> QED
    BY <1>10, <2>1, FS_Union, Zenon
<1>12. ClaimsAttested(claims, more)
  BY <1>8, <1>9, <1>10, <1>11, Zenon DEF ClaimsAttested
<1> QED
  BY <1>12, Zenon DEF claims, change, more

\* A record that changes the claims is accepted.
LEMMA FoldedIsAccepted ==
    ASSUME NEW st, NEW e, NEW result, result = ingest_locked(st, e, TRUE, TRUE),
           WellFormed(e), KnownSession(st, e), decide(st, e).apply
    PROVE  is_accepted(result.disposition)
<1>1. result.disposition = decide(st, e).disposition
  BY DEF ingest_locked
<1> QED
  BY <1>1, AppliedAccepted, Zenon

\* Every step keeps the claims attested by the accepted records.
LEMMA AttestedStep ==
    ASSUME TypeOK, ClaimsAttested(state.claims, accepted), [Next]_vars
    PROVE  ClaimsAttested(state'.claims, accepted')
<1>1. ASSUME state'.claims = state.claims, accepted \subseteq accepted'
      PROVE  ClaimsAttested(state'.claims, accepted')
  BY <1>1, AttestedMore, Zenon DEF ClaimsAttested
<1>2. ASSUME NEW e \in Evidence, Ingest(e)
      PROVE  ClaimsAttested(state'.claims, accepted')
  <2> DEFINE result == ingest_locked(state, e, TRUE, TRUE)
  <2>1. /\ state' = result.state
        /\ accepted' = IF is_accepted(result.disposition) THEN accepted \cup {e} ELSE accepted
    BY <1>2, Zenon DEF Ingest
  <2>2. e \in EvidenceType /\ StateType(state)
    BY EvidenceAssumption, Zenon DEF TypeOK
  <2>3. CASE NeedsAppend(state, e)
    <3>1. result.state.claims = FoldedClaims(state, e, TRUE, decide(state, e))
      BY <2>2, <2>3, AppendedClaims, Zenon
    <3>2. KnownSession(state, e) /\ is_accepted(result.disposition)
      BY <2>3, FoldedIsAccepted, Zenon DEF NeedsAppend
    <3>3. ClaimsAttested(FoldedClaims(state, e, TRUE, decide(state, e)), accepted \cup {e})
      BY <2>2, <3>2, FoldedAttested, Zenon
    <3> HIDE DEF result
    <3> QED
      BY <2>1, <3>1, <3>2, <3>3, Zenon
  <2>4. CASE ~NeedsAppend(state, e)
    <3>1. result.state.claims = state.claims
      BY <2>2, <2>4, UnappendedClaims, Zenon
    <3> HIDE DEF result
    <3>2. accepted \subseteq accepted'
      BY <2>1, Zenon
    <3> QED
      BY <1>1, <2>1, <3>1, <3>2, Zenon
  <2> QED
    BY <2>3, <2>4, Zenon
<1>3. ASSUME NEW o \in Openings, OpenSession(o)
      PROVE  ClaimsAttested(state'.claims, accepted')
  BY <1>1, <1>3, OpenSessionResult, Zenon DEF OpenSession, TypeOK
<1>4. ASSUME NEW w \in DOMAIN state.sessions, CloseSession(w)
      PROVE  ClaimsAttested(state'.claims, accepted')
  BY <1>1, <1>4, CloseSessionResult, Zenon DEF CloseSession, TypeOK
<1>5. CASE Close \/ UNCHANGED vars
  BY <1>1, <1>5, Zenon DEF Close, vars
<1> QED
  BY <1>2, <1>3, <1>4, <1>5, Zenon DEF Next

\* The maps a history is read from.
HistoryMaps == {"object", "subject", "lifecycle", "reincarnation"}

\* The object a key of one of these maps is about.
KeyObject(k) == IF k.map = "subject" THEN k.id[1] ELSE k.id

\* The record is about the object of the key.
AboutKey(e, k) ==
    /\ e.kind \notin {"RegisterEndpoint", "PublishPortCapability"}
    /\ EvidenceObject(e) = KeyObject(k)

\* A record speaks for at most one key of these maps, and is about its object.
LEMMA OneHistoryKey ==
    ASSUME NEW e \in EvidenceType, NEW k \in ClaimKeys(e), k.map \in HistoryMaps
    PROVE  /\ AboutKey(e, k)
           /\ \A j \in ClaimKeys(e) : j.map \in HistoryMaps => j = k
<1> USE DEF AboutKey, EvidenceObject, KeyObject, HistoryMaps, ObjectKey, EndpointKey, SubjectKey,
            PortKey, LifecycleKey, ReincarnationKey, ObjectCapKey, PortCapKey
<1>1. e.kind \in {"RegisterObject", "RegisterEndpoint", "Attach", "Detach", "Move",
                  "SetLifecycle", "ReincarnateObject", "PublishObjectCapability",
                  "PublishPortCapability"}
  BY Zenon DEF EvidenceType, EvidenceOf
<1>2. CASE e.kind = "Attach"
  BY <1>2 DEF ClaimKeys
<1>3. CASE e.kind = "Detach"
  BY <1>3 DEF ClaimKeys
<1>4. CASE e.kind = "Move"
  BY <1>4 DEF ClaimKeys, MoveKeys
<1>5. CASE e.kind \in {"RegisterObject", "SetLifecycle", "ReincarnateObject"}
  BY <1>5 DEF ClaimKeys
<1>6. CASE e.kind \in {"RegisterEndpoint", "PublishObjectCapability", "PublishPortCapability"}
  BY <1>6 DEF ClaimKeys
<1> QED
  BY <1>1, <1>2, <1>3, <1>4, <1>5, <1>6, Zenon

\* A finite set has a subset of every smaller size.
LEMMA SubsetOfSize ==
    ASSUME NEW S, IsFiniteSet(S), NEW n \in Nat, n <= Cardinality(S)
    PROVE  \E T \in SUBSET S : Cardinality(T) = n
<1>1. Cardinality(S) \in Nat /\ ExistsBijection(1 .. Cardinality(S), S)
  BY FS_CardinalityType
<1>2. PICK f : f \in Bijection(1 .. Cardinality(S), S)
  BY <1>1, Zenon DEF ExistsBijection
<1>3. /\ f \in [1 .. Cardinality(S) -> S]
      /\ \A i, j \in 1 .. Cardinality(S) : f[i] = f[j] => i = j
  BY <1>2 DEF Bijection, Injection, IsInjective
<1>4. 1 .. n \subseteq 1 .. Cardinality(S)
  BY <1>1
<1> DEFINE T == {f[i] : i \in 1 .. n}
           g == [i \in 1 .. n |-> f[i]]
<1>5. T \in SUBSET S
  BY <1>3, <1>4
<1>6. g \in Bijection(1 .. n, T)
  BY <1>3, <1>4 DEF Bijection, Injection, Surjection, IsInjective
<1>7. IsFiniteSet(1 .. n) /\ Cardinality(1 .. n) = n
  BY FS_Interval
<1> HIDE DEF T, g
<1>8. ExistsBijection(1 .. n, T)
  BY <1>6, Zenon DEF ExistsBijection
<1>9. Cardinality(T) = n
  BY <1>7, <1>8, FS_Bijection, Zenon
<1> QED
  BY <1>5, <1>9, Zenon

\* An event of a key that some record of the set stands for.
EventOf(st, k, v, records) ==
    \E generation, evidence :
        /\ v = Event(EventKind(st, k), k, generation, evidence)
        /\ Attested(records, k, generation, evidence)

\* The events one key contributes.
KeyEvents(st, k) ==
    {Event(EventKind(st, k), k, st.claims[k].generation, st.claims[k].evidence)}
    \cup (IF k.map \in {"object", "subject"}
          THEN {Event(EventKind(st, k), k, a.generation, a.evidence) :
                    a \in st.claims[k].superseded}
          ELSE {})

\* They are finitely many, and each stands for a record.
LEMMA KeyEventsAttested ==
    ASSUME NEW st, NEW k, NEW records, KeyAttested(st.claims[k], k, records)
    PROVE  /\ IsFiniteSet(KeyEvents(st, k))
           /\ \A v \in KeyEvents(st, k) : EventOf(st, k, v, records)
<1> DEFINE kind == EventKind(st, k)
           ring == st.claims[k].superseded
           first == Event(kind, k, st.claims[k].generation, st.claims[k].evidence)
           older == {Event(kind, k, a.generation, a.evidence) : a \in ring}
           f == [a \in ring |-> Event(kind, k, a.generation, a.evidence)]
<1>1. f \in Surjection(ring, older)
  <2> HIDE DEF kind, ring
  <2> QED
    BY Zenon DEF Surjection
<1>2. IsFiniteSet(ring)
  BY Zenon DEF KeyAttested
<1>3. KeyEvents(st, k) \subseteq older \cup {first}
  BY Zenon DEF KeyEvents
<1>4. \A v \in older \cup {first} : EventOf(st, k, v, records)
  BY Zenon DEF EventOf, KeyAttested
<1> HIDE DEF older, first, f, ring
<1>5. IsFiniteSet(older)
  BY <1>1, <1>2, FS_Surjection, Zenon
<1>6. IsFiniteSet(older \cup {first})
  BY <1>5, FS_AddElement, Zenon
<1>7. IsFiniteSet(KeyEvents(st, k))
  BY <1>3, <1>6, FS_Subset
<1> QED
  BY <1>3, <1>4, <1>7, Zenon

\* The keys a history is read from are keys of its object.
LEMMA HistoryKeysOfObject ==
    ASSUME NEW st, NEW o, NEW k \in HistoryKeys(st, o)
    PROVE  k \in DOMAIN st.claims /\ k.map \in HistoryMaps /\ KeyObject(k) = o
BY DEF HistoryKeys, KeysOf, UnfencedKeys, HistoryMaps, KeyObject

\* A history is finite, and each of its events stands for a record of a key of its object.
LEMMA HistoryAttested ==
    ASSUME NEW st, NEW o, NEW records, ClaimsAttested(st.claims, records)
    PROVE  /\ IsFiniteSet(collect_history(st, o))
           /\ \A v \in collect_history(st, o) :
                 \E k \in HistoryKeys(st, o) : EventOf(st, k, v, records)
<1> DEFINE K == HistoryKeys(st, o)
           pieces == {KeyEvents(st, k) : k \in K}
           f == [k \in K |-> KeyEvents(st, k)]
<1>1. collect_history(st, o) = UNION pieces
  BY Zenon DEF collect_history, KeyEvents
<1>2. \A k \in K : k \in DOMAIN st.claims /\ KeyAttested(st.claims[k], k, records)
  BY HistoryKeysOfObject, Zenon DEF ClaimsAttested
<1>3. IsFiniteSet(K)
  <2>1. IsFiniteSet(DOMAIN st.claims) /\ K \subseteq DOMAIN st.claims
    BY <1>2, Zenon DEF ClaimsAttested
  <2> HIDE DEF K
  <2> QED
    BY <2>1, FS_Subset
<1>4. \A k \in K : /\ IsFiniteSet(KeyEvents(st, k))
                   /\ \A v \in KeyEvents(st, k) : EventOf(st, k, v, records)
  BY <1>2, KeyEventsAttested, Zenon
<1> HIDE DEF K
<1>5. f \in Surjection(K, pieces)
  BY Zenon DEF Surjection
<1>6. \A T \in pieces : IsFiniteSet(T)
  BY <1>4, Zenon
<1>7. \A v \in UNION pieces : \E k \in K : EventOf(st, k, v, records)
  BY <1>4, Zenon
<1> HIDE DEF pieces, f
<1>8. IsFiniteSet(pieces)
  BY <1>3, <1>5, FS_Surjection, Zenon
<1>9. IsFiniteSet(UNION pieces)
  BY <1>6, <1>8, FS_UNION, Zenon
<1> QED
  BY <1>1, <1>7, <1>9, Zenon DEF K

\* What QueryHistory lists is part of the history, whatever the bound.
LEMMA ListedEvents ==
    ASSUME NEW st, NEW o, IsFiniteSet(collect_history(st, o)), NEW n \in Nat,
           NEW history \in QueryHistory(st, o, n)
    PROVE  history.events \subseteq collect_history(st, o)
<1> DEFINE events == collect_history(st, o)
           size == Cardinality(events)
           excess == Max({0, size - n})
           listed == CHOOSE T \in SUBSET events : Cardinality(T) = size - excess
<1>1. history = [events |-> listed, dropped_events |-> excess]
  BY Zenon DEF QueryHistory, Outcome, NotFound
<1>2. size \in Nat
  BY FS_CardinalityType
<1> HIDE DEF events, size
<1>3. excess \in {0, size - n} /\ excess >= 0 /\ excess >= size - n
  <2>1. \E x \in {0, size - n} : \A y \in {0, size - n} : x >= y
    BY <1>2
  <2> QED
    BY <1>2, <2>1 DEF Max
<1> HIDE DEF excess
<1>4. size - excess \in Nat /\ size - excess <= size
  BY <1>2, <1>3
<1>5. \E T \in SUBSET events : Cardinality(T) = size - excess
  BY <1>4, SubsetOfSize DEF events, size
<1>6. listed \in SUBSET events
  BY <1>5, Zenon
<1> HIDE DEF listed
<1>7. history.events = listed
  BY <1>1
<1> QED
  BY <1>6, <1>7, Zenon DEF events

\* The event of a key is about the object and stands for the record.
StandsFor(v, k, o, e) ==
    /\ k \in ClaimKeys(e) /\ Cites(v, e)
    /\ e.kind \notin {"RegisterEndpoint", "PublishPortCapability"}
    /\ EvidenceObject(e) = o
    /\ v = Event(EventKind(state, k), k, e.generation, e.id)

\* Every event of a history stands for an accepted record.
LEMMA EventCites ==
    ASSUME TypeOK, ClaimsAttested(state.claims, accepted), NEW o,
           NEW k \in HistoryKeys(state, o), NEW v, EventOf(state, k, v, accepted)
    PROVE  \E e \in accepted : StandsFor(v, k, o, e)
<1>1. PICK e \in accepted : /\ k \in ClaimKeys(e)
                            /\ v = Event(EventKind(state, k), k, e.generation, e.id)
  BY Zenon DEF EventOf, Attested
<1>2. e \in EvidenceType
  BY EvidenceAssumption, Zenon DEF TypeOK
<1>3. k.map \in HistoryMaps /\ KeyObject(k) = o
  BY HistoryKeysOfObject, Zenon
<1>4. e.kind \notin {"RegisterEndpoint", "PublishPortCapability"} /\ EvidenceObject(e) = o
  BY <1>1, <1>2, <1>3, OneHistoryKey, Zenon DEF AboutKey
<1>5. Cites(v, e)
  <2>1. k.owner = OwnerOf(e)
    BY <1>1, <1>2, ClaimKeysType, Zenon
  <2>2. /\ v.evidence = e.id /\ v.generation = e.generation
        /\ v.source = k.owner[1] /\ v.incarnation = k.owner[2]
    <3> DEFINE kind == EventKind(state, k)
    <3> HIDE DEF kind
    <3> QED
      BY <1>1 DEF Event, kind
  <2> QED
    BY <2>1, <2>2 DEF Cites, OwnerOf
<1> QED
  BY <1>1, <1>4, <1>5, Zenon DEF StandsFor

\* With distinct ids, two events of a history that cite the same record are one event.
LEMMA EventsDistinct ==
    ASSUME TypeOK, ClaimsAttested(state.claims, accepted), DistinctIds, NEW o,
           NEW j \in HistoryKeys(state, o), NEW v, EventOf(state, j, v, accepted),
           NEW k \in HistoryKeys(state, o), NEW x, EventOf(state, k, x, accepted),
           v.evidence = x.evidence, v.source = x.source
    PROVE  v = x
<1>1. PICK e \in accepted : StandsFor(v, j, o, e)
  BY EventCites, Zenon
<1>2. PICK f \in accepted : StandsFor(x, k, o, f)
  BY EventCites, Zenon
<1>3. e \in Evidence /\ f \in Evidence
  BY Zenon DEF TypeOK
<1>4. e.id = f.id /\ e.source = f.source
  <2>1. e.source = v.source /\ f.source = x.source
    BY <1>1, <1>2 DEF StandsFor, Cites, OwnerOf
  <2> QED
    BY <1>1, <1>2, <2>1, Zenon DEF StandsFor, Cites
<1>5. e = f
  BY <1>3, <1>4, Zenon DEF DistinctIds
<1>6. j.map \in HistoryMaps /\ k.map \in HistoryMaps
  BY HistoryKeysOfObject, Zenon
<1>7. j = k
  BY <1>1, <1>2, <1>3, <1>5, <1>6, OneHistoryKey, EvidenceAssumption, Zenon DEF StandsFor
<1> QED
  BY <1>1, <1>2, <1>5, <1>7, Zenon DEF StandsFor

\* The history of an object lists accepted records about that object, each of them once,
\* provided that a source gives no two records the same evidence id.
THEOREM HistoryTrue ==
    ASSUME DistinctIds
    PROVE  Spec => []HistoryCitesAccepted
<1> DEFINE IInv == ClaimsAttested(state.claims, accepted)
<1>1. Init => IInv
  <2>1. Init => DOMAIN state.claims = {}
    BY InitResult, Zenon
  <2> QED
    BY <2>1, FS_EmptySet, Zenon DEF ClaimsAttested
<1>2. TypeOK /\ IInv /\ [Next]_vars => IInv'
  BY AttestedStep, Zenon
<1>3. TypeOK /\ IInv => HistoryCitesAccepted
  <2> SUFFICES ASSUME TypeOK, IInv, NEW o \in Objects,
                      NEW history \in QueryHistory(state, o, Plenty)
               PROVE  /\ \A v \in history.events : \E e \in accepted :
                            /\ e.kind \notin {"RegisterEndpoint", "PublishPortCapability"}
                            /\ Cites(v, e) /\ EvidenceObject(e) = o
                      /\ \A v, x \in history.events :
                            (v.evidence = x.evidence /\ v.source = x.source) => v = x
    BY Zenon DEF HistoryCitesAccepted
  <2>1. Plenty \in Nat
    BY DEF Plenty
  <2>2. history.events \subseteq collect_history(state, o)
    BY <2>1, HistoryAttested, ListedEvents, Zenon
  <2>3. \A v \in history.events : \E k \in HistoryKeys(state, o) : EventOf(state, k, v, accepted)
    BY <2>2, HistoryAttested, Zenon
  <2>4. ASSUME NEW v \in history.events
        PROVE  \E e \in accepted :
                  /\ e.kind \notin {"RegisterEndpoint", "PublishPortCapability"}
                  /\ Cites(v, e) /\ EvidenceObject(e) = o
    BY <2>3, EventCites, Zenon DEF StandsFor
  <2>5. ASSUME NEW v \in history.events, NEW x \in history.events,
               v.evidence = x.evidence, v.source = x.source
        PROVE  v = x
    BY <2>3, <2>5, EventsDistinct, Zenon
  <2> QED
    BY <2>4, <2>5, Zenon
<1> QED
  BY <1>1, <1>2, <1>3, TypeCorrect, PTL DEF Spec
==================================================================================
