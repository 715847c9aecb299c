---------------------- MODULE PublishedRecords_proofs ----------------------
(***************************************************************************)
(* The publisher and its records: which calls can be on their way, what    *)
(* makes a record recorded in a state and keeps it so, and what appending  *)
(* a call makes of a list of records.                                      *)
(***************************************************************************)
EXTENDS Publishing, RegistryIngest_proofs

\* The obligations are large: the provers get more than the default time.
USE SMTT(60), ZenonT(60)

-----------------------------------------------------------------------------
(***************************************************************************)
(* The constants.                                                          *)
(***************************************************************************)
\* The script is a sequence and its records are the evidence.
LEMMA Constants ==
    /\ MaxIncarnation \in Nat /\ MaxIncarnation >= 1 /\ Publisher \in SourceId
    /\ Len(Script) \in Nat /\ DOMAIN Script = 1 .. Len(Script)
<1>1. Opening(1) \in Openings
  BY PublishingAssumption
<1>2. Publisher \in SourceId
  BY <1>1, DurableAssumption DEF Opening
<1>3. Len(Script) \in Nat /\ DOMAIN Script = 1 .. Len(Script)
  BY PublishingAssumption
<1> QED
  BY <1>2, <1>3, PublishingAssumption

\* The records and openings of an incarnation, and their fields.
LEMMA RecordFields ==
    ASSUME NEW n \in 1 .. MaxIncarnation
    PROVE  /\ Opening(n) \in Openings
           /\ Opening(n).source = Publisher /\ Opening(n).incarnation = n
           /\ \A i \in DOMAIN Script :
                 /\ Record(n, i) \in Evidence /\ Record(n, i) \in EvidenceType
                 /\ OwnerOf(Record(n, i)) = <<Publisher, n>> /\ OwnerOf(Record(n, i))[2] = n
                 /\ Record(n, i).source = Publisher /\ Record(n, i).generation = i
<1>1. Opening(n) \in Openings
  BY PublishingAssumption
<1>2. Opening(n).source = Publisher /\ Opening(n).incarnation = n
  BY DEF Opening
<1>3. ASSUME NEW i \in DOMAIN Script
      PROVE  /\ Record(n, i) \in Evidence /\ Record(n, i) \in EvidenceType
             /\ OwnerOf(Record(n, i)) = <<Publisher, n>> /\ OwnerOf(Record(n, i))[2] = n
             /\ Record(n, i).source = Publisher /\ Record(n, i).generation = i
  <2>1. Record(n, i) \in Evidence
    BY PublishingAssumption DEF Records
  <2>2. Record(n, i) \in EvidenceType
    BY <2>1, DurableAssumption
  <2> QED
    BY <2>1, <2>2 DEF Record, OwnerOf
<1> QED
  BY <1>1, <1>2, <1>3

-----------------------------------------------------------------------------
(***************************************************************************)
(* A registry that one publisher uses.                                     *)
(***************************************************************************)
\* Everything in the state was said by the publisher, under incarnation n at most.
Own(st, n) ==
    /\ \A k \in DOMAIN st.claims : k.owner[1] = Publisher /\ k.owner[2] <= n
    /\ Publisher \in DOMAIN st.sources => st.sources[Publisher].current_incarnation <= n
    /\ \A w \in DOMAIN st.sessions :
          /\ w[1] \in DOMAIN st.sources
          /\ st.sources[w[1]].current_incarnation >= w[2]

\* The object of a replacement is at the incarnation it asks for on the word of its owner.
Reached(st, e) ==
    LET k == ReincarnationKey(e.payload.object, OwnerOf(e))
    IN  /\ e.kind = "ReincarnateObject" /\ object_exists(st, e.payload.object)
        /\ k \in DOMAIN st.claims
        /\ st.claims[k].value.target >= e.payload.from_incarnation + 1

\* The record is recorded in the state.
Recorded(st, e) ==
    /\ KnownSession(st, e)
    /\ (\A k \in ClaimKeys(e) : CoveredAt(st, e, k)) \/ Reached(st, e)

\* A call of incarnation n or an earlier one.
CallOf(r, n) ==
    \E m \in 1 .. n : \/ r = OpenRecord(Opening(m))
                      \/ \E i \in DOMAIN Script : r = EvidenceRecord(Record(m, i))

\* Once incarnation n has its session, the incarnation of an object is what the
\* publisher's own record says.
LEMMA OwnIncarnation ==
    ASSUME NEW st, StateType(st), NEW n \in Nat, Own(st, n),
           <<Publisher, n>> \in DOMAIN st.sessions, NEW o \in Objects
    PROVE  LET k == ReincarnationKey(o, <<Publisher, n>>)
           IN  /\ k \notin DOMAIN st.claims => object_incarnation_of(st, o) = 1
               /\ k \in DOMAIN st.claims =>
                     /\ st.claims[k].value.target \in Nat
                     /\ object_incarnation_of(st, o) \in {1, st.claims[k].value.target}
                     /\ object_incarnation_of(st, o) >= st.claims[k].value.target
<1> DEFINE w == <<Publisher, n>>
           k == ReincarnationKey(o, w)
           mine == UnfencedKeys(st, "reincarnation", o)
<1>1. /\ Publisher \in DOMAIN st.sources /\ st.sources[Publisher].current_incarnation = n
  <2>1. /\ Publisher \in DOMAIN st.sources /\ st.sources[Publisher].current_incarnation >= n
        /\ st.sources[Publisher].current_incarnation <= n
    BY DEF Own
  <2>2. st.sources[Publisher].current_incarnation \in Nat
    BY <2>1 DEF StateType, SourceRecord
  <2> QED
    BY <2>1, <2>2
<1>2. ASSUME NEW j \in mine PROVE j = k
  <2>1. /\ j \in DOMAIN st.claims /\ j.map = "reincarnation" /\ j.id = o
        /\ ~session_is_fenced(st, j.owner)
    BY DEF UnfencedKeys, KeysOf
  <2>2. j \in ClaimKey
    BY <2>1 DEF StateType
  <2>3. /\ j = [map |-> j.map, id |-> j.id, owner |-> j.owner, slot |-> j.slot]
        /\ j.slot = 0 /\ j.owner \in Owner
    BY <2>1, <2>2 DEF ClaimKey
  <2>4. j.owner = <<Publisher, n>>
    <3>1. j.owner[1] = Publisher /\ j.owner[2] <= n
      BY <2>1 DEF Own
    <3>2. j.owner[2] \in Nat /\ j.owner = <<j.owner[1], j.owner[2]>>
      BY <2>3 DEF Owner
    <3>3. ~(n > j.owner[2])
      BY <1>1, <2>1, <3>1 DEF session_is_fenced
    <3> QED
      BY <3>1, <3>2, <3>3
  <2> QED
    BY <2>1, <2>3, <2>4 DEF ReincarnationKey
<1>3. k \in DOMAIN st.claims => k \in mine
  <2>1. ~session_is_fenced(st, <<Publisher, n>>)
    BY <1>1 DEF session_is_fenced
  <2> QED
    BY <2>1 DEF ReincarnationKey, UnfencedKeys, KeysOf
<1>4. object_incarnation_of(st, o) = Max({1} \cup {st.claims[j].value.target : j \in mine})
  BY DEF object_incarnation_of
<1>5. k \in DOMAIN st.claims => st.claims[k].value.target \in Nat
  <2>1. k.map = "reincarnation"
    BY DEF ReincarnationKey
  <2> HIDE DEF k
  <2> QED
    BY <2>1 DEF StateType, Folded, ClaimValue
<1> HIDE DEF k, w, mine
<1>6. CASE k \notin DOMAIN st.claims
  <2>1. mine = {}
    <3>1. \A j \in mine : j \in DOMAIN st.claims
      BY DEF mine, UnfencedKeys, KeysOf
    <3> QED
      BY <1>2, <1>6, <3>1
  <2>2. {1} \cup {st.claims[j].value.target : j \in mine} = {1}
    BY <2>1
  <2>3. Max({1}) = 1
    BY DEF Max
  <2> QED
    BY <1>4, <1>6, <2>2, <2>3, Zenon DEF k, w
<1>7. CASE k \in DOMAIN st.claims
  <2> DEFINE t == st.claims[k].value.target
  <2>1. mine = {k}
    BY <1>2, <1>3, <1>7
  <2>2. {1} \cup {st.claims[j].value.target : j \in mine} = {1, t}
    BY <2>1
  <2>3. t \in Nat
    BY <1>5, <1>7
  <2> HIDE DEF t
  <2>4. Max({1, t}) \in {1, t} /\ Max({1, t}) >= t
    <3>1. \E x \in {1, t} : \A y \in {1, t} : x >= y
      <4>1. CASE t >= 1
        BY <2>3, <4>1
      <4>2. CASE t < 1
        BY <2>3, <4>2
      <4> QED
        BY <2>3, <4>1, <4>2
    <3> QED
      BY <3>1 DEF Max
  <2> QED
    BY <1>4, <1>7, <2>2, <2>3, <2>4, Zenon DEF t, k, w
<1> QED
  BY <1>6, <1>7 DEF k, w

\* For a record of incarnation n, to be reached is to find the object at the incarnation
\* it asks for.
LEMMA ReachedIsAlready ==
    ASSUME NEW st, StateType(st), NEW n \in Nat, Own(st, n), NEW e \in EvidenceType,
           OwnerOf(e) = <<Publisher, n>>, KnownSession(st, e)
    PROVE  /\ Reached(st, e) => AlreadyReincarnated(st, e)
           /\ AlreadyReincarnated(st, e) /\ WellFormed(e) => Reached(st, e)
<1> DEFINE o == e.payload.object
           from == e.payload.from_incarnation
           k == ReincarnationKey(o, <<Publisher, n>>)
<1>1. <<Publisher, n>> \in DOMAIN st.sessions
  BY DEF KnownSession
<1> SUFFICES ASSUME e.kind = "ReincarnateObject"
             PROVE  /\ Reached(st, e) => AlreadyReincarnated(st, e)
                    /\ AlreadyReincarnated(st, e) /\ WellFormed(e) => Reached(st, e)
  BY Zenon DEF Reached, AlreadyReincarnated
<1>2. o \in Objects /\ from \in Nat
  <2>1. e \in EvidenceOf("ReincarnateObject", [object: Objects, from_incarnation: Nat])
    BY DEF EvidenceOf, EvidenceType
  <2> QED
    BY <2>1 DEF EvidenceOf
<1>3. /\ k \notin DOMAIN st.claims => object_incarnation_of(st, o) = 1
      /\ k \in DOMAIN st.claims =>
            /\ st.claims[k].value.target \in Nat
            /\ object_incarnation_of(st, o) \in {1, st.claims[k].value.target}
            /\ object_incarnation_of(st, o) >= st.claims[k].value.target
  BY <1>1, <1>2, OwnIncarnation, Zenon
<1>4. Reached(st, e) <=> /\ object_exists(st, o) /\ k \in DOMAIN st.claims
                         /\ st.claims[k].value.target >= from + 1
  BY DEF Reached
<1>5. AlreadyReincarnated(st, e) <=> /\ object_exists(st, o)
                                     /\ from + 1 <= object_incarnation_of(st, o)
  BY DEF AlreadyReincarnated
<1>6. WellFormed(e) => from > 0
  BY DEF WellFormed
<1> HIDE DEF o, from, k
<1>7. Reached(st, e) => AlreadyReincarnated(st, e)
  BY <1>2, <1>3, <1>4, <1>5
<1>8. AlreadyReincarnated(st, e) /\ WellFormed(e) => Reached(st, e)
  BY <1>2, <1>3, <1>4, <1>5, <1>6
<1> QED
  BY <1>7, <1>8

\* A recorded record is no news.
LEMMA RecordedIsNoNews ==
    ASSUME NEW st, StateType(st), NEW n \in Nat, Own(st, n), NEW e \in EvidenceType,
           OwnerOf(e) = <<Publisher, n>>, Recorded(st, e)
    PROVE  KnownSession(st, e) /\ decide(st, e).writes = {}
<1>1. KnownSession(st, e)
  BY DEF Recorded
<1>2. CASE \A k \in ClaimKeys(e) : CoveredAt(st, e, k)
  BY <1>1, <1>2, CoveredIsNoNews
<1>3. CASE Reached(st, e)
  BY <1>1, <1>3, ReachedIsAlready, ReachedIsNoNews
<1> QED
  BY <1>2, <1>3 DEF Recorded

\* What a state covers, every state that forgets nothing of it covers.
LEMMA CoveredGrows ==
    ASSUME NEW st, StateType(st), NEW new, StateType(new), Grows(st, new),
           NEW e \in EvidenceType, NEW k, CoveredAt(st, e, k)
    PROVE  CoveredAt(new, e, k)
<1>1. k \in DOMAIN st.claims /\ k \in DOMAIN new.claims
  BY DEF CoveredAt, Grows
<1>2. e.generation \in Nat /\ st.claims[k].generation \in Nat /\ new.claims[k].generation \in Nat
  BY <1>1, HeaderType DEF StateType, Folded
<1> QED
  BY <1>1, <1>2 DEF CoveredAt, Grows

\* A registered object stays registered.
LEMMA ExistsGrows ==
    ASSUME NEW st, NEW new, Grows(st, new), NEW o, object_exists(st, o)
    PROVE  object_exists(new, o)
BY DEF Grows, object_exists, KeysOf

\* An incarnation that was reached stays reached: its owner's record is only overwritten
\* by one that asks for more.
LEMMA IngestReached ==
    ASSUME NEW st, Sound(st), NEW n \in Nat, Own(st, n), NEW e \in EvidenceType,
           OwnerOf(e) = <<Publisher, n>>, KnownSession(st, e), Reached(st, e),
           NEW f \in EvidenceType, NEW live \in BOOLEAN, NEW durable \in BOOLEAN
    PROVE  Reached(ingest_locked(st, f, live, durable).state, e)
<1> DEFINE new == ingest_locked(st, f, live, durable).state
           change == decide(st, f)
           o == e.payload.object
           k == ReincarnationKey(o, <<Publisher, n>>)
<1>1. StateType(st)
  BY DEF Sound
<1>2. /\ e.kind = "ReincarnateObject" /\ object_exists(st, o) /\ k \in DOMAIN st.claims
      /\ st.claims[k].value.target >= e.payload.from_incarnation + 1
  BY DEF Reached
<1>3. o \in Objects /\ e.payload.from_incarnation \in Nat
  <2>1. e \in EvidenceOf("ReincarnateObject", [object: Objects, from_incarnation: Nat])
    BY <1>2, Zenon DEF EvidenceOf, EvidenceType
  <2> QED
    BY <2>1 DEF EvidenceOf
<1>4. /\ st.claims[k].value.target \in Nat
      /\ object_incarnation_of(st, o) >= st.claims[k].value.target
      /\ object_incarnation_of(st, o) \in {1, st.claims[k].value.target}
  BY <1>1, <1>2, <1>3, OwnIncarnation, Zenon DEF KnownSession
<1>5. Grows(st, new)
  BY <1>1, IngestGrows
<1>6. \/ new.claims = st.claims
      \/ KnownSession(st, f) /\ new.claims = FoldedClaims(st, f, live, change)
  BY <1>1, IngestResult, Zenon DEF IngestEffect
<1>7. KnownSession(st, f) => FoldEffect(st, f, change, FoldedClaims(st, f, live, change))
  BY <1>1, FoldedClaimsResult
<1>8. CASE k \notin change.writes \/ new.claims = st.claims
  <2> HIDE DEF new, change, k
  <2>1. k \in DOMAIN new.claims /\ new.claims[k].value = st.claims[k].value
    BY <1>2, <1>6, <1>7, <1>8, Zenon DEF FoldEffect
  <2>2. object_exists(new, o)
    BY <1>2, <1>5, ExistsGrows, ZenonT(60)
  <2> QED
    BY <1>2, <2>1, <2>2, Zenon DEF Reached, new, k
<1>9. CASE k \in change.writes /\ KnownSession(st, f)
           /\ new.claims = FoldedClaims(st, f, live, change)
  <2>1. k \in ClaimKeys(f) /\ k.map = "reincarnation" /\ k.id = o
    BY <1>1, <1>9, FoldedKeys, Zenon DEF ReincarnationKey, FoldsOwnKeys
  <2>2. /\ f.kind = "ReincarnateObject" /\ f.payload.object = o
        /\ f.payload.from_incarnation \in Nat
    <3> HIDE DEF k
    <3>1. f.kind = "ReincarnateObject"
      BY <2>1 DEF EvidenceOf, ClaimKeys, MoveKeys, ObjectKey, EndpointKey, SubjectKey,
         PortKey, LifecycleKey, ObjectCapKey, PortCapKey, EvidenceType
    <3>2. ClaimKeys(f) = {ReincarnationKey(f.payload.object, OwnerOf(f))}
      BY <3>1 DEF ClaimKeys
    <3>3. f.payload.object = o
      BY <2>1, <3>2 DEF ReincarnationKey
    <3>4. f \in EvidenceOf("ReincarnateObject", [object: Objects, from_incarnation: Nat])
      BY <3>1, Zenon DEF EvidenceOf, EvidenceType
    <3> QED
      BY <3>1, <3>3, <3>4 DEF EvidenceOf
  <2>3. ~AlreadyReincarnated(st, f)
    BY <1>9, ReachedIsNoNews
  <2>4. ~(f.payload.from_incarnation + 1 <= object_incarnation_of(st, o))
    BY <1>2, <2>2, <2>3 DEF AlreadyReincarnated
  <2>5. AssertedValue(f, k).target = f.payload.from_incarnation + 1
    BY <2>2 DEF AssertedValue
  <2>6. k \in DOMAIN new.claims /\ new.claims[k].value = AssertedValue(f, k)
    BY <1>7, <1>9, Zenon DEF FoldEffect
  <2>7. object_exists(new, o)
    BY <1>2, <1>5, ExistsGrows
  <2>8. new.claims[k].value.target >= e.payload.from_incarnation + 1
    <3> HIDE DEF new, k, o
    <3> QED
      BY <1>2, <1>3, <1>4, <2>2, <2>4, <2>5, <2>6
  <2> HIDE DEF new
  <2> QED
    BY <1>2, <2>6, <2>7, <2>8, Zenon DEF Reached, new
<1> QED
  BY <1>6, <1>8, <1>9

-----------------------------------------------------------------------------
(***************************************************************************)
(* What keeps a record recorded.                                           *)
(***************************************************************************)
\* A record of the publisher keeps the state the publisher's own.
LEMMA IngestOwn ==
    ASSUME NEW st, Sound(st), NEW n \in Nat, Own(st, n), NEW f \in EvidenceType,
           f.source = Publisher, f.incarnation <= n,
           NEW live \in BOOLEAN, NEW durable \in BOOLEAN
    PROVE  Own(ingest_locked(st, f, live, durable).state, n)
<1> DEFINE new == ingest_locked(st, f, live, durable).state
           change == decide(st, f)
<1>1. StateType(st)
  BY DEF Sound
<1>2. /\ new.sources = st.sources /\ DOMAIN new.sessions = DOMAIN st.sessions
      /\ \/ new.claims = st.claims
         \/ KnownSession(st, f) /\ new.claims = FoldedClaims(st, f, live, change)
  BY <1>1, IngestResult DEF IngestEffect
<1>3. KnownSession(st, f) =>
          /\ DOMAIN FoldedClaims(st, f, live, change) = DOMAIN st.claims \cup change.writes
          /\ \A k \in change.writes \cup change.rings : k.owner = OwnerOf(f)
  BY <1>1, FoldedKeys, Zenon DEF FoldsOwnKeys
<1>4. OwnerOf(f)[1] = Publisher /\ OwnerOf(f)[2] <= n
  BY DEF OwnerOf
<1> HIDE DEF new, change
<1>5. \A k \in DOMAIN new.claims : k.owner[1] = Publisher /\ k.owner[2] <= n
  BY <1>2, <1>3, <1>4 DEF Own
<1>6. Own(new, n)
  BY <1>2, <1>5 DEF Own
<1> QED
  BY <1>6 DEF new

\* So does a session of the publisher.
LEMMA OpenOwn ==
    ASSUME NEW st, Sound(st), NEW n \in Nat, Own(st, n), NEW authority \in Nat,
           NEW m \in Nat, m <= n
    PROVE  Own(apply_session_open(st, Publisher, authority, m), n)
<1> DEFINE new == apply_session_open(st, Publisher, authority, m)
           known == Publisher \in DOMAIN st.sources
           current == IF known /\ m <= st.sources[Publisher].current_incarnation
                      THEN st.sources[Publisher].current_incarnation ELSE m
<1>1. /\ StateType(st)
      /\ DOMAIN st.sources \subseteq SourceId
      /\ \A s \in DOMAIN st.sources : st.sources[s].current_incarnation \in Nat
      /\ \A w \in DOMAIN st.sessions : w[2] \in Nat
  BY DEF Sound, StateType, SourceRecord, Owner
<1>2. new.claims = st.claims
  <2>1. Publisher \in SourceId
    BY Constants
  <2>2. OpenEffect(st, Publisher, authority, m)
    BY <1>1, <2>1, SessionOpenResult, ZenonT(60)
  <2> QED
    BY <2>2, Zenon DEF OpenEffect
<1>3. /\ DOMAIN new.sources = DOMAIN st.sources \cup {Publisher}
      /\ new.sources[Publisher].current_incarnation = current
      /\ \A s \in DOMAIN st.sources : s # Publisher => new.sources[s] = st.sources[s]
      /\ DOMAIN new.sessions = DOMAIN st.sessions \cup {<<Publisher, m>>}
  BY <1>1 DEF apply_session_open, StateType
<1>4. /\ current \in Nat /\ current <= n /\ current >= m
      /\ known => current >= st.sources[Publisher].current_incarnation
  BY <1>1 DEF Own
<1> HIDE DEF new, current
<1>5. ASSUME NEW w \in DOMAIN new.sessions
      PROVE  w[1] \in DOMAIN new.sources /\ new.sources[w[1]].current_incarnation >= w[2]
  <2>1. CASE w = <<Publisher, m>>
    BY <1>3, <1>4, <2>1
  <2>2. CASE w \in DOMAIN st.sessions /\ w[1] = Publisher
    <3>1. known /\ st.sources[Publisher].current_incarnation >= w[2] /\ w[2] \in Nat
          /\ st.sources[Publisher].current_incarnation \in Nat
      BY <1>1, <2>2 DEF Own
    <3> QED
      BY <1>3, <1>4, <2>2, <3>1
  <2>3. CASE w \in DOMAIN st.sessions /\ w[1] # Publisher
    BY <1>3, <2>3 DEF Own
  <2> QED
    BY <1>3, <2>1, <2>2, <2>3
<1>6. Own(new, n)
  BY <1>2, <1>3, <1>4, <1>5 DEF Own
<1> QED
  BY <1>6 DEF new

\* The claims and the sessions of a state decide what is recorded in it.
LEMMA SameClaimsRecorded ==
    ASSUME NEW st, NEW new, DOMAIN new.claims = DOMAIN st.claims,
           \A k \in DOMAIN st.claims : /\ new.claims[k].generation = st.claims[k].generation
                                       /\ new.claims[k].value = st.claims[k].value,
           DOMAIN st.sources \subseteq DOMAIN new.sources,
           DOMAIN st.sessions \subseteq DOMAIN new.sessions,
           NEW e, Recorded(st, e)
    PROVE  Recorded(new, e)
<1>1. KnownSession(new, e)
  BY DEF Recorded, KnownSession
<1>2. ASSUME NEW k, CoveredAt(st, e, k) PROVE CoveredAt(new, e, k)
  BY <1>2 DEF CoveredAt
<1>3. Reached(st, e) => Reached(new, e)
  BY Zenon DEF Reached, object_exists, KeysOf
<1> QED
  BY <1>1, <1>2, <1>3 DEF Recorded

\* A record of the publisher leaves recorded what incarnation n has recorded.
LEMMA IngestRecorded ==
    ASSUME NEW st, Sound(st), NEW n \in Nat, Own(st, n), NEW e \in EvidenceType,
           OwnerOf(e) = <<Publisher, n>>, Recorded(st, e),
           NEW f \in EvidenceType, NEW live \in BOOLEAN, NEW durable \in BOOLEAN
    PROVE  Recorded(ingest_locked(st, f, live, durable).state, e)
<1> DEFINE new == ingest_locked(st, f, live, durable).state
<1>1. StateType(st) /\ StateType(new) /\ Grows(st, new)
  BY IngestResult, IngestGrows, Zenon DEF Sound, IngestEffect
<1>2. KnownSession(st, e)
  BY DEF Recorded
<1>3. KnownSession(new, e)
  BY <1>1, <1>2, IngestSameSessions DEF KnownSession
<1>4. CASE Reached(st, e)
  BY <1>2, <1>3, <1>4, IngestReached DEF Recorded
<1>5. CASE \A k \in ClaimKeys(e) : CoveredAt(st, e, k)
  <2>1. \A k \in ClaimKeys(e) : CoveredAt(new, e, k)
    <3> HIDE DEF new
    <3> QED
      BY <1>1, <1>5, CoveredGrows
  <2> QED
    BY <1>3, <2>1 DEF Recorded
<1> QED
  BY <1>4, <1>5 DEF Recorded

\* A record of incarnation n that is answered as accepted is recorded.
LEMMA AcceptedRecorded ==
    ASSUME NEW st, Sound(st), NEW n \in Nat, Own(st, n), NEW e \in EvidenceType,
           OwnerOf(e) = <<Publisher, n>>, NEW live \in BOOLEAN, NEW durable \in BOOLEAN,
           is_accepted(ingest_locked(st, e, live, durable).disposition)
    PROVE  Recorded(ingest_locked(st, e, live, durable).state, e)
<1> DEFINE new == ingest_locked(st, e, live, durable).state
<1>1. StateType(st)
  BY DEF Sound
<1>2. /\ KnownSession(st, e) /\ WellFormed(e)
      /\ AlreadyReincarnated(st, e) \/ \A k \in ClaimKeys(e) : CoveredAt(new, e, k)
  BY <1>1, AcceptedCovered
<1>3. KnownSession(new, e)
  BY <1>1, <1>2, IngestSameSessions DEF KnownSession
<1>4. CASE AlreadyReincarnated(st, e)
  <2>1. Reached(st, e)
    BY <1>1, <1>2, <1>4, ReachedIsAlready
  <2>2. Reached(new, e)
    BY <1>2, <2>1, IngestReached
  <2> QED
    BY <1>3, <2>2 DEF Recorded
<1>5. CASE \A k \in ClaimKeys(e) : CoveredAt(new, e, k)
  BY <1>3, <1>5 DEF Recorded
<1> QED
  BY <1>2, <1>4, <1>5

-----------------------------------------------------------------------------
(***************************************************************************)
(* The publisher and its connections.                                      *)
(***************************************************************************)
\* The publisher waits for a reply.
Waits == phase \in {"opening", "publishing"}

\* The call it then waits for.
CurrentCall ==
    IF phase = "opening" THEN OpenRecord(Opening(incarnation))
    ELSE EvidenceRecord(Record(incarnation, step + 1))

\* The requests are calls the publisher made.  One on a connection that holds is the one
\* it waits for, and its reply is not on the wire yet.
PublisherInv ==
    /\ incarnation \in 1 .. MaxIncarnation /\ step \in 0 .. Len(Script)
    /\ conn \in Nat /\ (~broken => conn >= 1)
    /\ phase \in {"connect", "open", "opening", "publish", "publishing", "done"}
    /\ phase = "publishing" => step < Len(Script)
    /\ \A r \in requests : r.conn \in 1 .. conn /\ CallOf(r.call, incarnation)
    /\ \A r \in requests : r.conn = conn /\ ~broken => Waits /\ reply = {} /\ r.call = CurrentCall
    /\ \A r, q \in requests : r.conn = q.conn => r = q
    /\ reply # {} => Waits /\ reply \in {{"accepted"}, {"refused"}}

\* A call of an incarnation is a call of every later one; it opens a session of the
\* publisher or carries one of its records.
LEMMA CallKnown ==
    ASSUME NEW n \in 1 .. MaxIncarnation, NEW r, CallOf(r, n)
    PROVE  /\ n + 1 <= MaxIncarnation => CallOf(r, n + 1)
           /\ CallOf(r, MaxIncarnation)
           /\ \/ /\ r.kind = "SessionOpen" /\ r = OpenRecord(r.opening)
                 /\ r.opening \in Openings /\ \E m \in 1 .. n : r.opening = Opening(m)
              \/ /\ r.kind = "Evidence" /\ r = EvidenceRecord(r.evidence)
                 /\ r.evidence \in Evidence /\ r.evidence \in EvidenceType
                 /\ \E m \in 1 .. n, i \in DOMAIN Script : r.evidence = Record(m, i)
<1>1. PICK m \in 1 .. n : \/ r = OpenRecord(Opening(m))
                          \/ \E i \in DOMAIN Script : r = EvidenceRecord(Record(m, i))
  BY DEF CallOf
<1>2. m \in 1 .. MaxIncarnation /\ n \in Nat /\ m \in 1 .. (n + 1)
  BY <1>1, Constants
<1>3. CallOf(r, n + 1) /\ CallOf(r, MaxIncarnation)
  BY <1>1, <1>2 DEF CallOf
<1>4. CASE r = OpenRecord(Opening(m))
  <2>1. r.kind = "SessionOpen" /\ r.opening = Opening(m)
    BY <1>4 DEF OpenRecord
  <2>2. Opening(m) \in Openings
    BY <1>2, RecordFields
  <2> QED
    BY <1>1, <1>3, <1>4, <2>1, <2>2, Zenon
<1>5. ASSUME NEW i \in DOMAIN Script, r = EvidenceRecord(Record(m, i))
      PROVE  /\ r.kind = "Evidence" /\ r = EvidenceRecord(r.evidence)
             /\ r.evidence \in Evidence /\ r.evidence \in EvidenceType
             /\ r.evidence = Record(m, i)
  <2>1. r.kind = "Evidence" /\ r.evidence = Record(m, i)
    BY <1>5 DEF EvidenceRecord
  <2>2. Record(m, i) \in Evidence /\ Record(m, i) \in EvidenceType
    BY <1>2, RecordFields
  <2> QED
    BY <1>5, <2>1, <2>2, Zenon
<1> QED
  BY <1>1, <1>3, <1>4, <1>5, Zenon

\* A new request is the only one on its connection.
LEMMA SendStep ==
    ASSUME PublisherInv, NEW from \in {"open", "publish"}, NEW to \in {"opening", "publishing"},
           NEW call, Send(from, to, call), CallOf(call, incarnation),
           to = "publishing" => step < Len(Script),
           call = IF to = "opening" THEN OpenRecord(Opening(incarnation))
                  ELSE EvidenceRecord(Record(incarnation, step + 1))
    PROVE  PublisherInv'
<1> DEFINE new == [conn |-> conn, call |-> call]
<1>1. /\ phase = from /\ ~broken /\ requests' = requests \cup {new} /\ phase' = to
      /\ UNCHANGED <<incarnation, step, conn, broken, reply>>
  BY DEF Send
<1>2. /\ incarnation \in 1 .. MaxIncarnation /\ step \in 0 .. Len(Script)
      /\ conn \in Nat /\ conn >= 1 /\ reply = {}
      /\ \A r \in requests : r.conn \in 1 .. conn /\ CallOf(r.call, incarnation) /\ r.conn # conn
      /\ \A r, q \in requests : r.conn = q.conn => r = q
  BY <1>1 DEF PublisherInv, Waits
<1>3. new.conn = conn /\ new.call = call /\ conn \in 1 .. conn
  BY <1>2
<1>4. Waits' /\ CurrentCall' = call
  BY <1>1 DEF Waits, CurrentCall
<1>5. \A r \in requests' : r \in requests \/ r = new
  BY <1>1
<1> HIDE DEF new
<1>6. \A r \in requests' : r.conn \in 1 .. conn /\ CallOf(r.call, incarnation)
  BY <1>2, <1>3, <1>5
<1>7. \A r \in requests' : r.conn = conn => r.call = call
  BY <1>2, <1>3, <1>5
<1>8. \A r, q \in requests' : r.conn = q.conn => r = q
  BY <1>2, <1>3, <1>5
<1> QED
  BY <1>1, <1>2, <1>4, <1>6, <1>7, <1>8 DEF PublisherInv

\* Every step keeps the publisher and its connections in order.
LEMMA PublisherInvStep == PublisherInv /\ [PublishingNext]_allVars => PublisherInv'
<1> SUFFICES ASSUME PublisherInv, [PublishingNext]_allVars
             PROVE  PublisherInv'
  OBVIOUS
<1> USE Constants
<1>1. CASE Connect
  <2>1. /\ conn' = conn + 1 /\ phase' = "open" /\ ~broken'
        /\ UNCHANGED <<incarnation, step, requests, reply>> /\ reply = {}
    BY <1>1 DEF Connect, PublisherInv, Waits
  <2>2. \A r \in requests : r.conn \in 1 .. conn'
    BY <2>1 DEF PublisherInv
  <2>3. \A r \in requests : r.conn # conn'
    BY <2>1 DEF PublisherInv
  <2> QED
    BY <2>1, <2>2, <2>3 DEF PublisherInv
<1>2. CASE CallOpenSession
  <2>1. CallOf(OpenRecord(Opening(incarnation)), incarnation)
    BY DEF CallOf, PublisherInv
  <2> QED
    BY <1>2, <2>1, SendStep DEF CallOpenSession
<1>3. CASE CallPublish
  <2>1. CallOf(EvidenceRecord(Record(incarnation, step + 1)), incarnation)
    <3>1. step + 1 \in DOMAIN Script /\ incarnation \in 1 .. incarnation
      BY <1>3 DEF CallPublish, PublisherInv
    <3> QED
      BY <3>1 DEF CallOf
  <2> QED
    BY <1>3, <2>1, SendStep DEF CallPublish
<1>4. CASE SessionOpened
  <2>1. /\ reply # {} /\ reply' = {} /\ phase' \in {"open", "publish", "done"}
        /\ UNCHANGED <<incarnation, step, conn, broken, requests>>
    BY <1>4 DEF SessionOpened, NextPhase
  <2> QED
    BY <2>1 DEF PublisherInv
<1>5. CASE Published
  <2>1. /\ reply # {} /\ reply' = {} /\ phase' \in {"publish", "done"} /\ step' \in {step, step + 1}
        /\ phase = "publishing" /\ UNCHANGED <<incarnation, conn, broken, requests>>
    BY <1>5 DEF Published, NextPhase
  <2>2. step' \in 0 .. Len(Script)
    BY <2>1 DEF PublisherInv
  <2> QED
    BY <2>1, <2>2 DEF PublisherInv
<1>6. CASE CallFails
  BY <1>6 DEF CallFails, PublisherInv
<1>7. CASE Restart
  <2>1. /\ incarnation' = incarnation + 1 /\ incarnation' <= MaxIncarnation /\ step' = 0
        /\ phase' = "connect" /\ broken' = TRUE /\ reply' = {} /\ UNCHANGED <<conn, requests>>
    BY <1>7 DEF Restart, PublisherInv
  <2>2. \A r \in requests : CallOf(r.call, incarnation')
    BY <2>1, CallKnown, Zenon DEF PublisherInv
  <2> QED
    BY <2>1, <2>2 DEF PublisherInv
<1>8. CASE \E r \in requests : Serve(r)
  <2>1. PICK r \in requests : Serve(r)
    BY <1>8
  <2>2. /\ requests' = requests \ {r} /\ UNCHANGED <<incarnation, step, phase, conn, broken>>
        /\ r.conn # conn \/ broken => reply' = reply
        /\ ~(r.conn # conn \/ broken) => reply' \in {{"accepted"}, {"refused"}}
    BY <2>1, Zenon DEF Serve
  <2>3. CASE r.conn # conn \/ broken
    BY <2>2, <2>3, Zenon DEF PublisherInv, Waits, CurrentCall
  <2>4. CASE ~(r.conn # conn \/ broken)
    <3>1. Waits /\ Waits' /\ \A q \in requests' : q.conn # conn
      BY <2>1, <2>2, <2>4 DEF PublisherInv, Waits
    <3> QED
      BY <2>2, <2>4, <3>1 DEF PublisherInv
  <2> QED
    BY <2>3, <2>4
<1>9. CASE Disconnect
  BY <1>9 DEF Disconnect, PublisherInv, Waits
<1>10. CASE \E r \in requests : Discard(r)
  BY <1>10 DEF Discard, PublisherInv, Waits, CurrentCall
<1>11. CASE Die
  BY <1>11 DEF Die, PublisherInv, Waits
<1>12. CASE UNCHANGED publisherVars
  BY <1>12 DEF publisherVars, PublisherInv, Waits, CurrentCall
<1> QED
  BY <1>1, <1>2, <1>3, <1>4, <1>5, <1>6, <1>7, <1>8, <1>9, <1>10, <1>11, <1>12
     DEF PublishingNext, PublisherStep, ServerStep, Reopen, allVars

\* Serving a request is opening a session or ingesting a record of the publisher.
LEMMA ServeIsCall ==
    ASSUME PublisherInv, NEW r \in requests, Serve(r)
    PROVE  /\ CallOf(r.call, incarnation)
           /\ \/ /\ r.call.kind = "SessionOpen" /\ r.call.opening \in Openings
                 /\ OpenSession(r.call.opening) /\ r.call = OpenRecord(r.call.opening)
              \/ /\ r.call.kind = "Evidence" /\ r.call.evidence \in Evidence
                 /\ Ingest(r.call.evidence) /\ r.call = EvidenceRecord(r.call.evidence)
<1>1. CallOf(r.call, incarnation) /\ incarnation \in 1 .. MaxIncarnation
  BY DEF PublisherInv
<1>2. \/ r.call.kind = "SessionOpen" /\ OpenSession(r.call.opening)
      \/ r.call.kind = "Evidence" /\ Ingest(r.call.evidence)
  BY Zenon DEF Serve
<1>3. \/ /\ r.call.kind = "SessionOpen" /\ r.call.opening \in Openings
         /\ r.call = OpenRecord(r.call.opening)
      \/ /\ r.call.kind = "Evidence" /\ r.call.evidence \in Evidence
         /\ r.call = EvidenceRecord(r.call.evidence)
  BY <1>1, CallKnown, Zenon
<1>4. "SessionOpen" # "Evidence"
  OBVIOUS
<1> QED
  BY <1>1, <1>2, <1>3, <1>4, Zenon

\* The publisher starts in order.
LEMMA PublisherInit == PublishingInit => PublisherInv
BY Constants DEF PublishingInit, PublisherInv

\* A connection never carries two requests, and a reply is on the wire only to a publisher
\* that waits for it: a late answer is never taken for the answer to another call.
THEOREM OneCallAtATime == PublishingSpec => []PublisherTypeOK
<1>1. PublishingInit => PublisherInv
  BY PublisherInit
<1>2. PublisherInv /\ [PublishingNext]_allVars => PublisherInv'
  BY PublisherInvStep
<1>3. PublisherInv => PublisherTypeOK
  BY DEF PublisherInv, PublisherTypeOK, Waits
<1> QED
  BY <1>1, <1>2, <1>3, PTL DEF PublishingSpec

-----------------------------------------------------------------------------
(***************************************************************************)
(* Calls in the log.                                                       *)
(***************************************************************************)
\* Replaying a call is to do it again.
LEMMA CallReplay ==
    ASSUME NEW st
    PROVE  /\ \A o : ReplayRecord(st, OpenRecord(o))
                        = apply_session_open(st, o.source, o.authority, o.incarnation)
           /\ \A e : ReplayRecord(st, EvidenceRecord(e)) = ingest_locked(st, e, FALSE, TRUE).state
<1>1. \A o : ReplayRecord(st, OpenRecord(o))
                = apply_session_open(st, o.source, o.authority, o.incarnation)
  BY DEF ReplayRecord, OpenRecord
<1>2. \A e : ReplayRecord(st, EvidenceRecord(e)) = ingest_locked(st, e, FALSE, TRUE).state
  BY DEF ReplayRecord, EvidenceRecord
<1> QED
  BY <1>1, <1>2, Zenon

\* Replaying the log after a step gives the same, or what one more call makes of it.
Moves(s, t, n) == Similar(s, t) \/ \E r : CallOf(r, n) /\ t = ReplayRecord(s, r)

\* Such a move keeps the state the publisher's own and everything recorded.
LEMMA MovesKeep ==
    ASSUME NEW n \in 1 .. MaxIncarnation, NEW s, Sound(s), Own(s, n), NEW t, Moves(s, t, n)
    PROVE  /\ Own(t, n)
           /\ \A e \in EvidenceType :
                 OwnerOf(e) = <<Publisher, n>> /\ Recorded(s, e) => Recorded(t, e)
<1>0. n \in Nat
  BY Constants
<1>1. CASE Similar(s, t)
  <2>1. Own(t, n)
    BY <1>1, Zenon DEF Own, Similar
  <2>2. \A e : Recorded(s, e) => Recorded(t, e)
    BY <1>1, SameClaimsRecorded DEF Similar, SameRecord
  <2> QED
    BY <2>1, <2>2
<1>2. CASE \E r : CallOf(r, n) /\ t = ReplayRecord(s, r)
  <2>1. PICK m \in 1 .. n : \/ t = ReplayRecord(s, OpenRecord(Opening(m)))
                            \/ \E i \in DOMAIN Script :
                                  t = ReplayRecord(s, EvidenceRecord(Record(m, i)))
    BY <1>2 DEF CallOf
  <2>2. m \in 1 .. MaxIncarnation /\ m \in Nat /\ m <= n
    BY <2>1, Constants
  <2>3. CASE t = ReplayRecord(s, OpenRecord(Opening(m)))
    <3>1. t = apply_session_open(s, Publisher, 1, m)
      <4>1. t = apply_session_open(s, Opening(m).source, Opening(m).authority,
                                   Opening(m).incarnation)
        BY <2>3, CallReplay, Zenon
      <4>2. /\ Opening(m).source = Publisher /\ Opening(m).authority = 1
            /\ Opening(m).incarnation = m
        BY DEF Opening
      <4> QED
        BY <4>1, <4>2
    <3>2. Own(t, n)
      BY <1>0, <2>2, <3>1, OpenOwn
    <3>3. Keeps(s, t) /\ t.claims = s.claims
      <4>1. Publisher \in SourceId /\ 1 \in Nat /\ m \in Nat
        BY <2>2, Constants
      <4>2. OpenEffect(s, Publisher, 1, m)
        BY <4>1, SessionOpenResult, ZenonT(60) DEF Sound
      <4>3. t.claims = s.claims
        BY <3>1, <4>2, Zenon DEF OpenEffect
      <4>4. Keeps(s, t)
        BY <3>1, <4>1, OpenKeeps, ZenonT(60)
      <4> QED
        BY <4>3, <4>4
    <3>4. \A e : Recorded(s, e) => Recorded(t, e)
      BY <3>3, SameClaimsRecorded, Zenon DEF Keeps
    <3> QED
      BY <3>2, <3>4
  <2>4. ASSUME NEW i \in DOMAIN Script, t = ReplayRecord(s, EvidenceRecord(Record(m, i)))
        PROVE  /\ Own(t, n)
               /\ \A e \in EvidenceType :
                     OwnerOf(e) = <<Publisher, n>> /\ Recorded(s, e) => Recorded(t, e)
    <3>1. t = ingest_locked(s, Record(m, i), FALSE, TRUE).state
      BY <2>4, CallReplay, Zenon
    <3>2. /\ Record(m, i) \in EvidenceType /\ Record(m, i).source = Publisher
          /\ Record(m, i).incarnation <= n
      BY <2>2, RecordFields, Zenon DEF Record
    <3>3. Own(t, n)
      BY <1>0, <3>1, <3>2, IngestOwn, Zenon
    <3>4. \A e \in EvidenceType :
             OwnerOf(e) = <<Publisher, n>> /\ Recorded(s, e) => Recorded(t, e)
      BY <1>0, <3>1, <3>2, IngestRecorded, ZenonT(60)
    <3> QED
      BY <3>3, <3>4
  <2> QED
    BY <2>1, <2>3, <2>4
<1> QED
  BY <1>1, <1>2 DEF Moves

-----------------------------------------------------------------------------
(***************************************************************************)
(* Repeated records.                                                       *)
(***************************************************************************)
\* What was said stays said when the log grows.
LEMMA SaidStays ==
    ASSUME NEW S, NEW records \in Seq(S), NEW r, NEW w, NEW g, SaidBefore(records, w, g)
    PROVE  SaidBefore(Append(records, r), w, g)
<1>1. \A x \in DOMAIN records : x \in DOMAIN Append(records, r) /\ Append(records, r)[x] = records[x]
  OBVIOUS
<1> QED
  BY <1>1, ZenonT(60) DEF SaidBefore

\* A claim is as it was or written by this call, at the generation of its record.
WrittenByCall(st, r, k) ==
    LET new == ReplayRecord(st, r)
    IN  \/ k \in DOMAIN st.claims /\ new.claims[k].generation = st.claims[k].generation
        \/ \E m \in 1 .. MaxIncarnation, i \in DOMAIN Script :
              /\ r = EvidenceRecord(Record(m, i)) /\ k.owner = OwnerOf(Record(m, i))
              /\ new.claims[k].generation = i

\* An appended call leaves the claims as they are or writes keys of its own generation.
LEMMA CallClaims ==
    ASSUME NEW st, Sound(st), NEW r, CallOf(r, MaxIncarnation),
           NEW k \in DOMAIN ReplayRecord(st, r).claims
    PROVE  WrittenByCall(st, r, k)
<1> USE DEF WrittenByCall
<1> DEFINE new == ReplayRecord(st, r)
<1>0. StateType(st)
  BY DEF Sound
<1>1. PICK m \in 1 .. MaxIncarnation :
         \/ r = OpenRecord(Opening(m))
         \/ \E i \in DOMAIN Script : r = EvidenceRecord(Record(m, i))
  BY DEF CallOf
<1>2. CASE r = OpenRecord(Opening(m))
  <2>1. Opening(m) \in [source: SourceId, authority: Nat, incarnation: Nat]
    BY RecordFields, DurableAssumption, Zenon
  <2>2. new = apply_session_open(st, Opening(m).source, Opening(m).authority, Opening(m).incarnation)
    BY <1>2, CallReplay, Zenon
  <2>3. /\ Opening(m).source \in SourceId /\ Opening(m).authority \in Nat
        /\ Opening(m).incarnation \in Nat
    BY <2>1
  <2>4. new.claims = st.claims
    <3>1. apply_session_open(st, Opening(m).source, Opening(m).authority, Opening(m).incarnation).claims
            = st.claims
      BY <1>0, <2>3, SessionOpenResult, ZenonT(60) DEF OpenEffect
    <3> QED
      BY <2>2, <3>1, Zenon
  <2> QED
    BY <2>4, Zenon
<1>3. ASSUME NEW i \in DOMAIN Script, r = EvidenceRecord(Record(m, i))
      PROVE  \/ k \in DOMAIN st.claims /\ new.claims[k].generation = st.claims[k].generation
             \/ k.owner = OwnerOf(Record(m, i)) /\ new.claims[k].generation = i
  <2> DEFINE e == Record(m, i)
             change == decide(st, e)
  <2>1. e \in EvidenceType /\ e.generation = i
    BY RecordFields, Zenon
  <2>2. new = ingest_locked(st, e, FALSE, TRUE).state
    BY <1>3, CallReplay, Zenon
  <2>3. \/ new.claims = st.claims
        \/ KnownSession(st, e) /\ new.claims = FoldedClaims(st, e, FALSE, change)
    BY <1>0, <2>1, <2>2, IngestResult, Zenon DEF IngestEffect
  <2>4. KnownSession(st, e) => FoldEffect(st, e, change, FoldedClaims(st, e, FALSE, change))
    BY <1>0, <2>1, FoldedClaimsResult, Zenon
  <2>5. KnownSession(st, e) => \A j \in change.writes : j.owner = OwnerOf(e)
    BY <1>0, <2>1, FoldedKeys, Zenon DEF FoldsOwnKeys
  <2>6. k \in DOMAIN new.claims
    OBVIOUS
  <2> HIDE DEF new, change, e
  <2>7. CASE new.claims = st.claims
    BY <2>6, <2>7, Zenon
  <2>8. CASE KnownSession(st, e) /\ FoldEffect(st, e, change, new.claims)
    BY <2>1, <2>5, <2>6, <2>8, ZenonT(60) DEF FoldEffect, e
  <2> QED
    BY <2>3, <2>4, <2>7, <2>8, ZenonT(60)
<1> QED
  BY <1>1, <1>2, <1>3, Zenon

\* The records are calls and images; the state covers every record among them, and they
\* say where each of its claims comes from.
InOrder(records, st) ==
    /\ \A x \in DOMAIN records :
          records[x].kind = "StateSnapshot" \/ CallOf(records[x], MaxIncarnation)
    /\ \A x \in DOMAIN records :
          (records[x].kind = "Evidence" /\ records[x].evidence.kind # "ReincarnateObject") =>
              \A k \in ClaimKeys(records[x].evidence) : CoveredAt(st, records[x].evidence, k)
    /\ \A k \in DOMAIN st.claims :
          /\ st.claims[k].generation <= Len(Script)
          /\ SaidBefore(records, k.owner, st.claims[k].generation)
    /\ Overtaken(records)

\* A call is appended when it opens a session or is news.
Needed(st, r) ==
    CallOf(r, MaxIncarnation) /\ (r.kind = "Evidence" => NeedsAppend(st, r.evidence))

\* A record among the calls is evidence of the publisher.
LEMMA CalledEvidence ==
    ASSUME NEW r, CallOf(r, MaxIncarnation), r.kind = "Evidence"
    PROVE  r = EvidenceRecord(r.evidence) /\ r.evidence \in EvidenceType
<1>1. MaxIncarnation \in 1 .. MaxIncarnation
  BY Constants
<1>2. "SessionOpen" # "Evidence"
  OBVIOUS
<1> QED
  BY <1>1, <1>2, CallKnown, Zenon

\* The state covers a record that was just appended to the log.
LEMMA CallCovered ==
    ASSUME NEW st, Sound(st), NEW r, Needed(st, r), r.kind = "Evidence",
           r.evidence.kind # "ReincarnateObject", NEW k \in ClaimKeys(r.evidence)
    PROVE  CoveredAt(ReplayRecord(st, r), r.evidence, k)
<1> DEFINE e == r.evidence
<1>1. r = EvidenceRecord(e) /\ e \in EvidenceType /\ NeedsAppend(st, e)
  BY CalledEvidence, Zenon DEF Needed
<1>2. ReplayRecord(st, r) = ingest_locked(st, e, FALSE, TRUE).state
  BY <1>1, CallReplay, Zenon
<1>3. StateType(st)
  BY DEF Sound
<1>4. CoveredAt(ingest_locked(st, e, FALSE, TRUE).state, e, k)
  BY <1>1, <1>3, AppliedCovered, Zenon
<1> QED
  BY <1>2, <1>4, Zenon

\* longer is q with r at its end.
Extended(q, r, longer, last) ==
    /\ longer[last] = r /\ last \in DOMAIN longer
    /\ \A x \in DOMAIN q : longer[x] = q[x]
    /\ \A x \in DOMAIN longer : x \in DOMAIN q \/ x = last
    /\ \A m, n \in DOMAIN longer : m < n => m \in DOMAIN q
    /\ \A x \in DOMAIN q : SubSeq(longer, 1, x - 1) = SubSeq(q, 1, x - 1)
    /\ SubSeq(longer, 1, last - 1) = q

\* What Append does to a sequence.
LEMMA Longer ==
    ASSUME NEW S, NEW q \in Seq(S), NEW r
    PROVE  Extended(q, r, Append(q, r), Len(q) + 1)
BY DEF Extended

\* The records say where the claims come from, after a call as before.
LEMMA CallSaid ==
    ASSUME NEW S, NEW records \in Seq(S), NEW st, Sound(st), InOrder(records, st),
           NEW r, CallOf(r, MaxIncarnation), NEW k \in DOMAIN ReplayRecord(st, r).claims
    PROVE  /\ ReplayRecord(st, r).claims[k].generation <= Len(Script)
           /\ SaidBefore(Append(records, r), k.owner, ReplayRecord(st, r).claims[k].generation)
<1> DEFINE g == ReplayRecord(st, r).claims[k].generation
<1>1. \/ k \in DOMAIN st.claims /\ g = st.claims[k].generation
      \/ \E m \in 1 .. MaxIncarnation, i \in DOMAIN Script :
            r = EvidenceRecord(Record(m, i)) /\ k.owner = OwnerOf(Record(m, i)) /\ g = i
  <2>1. WrittenByCall(st, r, k)
    BY CallClaims, Zenon
  <2> QED
    BY <2>1, Zenon DEF WrittenByCall
<1> HIDE DEF g
<1>2. CASE k \in DOMAIN st.claims /\ g = st.claims[k].generation
  <2>1. g <= Len(Script) /\ SaidBefore(records, k.owner, g)
    BY <1>2, Zenon DEF InOrder
  <2>2. SaidBefore(Append(records, r), k.owner, g)
    BY <2>1, SaidStays, Zenon
  <2> QED
    BY <2>1, <2>2, Zenon DEF g
<1>3. ASSUME NEW m \in 1 .. MaxIncarnation, NEW i \in DOMAIN Script,
             r = EvidenceRecord(Record(m, i)), k.owner = OwnerOf(Record(m, i)), g = i
      PROVE  g <= Len(Script) /\ SaidBefore(Append(records, r), k.owner, g)
  <2>1. OwnerOf(Record(m, i))[2] = m
    BY RecordFields, Zenon
  <2>2. k.owner[2] = m
    BY <1>3, <2>1, Zenon
  <2>3. g <= Len(Script)
    BY <1>3, Constants
  <2>4. Len(records) + 1 \in DOMAIN Append(records, r) /\ Append(records, r)[Len(records) + 1] = r
    BY Longer, Zenon DEF Extended
  <2>5. Append(records, r)[Len(records) + 1] = EvidenceRecord(Record(k.owner[2], g))
    BY <1>3, <2>2, <2>4, Zenon
  <2> QED
    BY <2>3, <2>4, <2>5, Zenon DEF SaidBefore
<1> QED
  BY <1>1, <1>2, <1>3, Zenon DEF g

\* A record that is appended again was overtaken.
LEMMA RepeatOvertaken ==
    ASSUME NEW records, NEW st, Sound(st), InOrder(records, st),
           NEW x \in DOMAIN records, records[x].kind = "Evidence",
           records[x].evidence.kind # "ReincarnateObject", Needed(st, records[x])
    PROVE  \E newer \in records[x].evidence.generation + 1 .. Len(Script) :
              SaidBefore(records, OwnerOf(records[x].evidence), newer)
<1> DEFINE e == records[x].evidence
<1>1. e \in EvidenceType /\ NeedsAppend(st, e) /\ StateType(st)
  BY CalledEvidence, Zenon DEF Needed, Sound
<1>2. \A k \in ClaimKeys(e) : CoveredAt(st, e, k)
  BY Zenon DEF InOrder
<1>3. PICK k \in DOMAIN st.claims : k.owner = OwnerOf(e) /\ st.claims[k].generation > e.generation
  BY <1>1, <1>2, RepeatIsOvertaken, ZenonT(60)
<1>4. /\ st.claims[k].generation <= Len(Script)
      /\ SaidBefore(records, OwnerOf(e), st.claims[k].generation)
  BY <1>3, Zenon DEF InOrder
<1>5. e.generation \in Nat
  BY <1>1, HeaderType, Zenon
<1>6. st.claims[k].generation \in Nat
  BY <1>1 DEF StateType, Folded
<1> HIDE DEF e
<1>7. st.claims[k].generation \in e.generation + 1 .. Len(Script)
  BY <1>3, <1>4, <1>5, <1>6, Constants
<1> QED
  BY <1>4, <1>7, Zenon DEF e

\* An image is the durable part of a state.
LEMMA ImageFields ==
    ASSUME NEW st, NEW i
    PROVE  /\ ImageRecord(st, i).kind = "StateSnapshot"
           /\ ImageRecord(st, i).image.claims = clear_volatile(st).claims
BY DEF ImageRecord

\* Appending a call that is needed keeps the records in order.
LEMMA CallInOrder ==
    ASSUME NEW S, NEW records \in Seq(S), NEW st, Sound(st), InOrder(records, st),
           NEW r, Needed(st, r), Sound(ReplayRecord(st, r)), Grows(st, ReplayRecord(st, r))
    PROVE  InOrder(Append(records, r), ReplayRecord(st, r))
<1> DEFINE longer == Append(records, r)
           new == ReplayRecord(st, r)
           last == Len(records) + 1
<1>1. Extended(records, r, longer, last)
  BY Longer, Zenon
<1>2. StateType(st) /\ StateType(new) /\ Grows(st, new) /\ CallOf(r, MaxIncarnation)
  BY Zenon DEF Sound, Needed
<1>3. ASSUME NEW k \in DOMAIN new.claims
      PROVE  /\ new.claims[k].generation <= Len(Script)
             /\ SaidBefore(longer, k.owner, new.claims[k].generation)
  BY <1>2, CallSaid, ZenonT(60)
<1>4. ASSUME r.kind = "Evidence", r.evidence.kind # "ReincarnateObject",
             NEW k \in ClaimKeys(r.evidence)
      PROVE  CoveredAt(new, r.evidence, k)
  BY <1>4, CallCovered, Zenon
<1> HIDE DEF longer, new, last
<1>5. /\ \A x \in DOMAIN longer : x \in DOMAIN records \/ x = last
      /\ longer[last] = r /\ \A x \in DOMAIN records : longer[x] = records[x]
  BY <1>1, Zenon DEF Extended
<1>6. \A x \in DOMAIN longer :
         longer[x].kind = "StateSnapshot" \/ CallOf(longer[x], MaxIncarnation)
  BY <1>5, <1>2, Zenon DEF InOrder
<1>7. ASSUME NEW x \in DOMAIN longer, longer[x].kind = "Evidence",
             longer[x].evidence.kind # "ReincarnateObject", NEW k \in ClaimKeys(longer[x].evidence)
      PROVE  CoveredAt(new, longer[x].evidence, k)
  <2>1. CASE x \in DOMAIN records
    <3>1. longer[x] = records[x]
      BY <1>5, <2>1, Zenon
    <3>2. CoveredAt(st, longer[x].evidence, k)
      BY <1>7, <2>1, <3>1, Zenon DEF InOrder
    <3>3. "Evidence" # "StateSnapshot"
      OBVIOUS
    <3>4. longer[x].evidence \in EvidenceType
      BY <1>6, <1>7, <3>3, CalledEvidence, Zenon
    <3> QED
      BY <1>2, <3>2, <3>4, CoveredGrows, Zenon
  <2>2. CASE x = last
    BY <1>5, <1>4, <1>7, <2>2, Zenon
  <2> QED
    BY <1>5, <2>1, <2>2, Zenon
<1>8. ASSUME NEW m \in DOMAIN longer, NEW n \in DOMAIN longer, m < n, longer[m] = longer[n],
              longer[n].kind = "Evidence", longer[n].evidence.kind # "ReincarnateObject"
       PROVE  \E newer \in longer[n].evidence.generation + 1 .. Len(Script) :
                 SaidBefore(SubSeq(longer, 1, n - 1), OwnerOf(longer[n].evidence), newer)
  <2>1. m \in DOMAIN records
    BY <1>1, <1>8, Zenon DEF Extended
  <2>2. longer[m] = records[m]
    BY <1>5, <2>1, Zenon
  <2>3. CASE n \in DOMAIN records
    <3>1. longer[n] = records[n] /\ SubSeq(longer, 1, n - 1) = SubSeq(records, 1, n - 1)
      BY <1>1, <2>3, Zenon DEF Extended
    <3>2. Overtaken(records)
      BY Zenon DEF InOrder
    <3> QED
      BY <1>8, <2>1, <2>2, <2>3, <3>1, <3>2, Zenon DEF Overtaken
  <2>4. CASE n = last
    <3>1. records[m] = r /\ longer[n] = r
      BY <1>5, <1>8, <2>2, <2>4, Zenon
    <3>2. \E newer \in records[m].evidence.generation + 1 .. Len(Script) :
             SaidBefore(records, OwnerOf(records[m].evidence), newer)
      BY <1>8, <2>1, <3>1, RepeatOvertaken, Zenon
    <3> QED
      BY <1>1, <2>4, <3>1, <3>2, Zenon DEF Extended
  <2> QED
    BY <1>5, <2>3, <2>4, Zenon
<1>9. Overtaken(longer)
  BY <1>8, Zenon DEF Overtaken
<1>10. InOrder(longer, new)
  BY <1>3, <1>6, <1>7, <1>9, Zenon DEF InOrder
<1> QED
  BY <1>10, Zenon DEF longer, new

\* An image says where every claim of it comes from.
LEMMA ImageInOrder ==
    ASSUME NEW st, Sound(st), NEW i, NEW replayed, Similar(st, replayed),
           \A k \in DOMAIN st.claims : st.claims[k].generation <= Len(Script)
    PROVE  InOrder(<<ImageRecord(st, i)>>, replayed)
<1> DEFINE records == <<ImageRecord(st, i)>>
<1>1. DOMAIN records = {1} /\ records[1] = ImageRecord(st, i)
  OBVIOUS
<1>2. /\ ImageRecord(st, i).kind = "StateSnapshot"
      /\ ImageRecord(st, i).image.claims = clear_volatile(st).claims
  BY ImageFields, Zenon
<1>3. Similar(st, clear_volatile(st))
  BY ClearedResult, Zenon
<1> HIDE DEF records
<1>4. ASSUME NEW k \in DOMAIN replayed.claims
      PROVE  /\ k \in DOMAIN st.claims /\ k \in DOMAIN clear_volatile(st).claims
             /\ replayed.claims[k].generation = st.claims[k].generation
             /\ clear_volatile(st).claims[k].generation = st.claims[k].generation
  BY <1>3, Zenon DEF Similar, SameRecord
<1>5. ASSUME NEW k \in DOMAIN replayed.claims
      PROVE  SaidBefore(records, k.owner, replayed.claims[k].generation)
  <2>1. 1 \in DOMAIN records /\ records[1].kind = "StateSnapshot"
    BY <1>1, <1>2
  <2>2. records[1].image.claims = clear_volatile(st).claims
    BY <1>1, <1>2, Zenon
  <2>3. /\ k \in DOMAIN records[1].image.claims
        /\ records[1].image.claims[k].generation = replayed.claims[k].generation
    BY <1>4, <2>2, Zenon
  <2> QED
    BY <2>1, <2>3, Zenon DEF SaidBefore
<1>6. ASSUME NEW k \in DOMAIN replayed.claims PROVE replayed.claims[k].generation <= Len(Script)
  BY <1>4, Zenon
<1>7. \A x \in DOMAIN records : records[x].kind = "StateSnapshot" /\ records[x].kind # "Evidence"
  BY <1>1, <1>2, Zenon
<1>8. Overtaken(records)
  BY <1>7, Zenon DEF Overtaken
<1>9. InOrder(records, replayed)
  BY <1>5, <1>6, <1>7, <1>8, Zenon DEF InOrder
<1> QED
  BY <1>9, Zenon DEF records
=============================================================================
