------------------------- MODULE DurableRegistry_proofs -------------------------
(***************************************************************************)
(* What the log is good for, whatever is published, fails to be appended,  *)
(* is compacted or dies in between: a later Open can decode every record   *)
(* in it, replaying it rebuilds what memory holds, and what was            *)
(* acknowledged stands.                                                    *)
(***************************************************************************)
EXTENDS DurableRegistry, RegistryIngest_proofs, FiniteSetTheorems

\* The obligations are large: the provers get more than the default time.
USE SMTT(60), ZenonT(60)

-----------------------------------------------------------------------------
(***************************************************************************)
(* Every record can be read back.                                          *)
(***************************************************************************)
Readable(r) == r.kind # "StateSnapshot" => Decodes(r)

\* The records of the file, committed or not, come from a set of readable ones.
FileReadable ==
    \E S : /\ \A r \in S : Readable(r)
           /\ log \in Seq(S) /\ tail \in Seq(S)

-----------------------------------------------------------------------------
\* decode_evidence refuses nothing that validate_evidence_shape accepts.
LEMMA ValidDecodes ==
    ASSUME NEW e \in Evidence, WellFormed(e)
    PROVE  Readable(EvidenceRecord(e))
<1>1. decode_evidence(e)
  <2> DEFINE p == e.payload
  <2>1. /\ e.incarnation > 0 /\ e.generation > 0
        /\ e.kind = "RegisterObject" => p.sides \in 1 .. MaxSides
        /\ e.kind = "RegisterEndpoint" =>
              p.port_count \in 1 .. MaxPorts /\ p.capacity \in 1 .. MaxSlots
        /\ e.kind \in IncarnationKinds => p.object_incarnation > 0
        /\ e.kind = "ReincarnateObject" => p.from_incarnation > 0
        /\ e.kind = "PublishPortCapability" => p.capacity \in 1 .. MaxSlots
    BY DEF WellFormed
  <2> QED
    BY <2>1, Zenon DEF decode_evidence
<1> QED
    BY <1>1 DEF Readable, Decodes, EvidenceRecord

\* What an append can write, now or as the process dies.
LEMMA AppendsReadable ==
    /\ \A e \in Evidence : NeedsAppend(state, e) => Readable(EvidenceRecord(e))
    /\ \A o \in Openings :
          opens(open_disposition(state, o.source, o.authority, o.incarnation)) =>
              Readable(OpenRecord(o))
    /\ \A w : Readable(CloseRecord(w))
    /\ \A st, i : Readable(ImageRecord(st, i))
<1>1. \A e \in Evidence : NeedsAppend(state, e) => Readable(EvidenceRecord(e))
    BY ValidDecodes DEF NeedsAppend
<1>2. ASSUME NEW o \in Openings,
             opens(open_disposition(state, o.source, o.authority, o.incarnation))
      PROVE  Readable(OpenRecord(o))
  <2>1. o.incarnation \in Nat /\ o.incarnation # 0
    BY <1>2, DurableAssumption DEF opens, open_disposition
  <2> QED
    BY <2>1 DEF Readable, Decodes, OpenRecord
<1>3. \A w : Readable(CloseRecord(w))
    BY DEF Readable, Decodes, CloseRecord
<1>4. \A st, i : Readable(ImageRecord(st, i))
    BY DEF Readable, ImageRecord
<1> QED
    BY <1>1, <1>2, <1>3, <1>4

\* A readable record keeps the file readable, appended or left behind by a failure.
LEMMA WriteReadable ==
    ASSUME FileReadable, NEW r, Readable(r), Commit(r) \/ FailedAppend(r)
    PROVE  FileReadable'
<1>1. PICK S : /\ \A x \in S : Readable(x)
               /\ log \in Seq(S) /\ tail \in Seq(S)
    BY DEF FileReadable
<1> DEFINE T == S \cup {r}
<1>2. \A x \in T : Readable(x)
    BY <1>1
<1>3. log \in Seq(T) /\ tail \in Seq(T) /\ << >> \in Seq(T) /\ <<r>> \in Seq(T)
    BY <1>1
<1>4. log' \in Seq(T) /\ tail' \in Seq(T)
  <2>1. Append(log, r) \in Seq(T)
    BY <1>3
  <2> HIDE DEF T
  <2>2. CASE Commit(r)
    BY <1>3, <2>1, <2>2 DEF Commit
  <2>3. CASE FailedAppend(r)
    BY <1>3, <2>3, Zenon DEF FailedAppend
  <2> QED
    BY <2>2, <2>3
<1> QED
    BY <1>2, <1>4, Zenon DEF FileReadable, Readable, Decodes

\* Every step keeps the file readable.
LEMMA StepReadable == FileReadable /\ [Next]_vars => FileReadable'
<1> SUFFICES ASSUME FileReadable, [Next]_vars PROVE FileReadable'
    OBVIOUS
<1>0. ASSUME UNCHANGED <<log, tail>> PROVE FileReadable'
    BY <1>0 DEF FileReadable
<1>1. CASE OpenNew
    BY <1>1, AppendsReadable, WriteReadable DEF OpenNew
<1>2. CASE OpenExisting
  <2>1. PICK S : /\ \A x \in S : Readable(x)
                 /\ log \in Seq(S) /\ tail \in Seq(S)
    BY DEF FileReadable
  <2>2. log \o tail \in Seq(S) /\ << >> \in Seq(S)
    BY <2>1
  <2>3. log' \in {log, log \o tail} /\ tail' = << >>
    BY <1>2, Zenon DEF OpenExisting
  <2>4. log' \in Seq(S) /\ tail' \in Seq(S)
    BY <2>1, <2>2, <2>3, Zenon
  <2> QED
    BY <2>1, <2>4, Zenon DEF FileReadable
<1>3. ASSUME NEW o \in Openings, OpenSession(o) PROVE FileReadable'
    BY <1>0, <1>3, AppendsReadable, WriteReadable, Zenon DEF OpenSession
<1>4. ASSUME NEW w \in DOMAIN state.sessions, CloseSession(w) PROVE FileReadable'
    BY <1>4, AppendsReadable, WriteReadable, Zenon DEF CloseSession
<1>5. ASSUME NEW e \in Evidence, Ingest(e) PROVE FileReadable'
  <2>1. \/ UNCHANGED <<log, tail>>
        \/ /\ NeedsAppend(state, e)
           /\ Commit(EvidenceRecord(e)) \/ FailedAppend(EvidenceRecord(e))
    BY <1>5 DEF Ingest
  <2> QED
    BY <1>0, <2>1, AppendsReadable, WriteReadable
<1>6. CASE Compact
  <2> DEFINE r == ImageRecord(state, id)
             S == {r}
  <2>1. Readable(r)
    BY AppendsReadable
  <2>2. log' = <<r>> /\ tail' = << >>
    BY <1>6 DEF Compact
  <2>3. \A x \in S : Readable(x)
    BY <2>1
  <2>4. <<r>> \in Seq(S) /\ << >> \in Seq(S)
    <3> HIDE DEF r
    <3> QED
        OBVIOUS
  <2>5. log' \in Seq(S) /\ tail' \in Seq(S)
    BY <2>2, <2>4, Zenon
  <2> HIDE DEF S
  <2> QED
    BY <2>3, <2>5, Zenon DEF FileReadable
<1>7. CASE Crash
  <2>1. log' = log /\ (tail' = tail \/ \E r \in InFlight : tail' = <<r>>)
    BY <1>7, Zenon DEF Crash
  <2>2. CASE tail' = tail
    BY <1>0, <2>1, <2>2
  <2>3. ASSUME NEW r \in InFlight, tail' = <<r>> PROVE FileReadable'
    <3>1. Readable(r)
        BY AppendsReadable DEF InFlight
    <3>2. PICK S : (\A x \in S : Readable(x)) /\ log \in Seq(S)
        BY DEF FileReadable
    <3> DEFINE T == S \cup {r}
    <3>3. (\A x \in T : Readable(x)) /\ log \in Seq(T) /\ <<r>> \in Seq(T)
        BY <3>1, <3>2
    <3> HIDE DEF T
    <3>4. log' \in Seq(T) /\ tail' \in Seq(T)
        BY <2>1, <2>3, <3>3, Zenon
    <3> QED
        BY <3>3, <3>4, Zenon DEF FileReadable
  <2> QED
    BY <2>1, <2>2, <2>3
<1>8. CASE UNCHANGED vars
    BY <1>0, <1>8 DEF vars
<1> QED
    BY <1>1, <1>2, <1>3, <1>4, <1>5, <1>6, <1>7, <1>8 DEF Next

\* Whatever was published, failed or interrupted, the log holds no session or evidence
\* record that the visitor of Registry::Open refuses.
THEOREM LogReadable == Spec => []AppendedDecodes
<1>1. Init => FileReadable
  <2> SUFFICES ASSUME Init PROVE FileReadable
    OBVIOUS
  <2>1. log \in Seq({}) /\ tail \in Seq({})
    BY DEF Init
  <2> QED
    BY <2>1, Zenon DEF FileReadable
<1>2. FileReadable => AppendedDecodes
  <2> SUFFICES ASSUME FileReadable, NEW n \in DOMAIN (log \o tail)
               PROVE  Readable((log \o tail)[n])
    BY DEF AppendedDecodes, Readable
  <2>1. PICK S : /\ \A x \in S : Readable(x)
                 /\ log \in Seq(S) /\ tail \in Seq(S)
    BY DEF FileReadable
  <2>2. log \o tail \in Seq(S)
    BY <2>1
  <2>3. (log \o tail)[n] \in S
    BY <2>2
  <2> QED
    BY <2>1, <2>3
<1> QED
    BY <1>1, <1>2, StepReadable, PTL DEF Spec

-----------------------------------------------------------------------------
(***************************************************************************)
(* Replay, record by record.                                               *)
(***************************************************************************)
\* f lists the states that replaying the first n records goes through.
Run(f, records, n) ==
    f = [i \in 0 .. n |-> IF i = 0 THEN EmptyState ELSE ReplayNext(f[i - 1], records[i])]

\* ReplayNext is ReplayRecord.
LEMMA ReplayNextIsRecord == ASSUME NEW st, NEW r PROVE ReplayNext(st, r) = ReplayRecord(st, r)
<1> DEFINE new == ReplayRecord(st, r)
<1>1. {ReplayRecord(before, r) : before \in {st}} = {new}
  OBVIOUS
<1>2. ReplayNext(st, r) = CHOOSE x \in {new} : x = x
  BY <1>1 DEF ReplayNext
<1> HIDE DEF new
<1>3. (CHOOSE x \in {new} : x = x) = new
  OBVIOUS
<1> QED
  BY <1>2, <1>3 DEF new

\* A run of the first n records exists, whatever they are.
LEMMA RunExists ==
    ASSUME NEW records, NEW n \in Nat
    PROVE  \E f : Run(f, records, n)
<1> DEFINE missing == {m \in Nat : ~\E f : Run(f, records, m)}
<1> SUFFICES ASSUME missing # {} PROVE FALSE
  OBVIOUS
<1>1. PICK m \in missing : \A j \in missing : m <= j
  BY LeastNatural, Zenon
<1>2. CASE m = 0
  <2> DEFINE f == [i \in {0} |-> EmptyState]
  <2>1. f = [i \in 0 .. 0 |-> IF i = 0 THEN EmptyState ELSE ReplayNext(f[i - 1], records[i])]
    OBVIOUS
  <2>2. Run(f, records, 0)
    BY <2>1 DEF Run
  <2> QED
    BY <1>1, <1>2, <2>2
<1>3. CASE m # 0
  <2>1. m - 1 \in Nat /\ m - 1 \notin missing
    BY <1>1, <1>3
  <2>2. PICK f : Run(f, records, m - 1)
    BY <2>1
  <2> DEFINE g == [i \in 0 .. m |-> IF i = m THEN ReplayNext(f[m - 1], records[m]) ELSE f[i]]
  <2>3. /\ \A i \in 0 .. m - 1 : f[i] = IF i = 0 THEN EmptyState
                                        ELSE ReplayNext(f[i - 1], records[i])
    BY <2>2 DEF Run
  <2>4. /\ \A i \in 0 .. m - 1 : g[i] = f[i]
        /\ g[m] = ReplayNext(f[m - 1], records[m])
        /\ DOMAIN g = 0 .. m /\ g = [i \in 0 .. m |-> g[i]]
    OBVIOUS
  <2> HIDE DEF g
  <2>5. ASSUME NEW i \in 0 .. m
        PROVE  g[i] = IF i = 0 THEN EmptyState ELSE ReplayNext(g[i - 1], records[i])
    <3>1. CASE i = m
      <4>1. m - 1 \in 0 .. m - 1
        BY <2>1
      <4>2. g[m - 1] = f[m - 1]
        BY <2>4, <4>1, Zenon
      <4> QED
        BY <1>3, <2>4, <3>1, <4>2
    <3>2. CASE i # m
      <4>1. i \in 0 .. m - 1 /\ (i # 0 => i - 1 \in 0 .. m - 1)
        BY <1>1, <3>2
      <4> QED
        BY <2>3, <2>4, <4>1, Zenon
    <3> QED
      BY <3>1, <3>2
  <2>6. Run(g, records, m)
    BY <2>4, <2>5, Zenon DEF Run
  <2> QED
    BY <1>1, <2>6
<1> QED
  BY <1>2, <1>3

\* Two runs over sequences that begin alike go through the same states.
LEMMA RunsAgree ==
    ASSUME NEW r, NEW s, NEW f, NEW g, NEW m \in Nat, NEW n \in Nat,
           Run(f, r, m), Run(g, s, n), NEW last \in Nat, last <= m, last <= n,
           \A i \in 1 .. last : r[i] = s[i]
    PROVE  f[last] = g[last]
<1> DEFINE apart == {j \in Nat : j <= last /\ f[j] # g[j]}
<1> SUFFICES ASSUME apart # {} PROVE FALSE
  BY DEF apart
<1>1. PICK j \in apart : \A i \in apart : j <= i
  BY LeastNatural, Zenon
<1>2. /\ f[j] = IF j = 0 THEN EmptyState ELSE ReplayNext(f[j - 1], r[j])
      /\ g[j] = IF j = 0 THEN EmptyState ELSE ReplayNext(g[j - 1], s[j])
  <2>1. j \in 0 .. m /\ j \in 0 .. n
    BY <1>1
  <2> QED
    BY <2>1 DEF Run
<1>3. j # 0
  BY <1>1, <1>2
<1>4. j - 1 \in Nat /\ j - 1 \notin apart /\ j - 1 <= last
  BY <1>1, <1>3
<1>5. f[j - 1] = g[j - 1] /\ r[j] = s[j]
  BY <1>1, <1>3, <1>4
<1> QED
  BY <1>1, <1>2, <1>3, <1>5

\* The states of the model's replay are a run.
LEMMA ReplayedByRun ==
    ASSUME NEW records
    PROVE  Replayed(records) = (CHOOSE f : Run(f, records, Len(records)))[Len(records)]
BY DEF Replayed, Run

\* Replaying nothing gives the empty state.
LEMMA ReplayedEmpty == Replayed(<< >>) = EmptyState
<1>1. PICK f : Run(f, << >>, 0)
  BY RunExists
<1> DEFINE g == CHOOSE f_1 : Run(f_1, << >>, 0)
<1>2. Run(g, << >>, 0)
  BY <1>1
<1>3. Replayed(<< >>) = g[0]
  BY ReplayedByRun
<1> HIDE DEF g
<1> QED
  BY <1>2, <1>3 DEF Run

\* One more record is one more step.
LEMMA ReplayedAppend ==
    ASSUME NEW S, NEW records \in Seq(S), NEW r
    PROVE  Replayed(Append(records, r)) = ReplayRecord(Replayed(records), r)
<1> DEFINE n == Len(records)
           longer == Append(records, r)
           f == CHOOSE x : Run(x, records, n)
           g == CHOOSE x : Run(x, longer, n + 1)
<1>1. /\ n \in Nat /\ Len(longer) = n + 1 /\ longer[n + 1] = r
      /\ \A i \in 1 .. n : records[i] = longer[i]
  <2>1. records \in Seq(S \cup {r}) /\ r \in S \cup {r}
    OBVIOUS
  <2> QED
    BY <2>1
<1> HIDE DEF n, longer
<1>2. Run(f, records, n)
  BY <1>1, RunExists, Zenon
<1>3. Run(g, longer, n + 1)
  BY <1>1, RunExists
<1>4. Replayed(records) = f[n] /\ Replayed(longer) = g[n + 1]
  BY <1>1, ReplayedByRun DEF n
<1> HIDE DEF f, g
<1>5. f[n] = g[n]
  BY <1>1, <1>2, <1>3, RunsAgree
<1>6. g[n + 1] = ReplayNext(g[n], longer[n + 1])
  <2>1. n + 1 \in 0 .. n + 1 /\ n + 1 # 0 /\ (n + 1) - 1 = n
    BY <1>1
  <2> QED
    BY <1>3, <2>1 DEF Run
<1> QED
  BY <1>1, <1>4, <1>5, <1>6, ReplayNextIsRecord DEF longer

-----------------------------------------------------------------------------
(***************************************************************************)
(* What one record of the log does.                                        *)
(***************************************************************************)
\* The records appended after the file was created, compactions apart.
Entry(r) ==
    \/ \E o \in Openings : r = OpenRecord(o)
    \/ \E w : r = CloseRecord(w)
    \/ \E e \in Evidence : r = EvidenceRecord(e)

\* The visitor of Registry::Open, one case per kind of record.
LEMMA ReplayCases ==
    ASSUME NEW st
    PROVE  /\ \A o : ReplayRecord(st, OpenRecord(o))
                        = apply_session_open(st, o.source, o.authority, o.incarnation)
           /\ \A w : ReplayRecord(st, CloseRecord(w)) = set_session_live(st, w, FALSE)
           /\ \A e : ReplayRecord(st, EvidenceRecord(e)) = ingest_locked(st, e, FALSE, TRUE).state
<1>1. \A o : ReplayRecord(st, OpenRecord(o))
                = apply_session_open(st, o.source, o.authority, o.incarnation)
  BY DEF ReplayRecord, OpenRecord
<1>2. \A w : ReplayRecord(st, CloseRecord(w)) = set_session_live(st, w, FALSE)
  BY DEF ReplayRecord, CloseRecord
<1>3. \A e : ReplayRecord(st, EvidenceRecord(e)) = ingest_locked(st, e, FALSE, TRUE).state
  BY DEF ReplayRecord, EvidenceRecord
<1> QED
  BY <1>1, <1>2, <1>3, Zenon

\* Replaying an entry keeps a state sound and forgets nothing.
LEMMA EntryKeeps ==
    ASSUME NEW st, Sound(st), NEW r, Entry(r)
    PROVE  Sound(ReplayRecord(st, r)) /\ Keeps(st, ReplayRecord(st, r))
<1>1. ASSUME NEW o \in Openings, r = OpenRecord(o)
      PROVE  Sound(ReplayRecord(st, r)) /\ Keeps(st, ReplayRecord(st, r))
  <2>1. ReplayRecord(st, r) = apply_session_open(st, o.source, o.authority, o.incarnation)
    BY <1>1, ReplayCases, Zenon
  <2>2. o.source \in SourceId /\ o.authority \in Nat /\ o.incarnation \in Nat
    BY DurableAssumption
  <2> DEFINE new == apply_session_open(st, o.source, o.authority, o.incarnation)
  <2>3. Sound(new) /\ Keeps(st, new)
    BY <2>2, OpenKeeps
  <2> QED
    BY <2>1, <2>3, Zenon
<1>2. ASSUME NEW w, r = CloseRecord(w)
      PROVE  Sound(ReplayRecord(st, r)) /\ Keeps(st, ReplayRecord(st, r))
  <2>1. ReplayRecord(st, r) = set_session_live(st, w, FALSE)
    BY <1>2, ReplayCases, Zenon
  <2>2. Sound(set_session_live(st, w, FALSE)) /\ Keeps(st, set_session_live(st, w, FALSE))
    BY FlagsKeep, Zenon
  <2> QED
    BY <2>1, <2>2, Zenon
<1>3. ASSUME NEW e \in Evidence, r = EvidenceRecord(e)
      PROVE  Sound(ReplayRecord(st, r)) /\ Keeps(st, ReplayRecord(st, r))
  <2>1. ReplayRecord(st, r) = ingest_locked(st, e, FALSE, TRUE).state
    BY <1>3, ReplayCases, Zenon
  <2>2. e \in EvidenceType
    BY DurableAssumption
  <2>3. /\ Sound(ingest_locked(st, e, FALSE, TRUE).state)
        /\ Keeps(st, ingest_locked(st, e, FALSE, TRUE).state)
    BY <2>2, IngestKeeps, Zenon
  <2> QED
    BY <2>1, <2>3, Zenon
<1> QED
  BY <1>1, <1>2, <1>3 DEF Entry

\* Replaying the image of a state rebuilds the state, whatever came before it.
LEMMA ImageReplay ==
    ASSUME NEW st, Sound(st), NEW base, Sound(base), NEW i
    PROVE  LET new == ReplayRecord(base, ImageRecord(st, i))
           IN  Sound(new) /\ Similar(st, new)
<1> DEFINE new == ReplayRecord(base, ImageRecord(st, i))
           cleared == clear_volatile(st)
<1>1. Sound(cleared) /\ Similar(st, cleared) /\ st.sources = cleared.sources
  BY ClearedResult DEF Similar
<1>2. new = [base EXCEPT !.sources = st.sources, !.sessions = cleared.sessions,
                         !.claims = cleared.claims, !.label_index_valid = FALSE]
  BY Zenon DEF ReplayRecord, ImageRecord
<1> HIDE DEF cleared, new
<1>3. new = [sources |-> cleared.sources, sessions |-> cleared.sessions,
             claims |-> cleared.claims, label_index |-> base.label_index,
             label_index_valid |-> FALSE]
  BY <1>1, <1>2, ZenonT(60) DEF Sound, StateType
<1>4. StateType(new) /\ Indexed(new)
  BY <1>1, <1>3 DEF Sound, StateType, Indexed
<1>5. Similar(st, new)
  BY <1>1, <1>3 DEF Similar
<1> QED
  BY <1>4, <1>5 DEF Sound, new

-----------------------------------------------------------------------------
(***************************************************************************)
(* Memory and log.                                                         *)
(***************************************************************************)
\* A log that replays to a sound state.
LogSound(records) == (\E S : records \in Seq(S)) /\ Sound(Replayed(records))

\* What a failed append can have left: one entry, or the image of a registry whose
\* creation failed.
TailKnown(records, rest) ==
    \/ rest = << >>
    \/ \E r : rest = <<r>> /\ Entry(r)
    \/ \E i : rest = <<ImageRecord(EmptyState, i)>> /\ records = << >>

\* An acknowledged record stands in a state.
Stands(st, r) ==
    \/ \E o \in Openings :
          /\ r = OpenRecord(o)
          /\ o.source \in DOMAIN st.sources
          /\ st.sources[o.source].current_incarnation >= o.incarnation
    \/ \E e \in Evidence : r = EvidenceRecord(e) /\ KnownSession(st, e) /\ Stored(st, e)

AllStand(st, records) == \A r \in records : Stands(st, r)

\* Memory is similar to what the log replays to, where every acknowledged record stands.
DurableInv ==
    /\ Sound(state) /\ (~up => state = EmptyState)
    /\ (up => created) /\ (~created => log = << >>)
    /\ LogSound(log) /\ TailKnown(log, tail)
    /\ up => Similar(Replayed(log), state)
    /\ AllStand(Replayed(log), acked)

-----------------------------------------------------------------------------
\* What stands in a state stands in every state that forgets nothing of it.
LEMMA StandsKept ==
    ASSUME NEW st, Sound(st), NEW new, Sound(new), Keeps(st, new), NEW records, AllStand(st, records)
    PROVE  AllStand(new, records)
<1> SUFFICES ASSUME NEW r \in records PROVE Stands(new, r)
  BY DEF AllStand
<1>1. Stands(st, r)
  BY DEF AllStand
<1>2. ASSUME NEW o \in Openings, r = OpenRecord(o), o.source \in DOMAIN st.sources,
             st.sources[o.source].current_incarnation >= o.incarnation
      PROVE  Stands(new, r)
  <2>1. o.incarnation \in Nat
    BY DurableAssumption
  <2>2. /\ o.source \in DOMAIN new.sources
        /\ new.sources[o.source].current_incarnation >= st.sources[o.source].current_incarnation
    BY <1>2 DEF Keeps
  <2>3. /\ new.sources[o.source].current_incarnation \in Nat
        /\ st.sources[o.source].current_incarnation \in Nat
    BY <1>2, <2>2 DEF Sound, StateType, SourceRecord
  <2>4. new.sources[o.source].current_incarnation >= o.incarnation
    BY <1>2, <2>1, <2>2, <2>3
  <2> QED
    BY <1>2, <2>2, <2>4, Zenon DEF Stands
<1>3. ASSUME NEW e \in Evidence, r = EvidenceRecord(e), KnownSession(st, e), Stored(st, e)
      PROVE  Stands(new, r)
  <2>1. KnownSession(new, e)
    BY <1>3, Zenon DEF KnownSession, Keeps
  <2>2. e \in EvidenceType
    BY DurableAssumption
  <2>3. Stored(new, e)
    BY <1>3, <2>2, StoredGrows, Zenon DEF Keeps, Sound
  <2> QED
    BY <1>3, <2>1, <2>3, Zenon DEF Stands
<1> QED
  BY <1>1, <1>2, <1>3, Zenon DEF Stands

\* One more entry in the log.
LEMMA EntryAppended ==
    ASSUME NEW records, LogSound(records), NEW r, Entry(r)
    PROVE  /\ LogSound(Append(records, r))
           /\ Replayed(Append(records, r)) = ReplayRecord(Replayed(records), r)
           /\ Keeps(Replayed(records), Replayed(Append(records, r)))
<1>1. PICK S : records \in Seq(S)
  BY DEF LogSound
<1>2. Replayed(Append(records, r)) = ReplayRecord(Replayed(records), r)
  BY <1>1, ReplayedAppend, Zenon
<1>3. Append(records, r) \in Seq(S \cup {r})
  BY <1>1
<1>4. /\ Sound(ReplayRecord(Replayed(records), r))
      /\ Keeps(Replayed(records), ReplayRecord(Replayed(records), r))
  BY EntryKeeps, Zenon DEF LogSound
<1> QED
  BY <1>2, <1>3, <1>4, Zenon DEF LogSound

\* An image in the log.
LEMMA ImageAppended ==
    ASSUME NEW records, LogSound(records), NEW st, Sound(st), NEW i
    PROVE  LET longer == Append(records, ImageRecord(st, i))
           IN  LogSound(longer) /\ Similar(st, Replayed(longer))
<1> DEFINE r == ImageRecord(st, i)
           longer == Append(records, r)
<1>1. PICK S : records \in Seq(S)
  BY DEF LogSound
<1>2. Sound(ReplayRecord(Replayed(records), r)) /\ Similar(st, ReplayRecord(Replayed(records), r))
  BY ImageReplay, Zenon DEF LogSound
<1> HIDE DEF r
<1>3. Replayed(longer) = ReplayRecord(Replayed(records), r)
  BY <1>1, ReplayedAppend, Zenon
<1>4. longer \in Seq(S \cup {r})
  BY <1>1
<1>5. LogSound(longer) /\ Similar(st, Replayed(longer))
  BY <1>2, <1>3, <1>4, Zenon DEF LogSound
<1> QED
  BY <1>5 DEF r

\* An empty log replays to the empty state.
LEMMA EmptyLog == LogSound(<< >>) /\ Replayed(<< >>) = EmptyState
<1>1. << >> \in Seq({})
  OBVIOUS
<1> QED
  BY <1>1, ReplayedEmpty, EmptySound, Zenon DEF LogSound

\* A failed append leaves what TailKnown says.
LEMMA FailedTail ==
    ASSUME TailKnown(log, tail), NEW r, Entry(r), FailedAppend(r)
    PROVE  log' = log /\ TailKnown(log', tail')
<1>1. log' = log /\ (tail' = tail \/ tail' = << >> \/ tail' = <<r>>)
  BY Zenon DEF FailedAppend
<1> QED
  BY <1>1, Zenon DEF TailKnown

\* A committed entry moves the log on.
LEMMA CommitStep ==
    ASSUME DurableInv, NEW r, Entry(r), Commit(r)
    PROVE  /\ LogSound(log') /\ TailKnown(log', tail')
           /\ Replayed(log') = ReplayRecord(Replayed(log), r)
           /\ AllStand(Replayed(log'), acked)
<1>1. log' = Append(log, r) /\ tail' = << >>
  BY DEF Commit
<1>2. /\ LogSound(log') /\ Replayed(log') = ReplayRecord(Replayed(log), r)
      /\ Keeps(Replayed(log), Replayed(log'))
  BY <1>1, EntryAppended, Zenon DEF DurableInv
<1>3. AllStand(Replayed(log'), acked)
  BY <1>2, StandsKept, Zenon DEF DurableInv, LogSound
<1>4. TailKnown(log', tail')
  BY <1>1, Zenon DEF TailKnown
<1> QED
  BY <1>2, <1>3, <1>4, Zenon

-----------------------------------------------------------------------------
\* Registry::Open on a missing file.
LEMMA OpenNewStep == DurableInv /\ OpenNew => DurableInv'
<1> SUFFICES ASSUME DurableInv, OpenNew PROVE DurableInv'
  OBVIOUS
<1>1. /\ ~up /\ ~created /\ log = << >> /\ state = EmptyState /\ TailKnown(log, tail)
      /\ created' = TRUE /\ state' = state /\ acked' = acked
  BY Zenon DEF DurableInv, OpenNew
<1>2. PICK fresh : \/ Commit(ImageRecord(EmptyState, fresh)) /\ up' = TRUE
                   \/ FailedAppend(ImageRecord(EmptyState, fresh)) /\ up' = up
  BY Zenon DEF OpenNew
<1> DEFINE r == ImageRecord(EmptyState, fresh)
<1>3. CASE Commit(r) /\ up' = TRUE
  <2>1. log' = Append(<< >>, r) /\ tail' = << >>
    BY <1>1, <1>3 DEF Commit
  <2>2. LogSound(log') /\ Similar(EmptyState, Replayed(log'))
    BY <2>1, EmptyLog, EmptySound, ImageAppended, Zenon
  <2>3. Keeps(EmptyState, Replayed(log')) /\ Similar(Replayed(log'), EmptyState)
    BY <2>2, EmptySound, SimilarKeeps, SimilarEquivalence, Zenon DEF Sound
  <2>4. AllStand(Replayed(log'), acked)
    BY <1>1, <2>2, <2>3, EmptyLog, EmptySound, StandsKept, Zenon DEF DurableInv, LogSound
  <2>5. TailKnown(log', tail')
    BY <2>1, Zenon DEF TailKnown
  <2> QED
    BY <1>1, <1>3, <2>2, <2>3, <2>4, <2>5, EmptySound, ZenonT(60) DEF DurableInv
<1>4. CASE FailedAppend(r) /\ up' = up
  <2>1. log' = log /\ (tail' = tail \/ tail' = << >> \/ tail' = <<r>>)
    BY <1>4, Zenon DEF FailedAppend
  <2>2. TailKnown(log', tail')
    BY <1>1, <2>1, Zenon DEF TailKnown
  <2> QED
    BY <1>1, <1>4, <2>1, <2>2, Zenon DEF DurableInv
<1> QED
  BY <1>2, <1>3, <1>4, Zenon

\* What Registry::Open finds in the file.
LEMMA FoundLog ==
    ASSUME DurableInv, NEW found \in {log, log \o tail}
    PROVE  LogSound(found) /\ AllStand(Replayed(found), acked)
<1>0. LogSound(log) /\ AllStand(Replayed(log), acked) /\ TailKnown(log, tail)
  BY Zenon DEF DurableInv
<1>1. PICK S : log \in Seq(S)
  BY <1>0 DEF LogSound
<1>2. CASE found = log
  BY <1>0, <1>2, Zenon
<1>3. CASE found = log \o tail /\ tail = << >>
  <2>1. log \o << >> = log
    BY <1>1
  <2> QED
    BY <1>0, <1>3, <2>1, Zenon
<1>4. ASSUME NEW r, found = log \o tail, tail = <<r>>, Entry(r)
      PROVE  LogSound(found) /\ AllStand(Replayed(found), acked)
  <2>1. log \o <<r>> = Append(log, r)
    BY <1>1
  <2>2. LogSound(Append(log, r)) /\ Keeps(Replayed(log), Replayed(Append(log, r)))
    BY <1>0, <1>4, EntryAppended, Zenon
  <2>3. AllStand(Replayed(Append(log, r)), acked)
    BY <1>0, <2>2, StandsKept, Zenon DEF LogSound
  <2> QED
    BY <1>4, <2>1, <2>2, <2>3, Zenon
<1>5. ASSUME NEW i, found = log \o tail, tail = <<ImageRecord(EmptyState, i)>>, log = << >>
      PROVE  LogSound(found) /\ AllStand(Replayed(found), acked)
  <2> DEFINE r == ImageRecord(EmptyState, i)
             longer == Append(log, r)
  <2>1. LogSound(longer) /\ Similar(EmptyState, Replayed(longer))
    BY <1>0, EmptySound, ImageAppended, Zenon
  <2>2. Keeps(EmptyState, Replayed(longer))
    BY <2>1, EmptySound, SimilarKeeps, Zenon DEF Sound
  <2>3. AllStand(Replayed(longer), acked)
    BY <1>0, <1>5, <2>1, <2>2, EmptyLog, EmptySound, StandsKept, Zenon DEF LogSound
  <2> HIDE DEF r
  <2>4. log \o <<r>> = longer
    BY <1>1
  <2> HIDE DEF longer
  <2>5. found = longer
    BY <1>5, <2>4, Zenon DEF r
  <2> QED
    BY <2>1, <2>3, <2>5, Zenon
<1> QED
  BY <1>0, <1>2, <1>3, <1>4, <1>5, Zenon DEF TailKnown

\* Registry::Open on an existing file.
LEMMA OpenExistingStep == DurableInv /\ OpenExisting => DurableInv'
<1> SUFFICES ASSUME DurableInv, OpenExisting PROVE DurableInv'
  OBVIOUS
<1>1. created /\ created' = created /\ acked' = acked /\ tail' = << >>
  BY Zenon DEF OpenExisting
<1>2. /\ log' \in {log, log \o tail} /\ up' = Replays(log')
      /\ state' = IF Replays(log') THEN Replay(log') ELSE EmptyState
  BY Zenon DEF OpenExisting
<1>3. LogSound(log') /\ AllStand(Replayed(log'), acked')
  BY <1>1, <1>2, FoundLog, Zenon
<1>4. TailKnown(log', tail')
  BY <1>1, Zenon DEF TailKnown
<1>5. CASE Replays(log')
  <2>1. state' = clear_volatile(Replayed(log'))
    BY <1>2, <1>5, Zenon DEF Replay
  <2>2. Sound(state') /\ Similar(Replayed(log'), state')
    BY <1>3, <2>1, ClearedResult, Zenon DEF LogSound
  <2> QED
    BY <1>1, <1>2, <1>3, <1>4, <1>5, <2>2, Zenon DEF DurableInv
<1>6. CASE ~Replays(log')
  <2>1. state' = EmptyState /\ ~up'
    BY <1>2, <1>6, Zenon
  <2> QED
    BY <1>1, <1>3, <1>4, <2>1, EmptySound, Zenon DEF DurableInv
<1> QED
  BY <1>5, <1>6, Zenon

\* An acknowledged opening stands.
LEMMA OpenStands ==
    ASSUME NEW st, Sound(st), NEW o \in Openings
    PROVE  Stands(apply_session_open(st, o.source, o.authority, o.incarnation), OpenRecord(o))
<1> DEFINE new == apply_session_open(st, o.source, o.authority, o.incarnation)
<1>1. o.source \in SourceId /\ o.authority \in Nat /\ o.incarnation \in Nat
  BY DurableAssumption
<1>2. /\ o.source \in DOMAIN new.sources
      /\ new.sources[o.source].current_incarnation >= o.incarnation
  BY <1>1 DEF apply_session_open, Sound, StateType, SourceRecord
<1> HIDE DEF new
<1>3. Stands(new, OpenRecord(o))
  BY <1>2, Zenon DEF Stands
<1> QED
  BY <1>3 DEF new

\* Nothing but the rest of the file or the marks and flags of memory changes.
LEMMA QuietStep ==
    ASSUME DurableInv, log' = log, TailKnown(log', tail'), acked' = acked, up' = up,
           created' = created, Sound(state'), up => Similar(state, state'), ~up => state' = state
    PROVE  DurableInv'
<1>1. up => Similar(Replayed(log), state')
  BY SimilarEquivalence, Zenon DEF DurableInv
<1> QED
  BY <1>1, Zenon DEF DurableInv

\* OpenSession.
LEMMA OpenSessionStep ==
    ASSUME DurableInv, NEW o \in Openings, OpenSession(o)
    PROVE  DurableInv'
<1>1. up /\ up' = up /\ created' = created
  BY Zenon DEF OpenSession
<1>2. Entry(OpenRecord(o))
  BY Zenon DEF Entry
<1>3. Similar(Replayed(log), state) /\ Sound(Replayed(log)) /\ Sound(state)
      /\ Similar(state, state) /\ TailKnown(log, tail)
  BY <1>1, SimilarEquivalence, Zenon DEF DurableInv, LogSound
<1> DEFINE opened(st) == apply_session_open(st, o.source, o.authority, o.incarnation)
<1>4. CASE /\ Commit(OpenRecord(o))
           /\ state' = set_session_live(opened(state), <<o.source, o.incarnation>>, TRUE)
           /\ acked' = acked \cup {OpenRecord(o)}
  <2>1. /\ LogSound(log') /\ TailKnown(log', tail') /\ AllStand(Replayed(log'), acked)
        /\ Replayed(log') = ReplayRecord(Replayed(log), OpenRecord(o))
    BY <1>2, <1>4, CommitStep, Zenon
  <2>2. Replayed(log') = opened(Replayed(log))
    BY <2>1, ReplayCases, Zenon
  <2>3. Sound(opened(state))
    <3>1. o.source \in SourceId /\ o.authority \in Nat /\ o.incarnation \in Nat
      BY DurableAssumption
    <3> QED
      BY <1>3, <3>1, OpenKeeps, Zenon
  <2>4. Sound(state') /\ Similar(opened(state), state')
    BY <1>4, <2>3, FlagsKeep, Zenon
  <2>5. Similar(opened(Replayed(log)), opened(state))
    BY <1>3, SimilarOpen, Zenon DEF Sound
  <2>6. Stands(opened(Replayed(log)), OpenRecord(o))
    BY <1>3, OpenStands, Zenon
  <2> HIDE DEF opened
  <2>7. Similar(Replayed(log'), state')
    BY <2>2, <2>4, <2>5, SimilarEquivalence, Zenon
  <2>8. AllStand(Replayed(log'), acked')
    BY <1>4, <2>1, <2>2, <2>6, Zenon DEF AllStand
  <2> QED
    BY <1>1, <2>1, <2>4, <2>7, <2>8, Zenon DEF DurableInv
<1>5. CASE FailedAppend(OpenRecord(o)) /\ state' = state /\ acked' = acked
  <2>1. log' = log /\ TailKnown(log', tail')
    BY <1>2, <1>3, <1>5, FailedTail, Zenon
  <2> QED
    BY <1>1, <1>3, <1>5, <2>1, QuietStep, Zenon
<1>6. CASE log' = log /\ tail' = tail /\ state' = state /\ acked' = acked
  BY <1>1, <1>3, <1>6, QuietStep, Zenon
<1> QED
  BY <1>4, <1>5, <1>6, Zenon DEF OpenSession

-----------------------------------------------------------------------------
\* CloseSession.
LEMMA CloseSessionStep ==
    ASSUME DurableInv, NEW w, CloseSession(w)
    PROVE  DurableInv'
<1>1. up /\ up' = up /\ created' = created /\ acked' = acked
  BY Zenon DEF CloseSession
<1>2. Entry(CloseRecord(w))
  BY Zenon DEF Entry
<1>3. Similar(Replayed(log), state) /\ Sound(Replayed(log)) /\ Sound(state)
      /\ Similar(state, state) /\ TailKnown(log, tail)
  BY <1>1, SimilarEquivalence, Zenon DEF DurableInv, LogSound
<1>4. CASE Commit(CloseRecord(w)) /\ state' = set_session_live(state, w, FALSE)
  <2>1. /\ LogSound(log') /\ TailKnown(log', tail') /\ AllStand(Replayed(log'), acked)
        /\ Replayed(log') = ReplayRecord(Replayed(log), CloseRecord(w))
    BY <1>2, <1>4, CommitStep, Zenon
  <2>2. Similar(Replayed(log), Replayed(log'))
    BY <1>3, <2>1, ReplayCases, FlagsKeep, ZenonT(60)
  <2>3. Sound(state') /\ Similar(state, state')
    BY <1>3, <1>4, FlagsKeep, Zenon
  <2>4. Similar(Replayed(log'), state')
    BY <1>3, <2>2, <2>3, SimilarEquivalence, Zenon
  <2> QED
    BY <1>1, <2>1, <2>3, <2>4, Zenon DEF DurableInv
<1>5. CASE FailedAppend(CloseRecord(w)) /\ state' = state
  <2>1. log' = log /\ TailKnown(log', tail')
    BY <1>2, <1>3, <1>5, FailedTail, Zenon
  <2> QED
    BY <1>1, <1>3, <1>5, <2>1, QuietStep, Zenon
<1> QED
  BY <1>4, <1>5, Zenon DEF CloseSession

\* A record that was acknowledged before memory changed stands in the log too.
LEMMA AcceptedStandsInLog ==
    ASSUME NEW st, Sound(st), NEW replayed, Sound(replayed), Similar(replayed, st),
           NEW e \in Evidence, KnownSession(st, e), Stored(st, e), NEW records,
           AllStand(replayed, records)
    PROVE  AllStand(replayed, records \cup {EvidenceRecord(e)})
<1>1. Similar(st, replayed)
  BY SimilarEquivalence, Zenon
<1>2. Keeps(st, replayed)
  BY <1>1, SimilarKeeps, Zenon DEF Sound
<1>3. e \in EvidenceType
  BY DurableAssumption
<1>4. Stored(replayed, e)
  BY <1>2, <1>3, StoredGrows, Zenon DEF Keeps, Sound
<1>5. KnownSession(replayed, e)
  BY <1>2, Zenon DEF KnownSession, Keeps
<1>6. Stands(replayed, EvidenceRecord(e))
  BY <1>4, <1>5, Zenon DEF Stands
<1> QED
  BY <1>6, Zenon DEF AllStand

\* Ingest.
LEMMA IngestStep ==
    ASSUME DurableInv, NEW e \in Evidence, Ingest(e)
    PROVE  DurableInv'
<1>1. up /\ up' = up /\ created' = created
  BY Zenon DEF Ingest
<1>2. Entry(EvidenceRecord(e)) /\ e \in EvidenceType
  BY DurableAssumption, Zenon DEF Entry
<1>3. Similar(Replayed(log), state) /\ Sound(Replayed(log)) /\ Sound(state)
      /\ Similar(state, state) /\ TailKnown(log, tail)
  BY <1>1, SimilarEquivalence, Zenon DEF DurableInv, LogSound
<1>4. PICK durable \in BOOLEAN :
        /\ IF NeedsAppend(state, e)
           THEN IF durable THEN Commit(EvidenceRecord(e)) ELSE FailedAppend(EvidenceRecord(e))
           ELSE log' = log /\ tail' = tail
        /\ state' = ingest_locked(state, e, TRUE, durable).state
        /\ acked' = IF is_accepted(ingest_locked(state, e, TRUE, durable).disposition)
                    THEN acked \cup {EvidenceRecord(e)} ELSE acked
  BY Zenon DEF Ingest
<1> DEFINE accepted == is_accepted(ingest_locked(state, e, TRUE, durable).disposition)
<1>5. Sound(state') /\ Keeps(state, state')
  BY <1>2, <1>3, <1>4, IngestKeeps, Zenon
<1>6. accepted => KnownSession(state', e) /\ Stored(state', e)
  <2>1. accepted => KnownSession(state, e) /\ Stored(state', e)
    BY <1>2, <1>3, <1>4, AcceptedStored, Zenon DEF Sound
  <2> QED
    BY <1>5, <2>1, Zenon DEF KnownSession, Keeps
<1>7. acked' = IF accepted THEN acked \cup {EvidenceRecord(e)} ELSE acked
  BY <1>4
<1>8. /\ LogSound(log') /\ TailKnown(log', tail') /\ AllStand(Replayed(log'), acked)
      /\ Similar(Replayed(log'), state')
  <2>1. CASE NeedsAppend(state, e) /\ durable
    <3>1. /\ LogSound(log') /\ TailKnown(log', tail') /\ AllStand(Replayed(log'), acked)
          /\ Replayed(log') = ReplayRecord(Replayed(log), EvidenceRecord(e))
      BY <1>2, <1>4, <2>1, CommitStep, Zenon
    <3>2. Replayed(log') = ingest_locked(Replayed(log), e, FALSE, TRUE).state
      BY <3>1, ReplayCases, Zenon
    <3>3. state' = ingest_locked(state, e, TRUE, TRUE).state
      <4>1. durable = TRUE
        BY <2>1
      <4> QED
        BY <1>4, <4>1
    <3>4. Similar(Replayed(log'), state')
      BY <1>2, <1>3, <3>2, <3>3, SimilarIngest, Zenon DEF Sound
    <3> QED
      BY <3>1, <3>4, Zenon
  <2>2. CASE ~(NeedsAppend(state, e) /\ durable)
    <3>1. log' = log /\ TailKnown(log', tail')
      BY <1>2, <1>3, <1>4, <2>2, FailedTail, Zenon
    <3>2. ~NeedsAppend(state, e) \/ ~durable
      BY <2>2
    <3>3. Similar(state, state')
      BY <1>2, <1>3, <1>4, <3>2, SimilarUnappended, ZenonT(60) DEF Sound
    <3>4. Similar(Replayed(log'), state')
      BY <1>3, <3>1, <3>3, SimilarEquivalence, Zenon
    <3> QED
      BY <3>1, <3>4, Zenon DEF DurableInv
  <2> QED
    BY <2>1, <2>2, Zenon
<1> HIDE DEF accepted
<1>9. AllStand(Replayed(log'), acked')
  <2>1. CASE accepted
    BY <1>5, <1>6, <1>7, <1>8, <2>1, AcceptedStandsInLog, Zenon DEF LogSound
  <2>2. CASE ~accepted
    BY <1>7, <1>8, <2>2, Zenon
  <2> QED
    BY <2>1, <2>2, Zenon
<1> QED
  BY <1>1, <1>5, <1>8, <1>9, Zenon DEF DurableInv

\* Compact.
LEMMA CompactStep == DurableInv /\ Compact => DurableInv'
<1> SUFFICES ASSUME DurableInv, Compact PROVE DurableInv'
  OBVIOUS
<1> DEFINE r == ImageRecord(state, id)
<1>1. /\ up /\ up' = up /\ state' = state /\ created' = created /\ acked' = acked
      /\ log' = <<r>> /\ tail' = << >>
  BY Zenon DEF Compact
<1>2. Append(<< >>, r) = <<r>>
  <2> HIDE DEF r
  <2> QED
    OBVIOUS
<1>3. Similar(Replayed(log), state) /\ Sound(Replayed(log)) /\ Sound(state)
  BY <1>1, Zenon DEF DurableInv, LogSound
<1>4. LogSound(log') /\ Similar(state, Replayed(log'))
  BY <1>1, <1>2, <1>3, EmptyLog, ImageAppended, Zenon
<1>5. Similar(Replayed(log'), state') /\ Similar(Replayed(log), Replayed(log'))
  BY <1>1, <1>3, <1>4, SimilarEquivalence, Zenon
<1>6. Keeps(Replayed(log), Replayed(log'))
  BY <1>3, <1>5, SimilarKeeps, Zenon DEF Sound
<1>7. AllStand(Replayed(log'), acked)
  BY <1>3, <1>4, <1>6, StandsKept, Zenon DEF DurableInv, LogSound
<1>8. TailKnown(log', tail')
  BY <1>1, Zenon DEF TailKnown
<1> QED
  BY <1>1, <1>3, <1>4, <1>5, <1>7, <1>8, Zenon DEF DurableInv

\* The process dies.
LEMMA CrashStep == DurableInv /\ Crash => DurableInv'
<1> SUFFICES ASSUME DurableInv, Crash PROVE DurableInv'
  OBVIOUS
<1>1. /\ ~up' /\ state' = EmptyState /\ created' = created /\ log' = log /\ acked' = acked
      /\ tail' \in {tail} \cup {<<r>> : r \in InFlight}
  BY Zenon DEF Crash
<1>2. \A r \in InFlight : Entry(r)
  BY Zenon DEF InFlight, Entry
<1>3. TailKnown(log', tail')
  BY <1>1, <1>2, Zenon DEF DurableInv, TailKnown
<1> QED
  BY <1>1, <1>3, EmptySound, Zenon DEF DurableInv

\* The invariant holds.
LEMMA DurableInvHolds == Spec => []DurableInv
<1>1. Init => DurableInv
  <2> SUFFICES ASSUME Init PROVE DurableInv
    OBVIOUS
  <2>1. ~up /\ state = EmptyState /\ log = << >> /\ tail = << >> /\ acked = {}
    BY DEF Init
  <2> QED
    BY <2>1, EmptyLog, EmptySound, Zenon DEF DurableInv, TailKnown, AllStand
<1>2. DurableInv /\ [Next]_vars => DurableInv'
  <2> SUFFICES ASSUME DurableInv, [Next]_vars PROVE DurableInv'
    OBVIOUS
  <2>1. CASE UNCHANGED vars
    BY <2>1 DEF vars, DurableInv
  <2> QED
    BY <2>1, OpenNewStep, OpenExistingStep, OpenSessionStep, CloseSessionStep, IngestStep,
       CompactStep, CrashStep, Zenon DEF Next
<1> QED
  BY <1>1, <1>2, PTL DEF Spec

\* Whatever is ingested, fails to be appended, is compacted or dies in between, replaying
\* the log rebuilds the sources, the sessions and every claim that memory holds.
THEOREM LogRebuildsMemory == Spec => []MemoryMatchesLog
<1>1. DurableInv => MemoryMatchesLog
  <2> SUFFICES ASSUME DurableInv, up
               PROVE  LET replayed == Replay(log)
                      IN  /\ replayed.sources = state.sources
                          /\ DOMAIN replayed.sessions = DOMAIN state.sessions
                          /\ replayed.claims = clear_volatile(state).claims
    BY DEF MemoryMatchesLog
  <2> DEFINE R == Replayed(log)
             cleared == clear_volatile(R)
             memory == clear_volatile(state)
  <2>1. Sound(R) /\ Sound(state) /\ Similar(R, state)
    BY Zenon DEF DurableInv, LogSound
  <2>2. Similar(R, cleared) /\ Similar(state, memory)
    BY <2>1, ClearedResult, Zenon
  <2>3. Similar(cleared, state) /\ Similar(cleared, memory)
    BY <2>1, <2>2, SimilarEquivalence, Zenon
  <2>4. Sound(cleared) /\ Sound(memory)
    BY <2>1, ClearedResult, Zenon
  <2>5. /\ \A k \in DOMAIN cleared.claims : cleared.claims[k].asserted_in_lifetime = FALSE
        /\ \A k \in DOMAIN memory.claims : memory.claims[k].asserted_in_lifetime = FALSE
    BY <2>1, ClearedClaims, Zenon
  <2>6. Replay(log) = cleared
    BY DEF Replay
  <2> HIDE DEF R, cleared, memory
  <2>7. cleared.claims = memory.claims
    <3>1. /\ DOMAIN cleared.claims = DOMAIN memory.claims
          /\ cleared.claims = [k \in DOMAIN cleared.claims |-> cleared.claims[k]]
          /\ memory.claims = [k \in DOMAIN memory.claims |-> memory.claims[k]]
      BY <2>3, <2>4, ZenonT(60) DEF Similar, Sound, StateType
    <3>2. ASSUME NEW k \in DOMAIN cleared.claims
          PROVE  cleared.claims[k] = memory.claims[k]
      <4>1. cleared.claims[k] \in Folded(k.map) /\ memory.claims[k] \in Folded(k.map)
        BY <2>4, <3>1 DEF Sound, StateType
      <4>2. SameRecord(cleared.claims[k], memory.claims[k])
        BY <2>3 DEF Similar
      <4> QED
        BY <2>5, <3>1, <4>1, <4>2 DEF Folded, SameRecord
    <3> QED
      BY <3>1, <3>2
  <2>8. cleared.sources = state.sources /\ DOMAIN cleared.sessions = DOMAIN state.sessions
    BY <2>3, Zenon DEF Similar
  <2> QED
    BY <2>6, <2>7, <2>8, Zenon DEF memory
<1> QED
  BY <1>1, DurableInvHolds, PTL

\* An acknowledged session opening or evidence record survives every crash, failed append
\* and compaction: its incarnation stays fenced in and delivering it again is no news.
THEOREM AcknowledgedStands == Spec => []AcknowledgedSurvives
<1>1. DurableInv => AcknowledgedSurvives
  <2> SUFFICES ASSUME DurableInv, up, NEW r \in acked
               PROVE  CASE r.kind = "SessionOpen" ->
                             /\ r.opening.source \in DOMAIN state.sources
                             /\ state.sources[r.opening.source].current_incarnation
                                    >= r.opening.incarnation
                        [] r.kind = "Evidence" ->
                             /\ KnownSession(state, r.evidence)
                             /\ \/ Unreached(state, r.evidence)
                                \/ decide(state, r.evidence).writes = {}
    BY Zenon DEF AcknowledgedSurvives
  <2>1. Sound(Replayed(log)) /\ Sound(state) /\ Similar(Replayed(log), state)
    BY Zenon DEF DurableInv, LogSound
  <2>2. Keeps(Replayed(log), state)
    BY <2>1, SimilarKeeps, Zenon DEF Sound
  <2>3. Stands(state, r)
    BY <2>1, <2>2, StandsKept, Zenon DEF DurableInv, AllStand
  <2>4. ASSUME NEW o \in Openings, r = OpenRecord(o), o.source \in DOMAIN state.sources,
               state.sources[o.source].current_incarnation >= o.incarnation
        PROVE  /\ r.kind = "SessionOpen" /\ r.opening.source \in DOMAIN state.sources
               /\ state.sources[r.opening.source].current_incarnation >= r.opening.incarnation
    <3>1. r.kind = "SessionOpen" /\ r.opening = o
      BY <2>4 DEF OpenRecord
    <3> QED
      BY <2>4, <3>1
  <2>5. ASSUME NEW e \in Evidence, r = EvidenceRecord(e), KnownSession(state, e), Stored(state, e)
        PROVE  /\ r.kind = "Evidence" /\ KnownSession(state, r.evidence)
               /\ Unreached(state, r.evidence) \/ decide(state, r.evidence).writes = {}
    <3>1. r.kind = "Evidence" /\ r.evidence = e
      BY <2>5 DEF EvidenceRecord
    <3>2. e \in EvidenceType
      BY DurableAssumption
    <3>3. Unreached(state, e) \/ decide(state, e).writes = {}
      BY <2>1, <2>5, <3>2, StoredIsNoNews, Zenon DEF Sound
    <3> QED
      BY <2>5, <3>1, <3>3, Zenon
  <2>6. CASE r.kind = "SessionOpen"
    BY <2>3, <2>4, <2>5, <2>6 DEF Stands
  <2>7. CASE r.kind # "SessionOpen"
    BY <2>3, <2>4, <2>5, <2>7, Zenon DEF Stands
  <2> QED
    BY <2>6, <2>7, Zenon
<1> QED
  BY <1>1, DurableInvHolds, PTL

-----------------------------------------------------------------------------
(***************************************************************************)
(* Recovered claims.                                                       *)
(***************************************************************************)
\* The edges of a port cite occupied port records that take part under the policy.
LEMMA PortViewCites ==
    ASSUME NEW st, NEW p, NEW policy,
           NEW x \in derive_port_view(st, p, policy).edges, NEW k \in x.claims
    PROVE  /\ k \in DOMAIN st.claims /\ k.map = "port"
           /\ participates(st.claims[k], policy)
           /\ ~st.claims[k].value.empty
<1> DEFINE live == LivePortKeys(st, p, policy)
           best == TopAuthority(st, live)
           empty == {j \in best : st.claims[j].value.empty}
           occupied == best \ empty
           subjects == {st.claims[j].value.subject : j \in occupied}
           claims(s) == {j \in occupied : st.claims[j].value.subject = s}
<1>1. k \in occupied
  <2>1. derive_port_view(st, p, policy).edges
          = {[subject |-> s, claims |-> claims(s), slot |-> LastSlot(claims(s)),
              validation |-> ValidationOf(st, claims(s))] : s \in subjects}
    <3> HIDE DEF live
    <3> QED
      BY Zenon DEF derive_port_view, PortAnswer, live
  <2>2. PICK s : x = [subject |-> s, claims |-> claims(s), slot |-> LastSlot(claims(s)),
                      validation |-> ValidationOf(st, claims(s))]
    BY <2>1, Zenon
  <2>3. x.claims = claims(s)
    BY <2>2, Zenon
  <2> QED
    BY <2>3, Zenon
<1>2. k \in live /\ ~st.claims[k].value.empty
  BY <1>1, Zenon DEF TopAuthority
<1> HIDE DEF live
<1> QED
  BY <1>2, Zenon DEF live, LivePortKeys, UnfencedKeys, KeysOf

\* So do the answers about a side.
LEMMA SubjectCites ==
    ASSUME NEW st, NEW s, NEW policy, NEW k \in derive_subject(st, s, policy).top
    PROVE  k \in DOMAIN st.claims /\ participates(st.claims[k], policy)
<1> DEFINE live == IF object_exists(st, s[1]) THEN LiveSubjectKeys(st, s, policy) ELSE {}
           attached == {j \in live : st.claims[j].value.attached}
<1>1. SideAnswer(st, live).top \in {{}, TopAuthority(st, attached)}
  <2> HIDE DEF live
  <2> QED
    BY DEF SideAnswer
<1>2. k \in LiveSubjectKeys(st, s, policy)
  BY <1>1, Zenon DEF derive_subject, TopAuthority
<1> QED
  BY <1>2, Zenon DEF LiveSubjectKeys, UnfencedKeys, KeysOf

\* The fresh claims are those the records of this lifetime made.
FreshInv ==
    /\ IsFiniteSet(lifetime) /\ lifetime \subseteq Evidence
    /\ FreshFrom(state.claims, lifetime)

\* No claim is fresh in these states.
LEMMA NoneFresh ==
    /\ FreshFrom(EmptyState.claims, {})
    /\ \A st : Sound(st) => FreshFrom(clear_volatile(st).claims, {})
<1>1. FreshFrom(EmptyState.claims, {})
  BY EmptySound, Zenon DEF FreshFrom
<1>2. ASSUME NEW st, Sound(st) PROVE FreshFrom(clear_volatile(st).claims, {})
  BY <1>2, ClearedClaims, Zenon DEF FreshFrom
<1> QED
  BY <1>1, <1>2

\* Every step keeps the fresh claims those of the lifetime.
LEMMA FreshStep == DurableInv /\ DurableInv' /\ FreshInv /\ [Next]_vars => FreshInv'
<1> SUFFICES ASSUME DurableInv, DurableInv', FreshInv, [Next]_vars PROVE FreshInv'
  OBVIOUS
<1>0. /\ IsFiniteSet(lifetime) /\ lifetime \subseteq Evidence
      /\ FreshFrom(state.claims, lifetime) /\ Sound(state) /\ StateType(state)
  BY Zenon DEF FreshInv, DurableInv, Sound
<1>1. ASSUME state'.claims = state.claims, lifetime' = lifetime PROVE FreshInv'
  BY <1>0, <1>1, Zenon DEF FreshInv
<1>2. ASSUME lifetime' = {}, FreshFrom(state'.claims, {}) PROVE FreshInv'
  BY <1>2, FS_EmptySet, Zenon DEF FreshInv
<1>3. CASE OpenNew
  BY <1>1, <1>3, Zenon DEF OpenNew
<1>4. CASE OpenExisting
  <2>1. /\ lifetime' = {}
        /\ state' = EmptyState \/ state' = clear_volatile(Replayed(log'))
    BY <1>4, Zenon DEF OpenExisting, Replay
  <2>2. Sound(Replayed(log'))
    BY Zenon DEF DurableInv, LogSound
  <2> QED
    BY <1>2, <2>1, <2>2, NoneFresh, Zenon
<1>5. ASSUME NEW o \in Openings, OpenSession(o) PROVE FreshInv'
  <2> DEFINE opened == apply_session_open(state, o.source, o.authority, o.incarnation)
             w == <<o.source, o.incarnation>>
  <2>1. /\ lifetime' = lifetime
        /\ state' = state \/ state' = set_session_live(opened, w, TRUE)
    BY <1>5, Zenon DEF OpenSession
  <2>2. StateType(opened) /\ opened.claims = state.claims
    <3>1. o.source \in SourceId /\ o.authority \in Nat /\ o.incarnation \in Nat
      BY DurableAssumption
    <3> QED
      BY <1>0, <3>1, SessionOpenResult, Zenon DEF OpenEffect
  <2> HIDE DEF opened, w
  <2>3. set_session_live(opened, w, TRUE).claims = opened.claims
    BY <2>2, SetLiveResult, Zenon DEF SetLiveEffect
  <2> QED
    BY <1>1, <2>1, <2>2, <2>3, Zenon
<1>6. ASSUME NEW w \in DOMAIN state.sessions, CloseSession(w) PROVE FreshInv'
  <2>1. /\ lifetime' = lifetime
        /\ state' = state \/ state' = set_session_live(state, w, FALSE)
    BY <1>6, Zenon DEF CloseSession
  <2>2. set_session_live(state, w, FALSE).claims = state.claims
    BY <1>0, SetLiveResult, Zenon DEF SetLiveEffect
  <2> QED
    BY <1>1, <2>1, <2>2, Zenon
<1>7. ASSUME NEW e \in Evidence, Ingest(e) PROVE FreshInv'
  <2>1. PICK durable \in BOOLEAN :
          /\ state' = ingest_locked(state, e, TRUE, durable).state
          /\ lifetime' = IF NeedsAppend(state, e) /\ durable THEN lifetime \cup {e} ELSE lifetime
    BY <1>7, Zenon DEF Ingest
  <2>2. e \in EvidenceType
    BY DurableAssumption
  <2>3. ASSUME NeedsAppend(state, e), durable PROVE FreshInv'
    <3>1. state'.claims = FoldedClaims(state, e, TRUE, decide(state, e))
      <4>1. ingest_locked(state, e, TRUE, durable).state.claims
              = FoldedClaims(state, e, TRUE, decide(state, e))
        BY <1>0, <2>2, <2>3, AppendedClaims, Zenon
      <4> QED
        BY <2>1, <4>1, Zenon
    <3>2. FreshFrom(state'.claims, lifetime \cup {e})
      <4>1. FreshFrom(FoldedClaims(state, e, TRUE, decide(state, e)), lifetime \cup {e})
        BY <1>0, <2>2, FoldedFresh, Zenon
      <4> QED
        BY <3>1, <4>1, Zenon
    <3>3. IsFiniteSet(lifetime \cup {e})
      BY <1>0, FS_AddElement, Zenon
    <3> QED
      BY <1>0, <2>1, <2>3, <3>2, <3>3, ZenonT(60) DEF FreshInv
  <2>4. CASE ~(NeedsAppend(state, e) /\ durable)
    <3>1. ~NeedsAppend(state, e) \/ ~durable
      BY <2>4
    <3>2. state'.claims = state.claims
      BY <1>0, <2>1, <2>2, <3>1, UnappendedClaims, Zenon
    <3> QED
      BY <1>1, <2>1, <2>4, <3>2, Zenon
  <2> QED
    BY <2>3, <2>4, Zenon
<1>8. CASE Compact
  BY <1>1, <1>8, Zenon DEF Compact
<1>9. CASE Crash
  BY <1>2, <1>9, NoneFresh, Zenon DEF Crash
<1>10. CASE UNCHANGED vars
  BY <1>1, <1>10 DEF vars
<1> QED
  BY <1>3, <1>4, <1>5, <1>6, <1>7, <1>8, <1>9, <1>10, Zenon DEF Next

\* As many live claims as records of the lifetime, at most: one record occupies one slot.
LEMMA LiveClaimsBounded ==
    ASSUME NEW claims, NEW records \in SUBSET EvidenceType, IsFiniteSet(records),
           FreshFrom(claims, records), NEW live \in SUBSET DOMAIN claims,
           \A k \in live : /\ k.map = "port" /\ ~claims[k].value.empty
                           /\ claims[k].asserted_in_lifetime
    PROVE  Cardinality(live) <= Cardinality(records)
<1> DEFINE f == [k \in live |-> CHOOSE e \in records : Said(e, k, claims[k])]
<1>1. \A k \in live : f[k] \in records /\ Said(f[k], k, claims[k])
  BY Zenon DEF FreshFrom
<1>2. f \in [live -> records]
  BY <1>1
<1> HIDE DEF f
<1>3. ASSUME NEW j \in live, NEW k \in live, f[j] = f[k] PROVE j = k
  <2>1. /\ f[k] \in EvidenceType /\ j \in ClaimKeys(f[k]) /\ k \in ClaimKeys(f[k])
        /\ ~AssertedValue(f[k], j).empty /\ ~AssertedValue(f[k], k).empty
    BY <1>1, <1>3, Zenon DEF Said
  <2> QED
    BY <2>1, OneOccupiedKey, Zenon
<1>4. f \in Injection(live, records)
  BY <1>2, <1>3 DEF Injection, IsInjective
<1> QED
  BY <1>4, FS_Injection

\* Loading a store never makes old evidence fresh: what a LiveOnly answer cites, and what
\* the envelope of a snapshot counts as live, was ingested since the last Open.
THEOREM OldEvidenceStaysOld == Spec => []RecoveredNeverFresh
<1>1. Init => FreshInv
  <2> SUFFICES ASSUME Init PROVE FreshInv
    OBVIOUS
  <2>1. state = EmptyState /\ lifetime = {}
    BY DEF Init
  <2> QED
    BY <2>1, NoneFresh, FS_EmptySet, Zenon DEF FreshInv
<1>2. FreshInv => RecoveredNeverFresh
  <2> SUFFICES ASSUME FreshInv PROVE RecoveredNeverFresh
    OBVIOUS
  <2>1. ASSUME NEW k \in DOMAIN state.claims, state.claims[k].asserted_in_lifetime
        PROVE  \E e \in lifetime : state.claims[k].evidence = e.id
    BY <2>1, Zenon DEF FreshInv, FreshFrom, Said
  <2>2. \A folded : participates(folded, "LiveOnly") => folded.asserted_in_lifetime
    BY DEF participates
  <2>3. ASSUME NEW p, NEW x \in derive_port_view(state, p, "LiveOnly").edges, NEW k \in x.claims
        PROVE  \E e \in lifetime : state.claims[k].evidence = e.id
    BY <2>1, <2>2, PortViewCites, Zenon
  <2>4. ASSUME NEW s, NEW k \in derive_subject(state, s, "LiveOnly").top
        PROVE  \E e \in lifetime : state.claims[k].evidence = e.id
    BY <2>1, <2>2, SubjectCites, ZenonT(60)
  <2> DEFINE port == [p \in PortsWithRecords(state) |-> derive_port_view(state, p, "IncludeAll")]
             cited == UNION {UNION {x.claims : x \in port[p].edges} : p \in DOMAIN port}
             live == {k \in cited : state.claims[k].asserted_in_lifetime}
  <2>5. SnapshotMetadata(state).claims_live = Cardinality(live)
    BY DEF SnapshotMetadata
  <2>6. \A k \in live : /\ k \in DOMAIN state.claims /\ k.map = "port"
                        /\ ~state.claims[k].value.empty
                        /\ state.claims[k].asserted_in_lifetime
    <3> SUFFICES ASSUME NEW k \in live
                 PROVE  /\ k \in DOMAIN state.claims /\ k.map = "port"
                        /\ ~state.claims[k].value.empty
      BY Zenon
    <3>1. PICK p \in PortsWithRecords(state) : k \in UNION {x.claims : x \in port[p].edges}
      BY Zenon
    <3>2. PICK x \in derive_port_view(state, p, "IncludeAll").edges : k \in x.claims
      BY <3>1, Zenon
    <3> QED
      BY <3>2, PortViewCites, Zenon
  <2> HIDE DEF live
  <2>7. Cardinality(live) <= Cardinality(lifetime)
    <3>1. lifetime \in SUBSET EvidenceType /\ live \in SUBSET DOMAIN state.claims
      BY <2>6, DurableAssumption DEF FreshInv
    <3> QED
      BY <2>6, <3>1, LiveClaimsBounded, Zenon DEF FreshInv
  <2> HIDE DEF port, cited
  <2>8. SnapshotMetadata(state).claims_live <= Cardinality(lifetime)
    BY <2>5, <2>7, Zenon
  <2>9. ASSUME NEW p, NEW k \in UNION {x.claims : x \in derive_port_view(state, p, "LiveOnly").edges}
         PROVE  \E e \in lifetime : state.claims[k].evidence = e.id
    <3>1. PICK x \in derive_port_view(state, p, "LiveOnly").edges : k \in x.claims
      BY <2>9
    <3> QED
      BY <2>3, <3>1, Zenon
  <2> QED
    BY <2>4, <2>8, <2>9, Zenon DEF RecoveredNeverFresh
<1> QED
  BY <1>1, <1>2, FreshStep, DurableInvHolds, PTL DEF Spec
==================================================================================
