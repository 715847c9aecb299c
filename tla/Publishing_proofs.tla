---------------------------- MODULE Publishing_proofs ----------------------------
(***************************************************************************)
(* What a publisher may rely on: a record that it was told is accepted is  *)
(* in the log, whatever connections broke, appends failed, processes died  *)
(* or late requests were served in between.                                *)
(***************************************************************************)
EXTENDS PublishedRecords_proofs, DurableRegistry_proofs

\* The obligations are large: the provers get more than the default time.
USE SMTT(60), ZenonT(60)

-----------------------------------------------------------------------------
(***************************************************************************)
(* The log.                                                                *)
(***************************************************************************)
\* A call that would be appended to the log.
Appendable(r) ==
    /\ CallOf(r, incarnation)
    /\ r.kind = "Evidence" => NeedsAppend(Replayed(log), r.evidence)

\* The log holds only what the publisher said, and all it was told is accepted; what may be
\* found behind it was about to be appended.
RecordedInv ==
    /\ Own(Replayed(log), incarnation)
    /\ tail = << >> \/ (tail = <<tail[1]>> /\ Appendable(tail[1]))
    /\ \A i \in 1 .. step : Recorded(Replayed(log), Record(incarnation, i))
    /\ phase = "publishing" /\ reply = {"accepted"} =>
          Recorded(Replayed(log), Record(incarnation, step + 1))

\* A call can be in the log.
LEMMA CallEntry ==
    ASSUME NEW n \in 1 .. MaxIncarnation, NEW r, CallOf(r, n)
    PROVE  Entry(r)
<1>1. \/ r = OpenRecord(r.opening) /\ r.opening \in Openings
      \/ r = EvidenceRecord(r.evidence) /\ r.evidence \in Evidence
  BY CallKnown
<1> QED
  BY <1>1, Zenon DEF Entry

\* The registry under the publisher keeps memory and log together.
LEMMA DurableKept ==
    PublisherInv /\ DurableInv /\ [PublishingNext]_allVars => DurableInv'
<1> SUFFICES ASSUME PublisherInv, DurableInv, [PublishingNext]_allVars
             PROVE  DurableInv'
  OBVIOUS
<1>1. CASE UNCHANGED <<up, state, created, log, tail, acked>>
  BY <1>1, Zenon DEF DurableInv
<1>2. CASE OpenExisting
  BY <1>2, OpenExistingStep
<1>3. CASE \E r \in requests : Serve(r)
  BY <1>3, ServeIsCall, OpenSessionStep, IngestStep, Zenon
<1>4. CASE Compact
  BY <1>4, CompactStep
<1>5. CASE Crash
  BY <1>5, CrashStep
<1> QED
  BY <1>1, <1>2, <1>3, <1>4, <1>5, ZenonT(60)
     DEF PublishingNext, PublisherStep, ServerStep, Reopen, Connect, CallOpenSession, CallPublish,
         Send, SessionOpened, Published, CallFails, Restart, Disconnect, Discard, Die, allVars, vars

\* What a step can do to the file: nothing to the log, which may get another record behind
\* it; append a call; or replace it by an image of memory.
LogChange ==
    \/ /\ log' = log
       /\ tail' \in {tail, << >>} \/ \E r : tail' = <<r>> /\ Appendable(r)
    \/ /\ tail' = << >>
       /\ \E r : Appendable(r) /\ log' = Append(log, r)
    \/ up /\ log' = <<ImageRecord(state, id)>> /\ tail' = << >>

\* What memory needs to append, the log lacks.
LEMMA NeededByLog ==
    ASSUME DurableInv, up, NEW e, NeedsAppend(state, e)
    PROVE  NeedsAppend(Replayed(log), e)
<1>1. /\ Similar(Replayed(log), state) /\ Indexed(Replayed(log)) /\ Indexed(state)
  BY DEF DurableInv, LogSound, Sound
<1>2. /\ decide(Replayed(log), e) = decide(state, e)
      /\ KnownSession(Replayed(log), e) <=> KnownSession(state, e)
  BY <1>1, SimilarDecide, Zenon
<1> QED
  BY <1>2, Zenon DEF NeedsAppend

\* Every step changes the file in one of these ways.
LEMMA LogChanges ==
    ASSUME PublisherInv, DurableInv, RecordedInv, [PublishingNext]_allVars
    PROVE  LogChange
<1>1. CASE UNCHANGED <<log, tail>>
  BY <1>1 DEF LogChange
<1>2. ASSUME NEW r, Appendable(r), Commit(r) \/ FailedAppend(r)
      PROVE  LogChange
  BY <1>2, Zenon DEF LogChange, Commit, FailedAppend
<1>3. CASE OpenExisting
  <2>1. tail' = << >> /\ log' \in {log, log \o tail}
    BY <1>3 DEF OpenExisting
  <2>2. PICK S : log \in Seq(S)
    BY DEF DurableInv, LogSound
  <2>3. CASE tail = << >>
    <3>1. log' = log
      BY <2>1, <2>2, <2>3
    <3> QED
      BY <2>1, <3>1 DEF LogChange
  <2>4. CASE tail # << >>
    <3>1. PICK r : tail = <<r>> /\ Appendable(r)
      BY <2>4 DEF RecordedInv
    <3>2. log' = log \/ log' = Append(log, r)
      BY <2>1, <2>2, <3>1
    <3> QED
      BY <2>1, <3>1, <3>2, Zenon DEF LogChange
  <2> QED
    BY <2>3, <2>4
<1>4. CASE \E r \in requests : Serve(r)
  <2>1. PICK r \in requests : Serve(r)
    BY <1>4
  <2>2. CASE r.call.kind = "SessionOpen"
    <3>1. OpenSession(r.call.opening) /\ r.call = OpenRecord(r.call.opening)
      BY <2>1, <2>2, ServeIsCall, Zenon
    <3>2. Appendable(r.call)
      BY <2>1, <2>2, ServeIsCall, Zenon DEF Appendable
    <3>3. Commit(r.call) \/ FailedAppend(r.call) \/ UNCHANGED <<log, tail>>
      BY <3>1, Zenon DEF OpenSession
    <3> QED
      BY <1>1, <1>2, <3>2, <3>3
  <2>3. CASE r.call.kind = "Evidence"
    <3>1. Ingest(r.call.evidence) /\ r.call = EvidenceRecord(r.call.evidence)
          /\ CallOf(r.call, incarnation)
      BY <2>1, <2>3, ServeIsCall, Zenon
    <3>2. CASE NeedsAppend(state, r.call.evidence)
      <4>1. Appendable(r.call)
        BY <3>1, <3>2, NeededByLog, Zenon DEF Ingest, Appendable
      <4>2. Commit(r.call) \/ FailedAppend(r.call)
        BY <3>1, <3>2, Zenon DEF Ingest
      <4> QED
        BY <1>2, <4>1, <4>2
    <3>3. CASE ~NeedsAppend(state, r.call.evidence)
      <4>1. UNCHANGED <<log, tail>>
        BY <3>1, <3>3, Zenon DEF Ingest
      <4> QED
        BY <1>1, <4>1
    <3> QED
      BY <3>2, <3>3
  <2> QED
    BY <2>1, <2>2, <2>3, ServeIsCall, Zenon
<1>5. CASE Compact
  BY <1>5, Zenon DEF Compact, LogChange
<1>6. CASE Die
  <2>1. /\ up /\ log' = log
        /\ tail' \in {tail} \cup {<<r>> : r \in InFlight}
        /\ tail' = tail \/ \E r \in requests : tail' = <<r.call>>
    BY <1>6, ZenonT(60) DEF Die, Crash
  <2>2. CASE tail' = tail
    BY <2>1, <2>2, Zenon DEF LogChange
  <2>3. CASE tail' # tail
    <3>1. PICK r \in requests : tail' = <<r.call>>
      BY <2>1, <2>3, Zenon
    <3>2. r.call \in InFlight
      BY <2>1, <2>3, <3>1
    <3>3. r.call.kind = "Evidence" => NeedsAppend(state, r.call.evidence)
      BY <3>2 DEF InFlight, EvidenceRecord, OpenRecord, CloseRecord
    <3>4. Appendable(r.call)
      BY <2>1, <3>3, NeededByLog, Zenon DEF Appendable, PublisherInv
    <3> QED
      BY <2>1, <3>1, <3>4, ZenonT(60) DEF LogChange
  <2> QED
    BY <2>2, <2>3
<1> QED
  BY <1>1, <1>3, <1>4, <1>5, <1>6, ZenonT(60)
     DEF PublishingNext, PublisherStep, ServerStep, Reopen, Connect, CallOpenSession, CallPublish,
         Send, SessionOpened, Published, CallFails, Restart, Disconnect, Discard, allVars, vars

\* The log moves by a call of the publisher at most, and what is left behind it stays a
\* call that would be appended.
LEMMA LogMoves ==
    ASSUME PublisherInv, DurableInv, RecordedInv, LogChange
    PROVE  /\ Moves(Replayed(log), Replayed(log'), incarnation)
           /\ \/ tail' = << >>
              \/ log' = log /\ \E r : tail' = <<r>> /\ Appendable(r)
<1>0. \A x : Moves(x, x, incarnation)
  BY SimilarEquivalence, Zenon DEF Moves
<1>1. CASE /\ log' = log
           /\ tail' \in {tail, << >>} \/ \E r : tail' = <<r>> /\ Appendable(r)
  <2>1. tail = << >> \/ \E r : tail = <<r>> /\ Appendable(r)
    BY Zenon DEF RecordedInv
  <2> QED
    BY <1>0, <1>1, <2>1, Zenon
<1>2. ASSUME NEW r, Appendable(r), log' = Append(log, r), tail' = << >>
      PROVE  Moves(Replayed(log), Replayed(log'), incarnation) /\ tail' = << >>
  <2>1. CallOf(r, incarnation) /\ Entry(r)
    BY <1>2, CallEntry, Zenon DEF Appendable, PublisherInv
  <2>2. Replayed(log') = ReplayRecord(Replayed(log), r)
    BY <1>2, <2>1, EntryAppended, Zenon DEF DurableInv
  <2> QED
    BY <1>2, <2>1, <2>2, ZenonT(60) DEF Moves
<1>3. CASE up /\ log' = <<ImageRecord(state, id)>> /\ tail' = << >>
  <2>2. Sound(state) /\ Similar(Replayed(log), state)
    BY <1>3 DEF DurableInv
  <2>3. Append(<< >>, ImageRecord(state, id)) = <<ImageRecord(state, id)>>
    OBVIOUS
  <2>4. Similar(state, Replayed(log'))
    BY <1>3, <2>2, <2>3, EmptyLog, ImageAppended, Zenon
  <2>5. Similar(Replayed(log), Replayed(log'))
    BY <2>2, <2>4, SimilarEquivalence, Zenon
  <2> QED
    BY <1>3, <2>5, Zenon DEF Moves
<1> QED
  BY <1>1, <1>2, <1>3, Zenon DEF LogChange

\* A record whose acceptance goes back to the publisher is recorded in the log.
LEMMA AnsweredRecorded ==
    ASSUME PublisherInv, DurableInv, DurableInv', RecordedInv,
           NEW e \in Evidence, OwnerOf(e) = <<Publisher, incarnation>>, Ingest(e),
           is_accepted(ingest_locked(state, e, TRUE, log' # log).disposition)
    PROVE  Recorded(Replayed(log'), e)
<1> DEFINE kept == ingest_locked(state, e, TRUE, FALSE).state
           full == ingest_locked(state, e, TRUE, TRUE).state
<1>1. /\ up /\ up' /\ Sound(state) /\ StateType(state) /\ Similar(Replayed(log), state)
      /\ Similar(Replayed(log'), state') /\ incarnation \in Nat /\ e \in EvidenceType
  <2>1. up /\ up'
    BY Zenon DEF Ingest
  <2>2. /\ Sound(state) /\ Similar(Replayed(log), state) /\ Similar(Replayed(log'), state')
    BY <2>1, Zenon DEF DurableInv
  <2>3. incarnation \in Nat /\ e \in EvidenceType
    BY DurableAssumption, Constants DEF PublisherInv
  <2> QED
    BY <2>1, <2>2, <2>3, Zenon DEF Sound
<1>2. Own(state, incarnation)
  BY <1>1, Zenon DEF RecordedInv, Own, Similar
<1>3. Similar(state', Replayed(log'))
  BY <1>1, SimilarEquivalence, Zenon
<1>4. \A s, t : Similar(s, t) /\ Recorded(s, e) => Recorded(t, e)
  BY SameClaimsRecorded, Zenon DEF Similar, SameRecord
<1>5. CASE NeedsAppend(state, e) /\ Commit(EvidenceRecord(e)) /\ state' = full
  <2>1. (log' # log) = TRUE
    <3>1. PICK S : log \in Seq(S)
      BY DEF DurableInv, LogSound
    <3>2. log' = Append(log, EvidenceRecord(e))
      BY <1>5 DEF Commit
    <3>3. Len(log') = Len(log) + 1 /\ Len(log) \in Nat
      BY <3>1, <3>2
    <3> QED
      BY <3>3
  <2>2. Recorded(full, e)
    BY <1>1, <1>2, <2>1, AcceptedRecorded, ZenonT(60)
  <2> QED
    BY <1>3, <1>4, <1>5, <2>2, ZenonT(60)
<1>6. CASE log' = log /\ Similar(state, state')
  <2>1. (log' # log) = FALSE
    BY <1>6
  <2>2. Recorded(kept, e)
    BY <1>1, <1>2, <2>1, AcceptedRecorded, Zenon
  <2>3. Similar(kept, state)
    BY <1>1, SimilarUnappended, SimilarEquivalence, ZenonT(60)
  <2> HIDE DEF kept
  <2>4. Similar(kept, Replayed(log'))
    BY <1>3, <1>6, <2>3, SimilarEquivalence
  <2> QED
    BY <1>4, <2>2, <2>4, Zenon
<1>7. \/ NeedsAppend(state, e) /\ Commit(EvidenceRecord(e)) /\ state' = full
      \/ log' = log /\ Similar(state, state')
  <2>1. PICK durable \in BOOLEAN :
           /\ IF NeedsAppend(state, e)
              THEN IF durable THEN Commit(EvidenceRecord(e)) ELSE FailedAppend(EvidenceRecord(e))
              ELSE UNCHANGED <<log, tail, faults>>
           /\ state' = ingest_locked(state, e, TRUE, durable).state
    BY Zenon DEF Ingest
  <2>2. CASE NeedsAppend(state, e) /\ durable
    <3>1. durable = TRUE
      BY <2>1, <2>2
    <3> QED
      BY <2>1, <2>2, <3>1
  <2>3. CASE ~NeedsAppend(state, e) \/ ~durable
    <3>1. Similar(state, state')
      BY <1>1, <2>1, <2>3, SimilarUnappended, ZenonT(60)
    <3>2. log' = log
      BY <2>1, <2>3 DEF FailedAppend
    <3> QED
      BY <3>1, <3>2
  <2> QED
    BY <2>2, <2>3, Zenon
<1> QED
  BY <1>5, <1>6, <1>7, Zenon

\* Every step keeps in the log what the publisher was told is there.
LEMMA RecordedStep ==
    ASSUME PublisherInv, PublisherInv', DurableInv, DurableInv', RecordedInv,
           [PublishingNext]_allVars
    PROVE  RecordedInv'
<1>1. /\ incarnation \in 1 .. MaxIncarnation /\ incarnation \in Nat /\ step \in 0 .. Len(Script)
      /\ Sound(Replayed(log)) /\ Own(Replayed(log), incarnation)
  BY Constants DEF PublisherInv, DurableInv, LogSound, RecordedInv
<1>2. /\ Moves(Replayed(log), Replayed(log'), incarnation)
      /\ \/ tail' = << >>
         \/ log' = log /\ \E r : tail' = <<r>> /\ Appendable(r)
  BY LogChanges, LogMoves, ZenonT(60)
<1>3. /\ Own(Replayed(log'), incarnation)
      /\ \A i \in DOMAIN Script :
            Recorded(Replayed(log), Record(incarnation, i)) =>
                Recorded(Replayed(log'), Record(incarnation, i))
  BY <1>1, <1>2, MovesKeep, RecordFields, ZenonT(60)
<1>4. ASSUME NEW i \in 1 .. step
      PROVE  Recorded(Replayed(log'), Record(incarnation, i))
  <2>1. i \in DOMAIN Script
    BY <1>1, Constants
  <2> QED
    BY <1>3, <2>1 DEF RecordedInv
<1>5. CASE incarnation' = incarnation
  <2>1. ASSUME NEW i \in 1 .. step'
        PROVE  Recorded(Replayed(log'), Record(incarnation, i))
    <3>1. CASE step' = step
      BY <1>4, <2>1, <3>1
    <3>2. CASE step' # step
      <4>1. Published /\ step' = step + 1 /\ reply = {"accepted"} /\ phase = "publishing"
        BY <1>5, <1>1, <3>2
           DEF PublishingNext, PublisherStep, ServerStep, Reopen, Connect, CallOpenSession,
               CallPublish, Send, SessionOpened, Published, CallFails, Restart, Serve, Disconnect,
               Discard, Die, allVars, publisherVars
      <4>2. step + 1 \in DOMAIN Script
        BY <1>1, <4>1, Constants DEF PublisherInv
      <4>3. Recorded(Replayed(log'), Record(incarnation, step + 1))
        BY <1>3, <4>1, <4>2, Zenon DEF RecordedInv
      <4>4. i \in 1 .. step \/ i = step + 1
        BY <1>1, <2>1, <4>1
      <4> QED
        BY <1>4, <4>3, <4>4
    <3> QED
      BY <3>1, <3>2
  <2>2. ASSUME phase' = "publishing", reply' = {"accepted"}
        PROVE  Recorded(Replayed(log'), Record(incarnation, step' + 1))
    <3>1. CASE phase = "publishing" /\ reply = {"accepted"} /\ step' = step
      <4>1. step + 1 \in DOMAIN Script
        BY <1>1, <3>1, Constants DEF PublisherInv
      <4> QED
        BY <1>3, <3>1, <4>1 DEF RecordedInv
    <3>2. CASE ~(phase = "publishing" /\ reply = {"accepted"} /\ step' = step)
      <4>1. PICK r \in requests :
               /\ Serve(r) /\ r.conn = conn /\ ~broken /\ step' = step /\ phase = "publishing"
               /\ ReplyTo(r.call, log' # log)
        BY <2>2, <3>2, ZenonT(60)
           DEF PublishingNext, PublisherStep, ServerStep, Reopen, Connect, CallOpenSession,
               CallPublish, Send, SessionOpened, Published, NextPhase, CallFails, Restart, Serve,
               Disconnect, Discard, Die, allVars, publisherVars, PublisherInv, Waits
      <4>2. r.call = EvidenceRecord(Record(incarnation, step + 1))
        BY <4>1, ZenonT(60) DEF PublisherInv, CurrentCall
      <4>3. r.call.kind = "Evidence" /\ r.call.evidence = Record(incarnation, step + 1)
        BY <4>2 DEF EvidenceRecord
      <4>4. step + 1 \in DOMAIN Script
        BY <1>1, <4>1, Constants DEF PublisherInv
      <4> DEFINE e == Record(incarnation, step + 1)
      <4>5. Ingest(e) /\ e \in Evidence
        BY <4>1, <4>3, ServeIsCall, Zenon
      <4>6. OwnerOf(e) = <<Publisher, incarnation>>
        BY <1>1, <4>4, RecordFields, Zenon
      <4>7. is_accepted(ingest_locked(state, e, TRUE, log' # log).disposition)
        BY <4>1, <4>3, ZenonT(60) DEF ReplyTo
      <4> HIDE DEF e
      <4>8. Recorded(Replayed(log'), e)
        BY <4>5, <4>6, <4>7, AnsweredRecorded, ZenonT(60)
      <4> QED
        BY <4>1, <4>8 DEF e
    <3> QED
      BY <3>1, <3>2
  <2>3. tail' = << >> \/ (tail' = <<tail'[1]>> /\ Appendable(tail[1])')
    <3>1. ASSUME NEW r, tail' = <<r>>, Appendable(r), log' = log
          PROVE  tail' = <<tail'[1]>> /\ Appendable(tail[1])'
      BY <1>5, <3>1 DEF Appendable
    <3> QED
      BY <1>2, <3>1
  <2> QED
    BY <1>3, <1>5, <2>1, <2>2, <2>3, Zenon DEF RecordedInv
<1>6. CASE incarnation' # incarnation
  <2>1. /\ incarnation' = incarnation + 1 /\ incarnation' <= MaxIncarnation
        /\ step' = 0 /\ reply' = {} /\ UNCHANGED <<log, tail>>
    <3>1. Restart
      BY <1>6, ZenonT(60)
         DEF PublishingNext, PublisherStep, ServerStep, Reopen, Connect, CallOpenSession,
             CallPublish, Send, SessionOpened, Published, CallFails, Serve, Disconnect,
             Discard, Die, allVars, publisherVars
    <3> QED
      BY <1>1, <3>1, Constants DEF Restart, vars
  <2>2. Own(Replayed(log'), incarnation')
    <3>1. /\ \A k \in DOMAIN Replayed(log).claims : k.owner[2] \in Nat
          /\ \A s \in DOMAIN Replayed(log).sources :
                Replayed(log).sources[s].current_incarnation \in Nat
      BY <1>1, Zenon DEF Sound, StateType, ClaimKey, Owner, SourceRecord
    <3> QED
      BY <1>1, <2>1, <3>1 DEF Own
  <2>3. \A r : CallOf(r, incarnation) => CallOf(r, incarnation')
    BY <1>1, <2>1, CallKnown, Zenon
  <2>4. tail' = << >> \/ (tail' = <<tail'[1]>> /\ Appendable(tail[1])')
    BY <2>1, <2>3, Zenon DEF RecordedInv, Appendable
  <2> QED
    BY <2>1, <2>2, <2>4 DEF RecordedInv
<1> QED
  BY <1>5, <1>6

-----------------------------------------------------------------------------
(***************************************************************************)
(* Repeated records.                                                       *)
(***************************************************************************)
\* The log and what it replays to are in order.
LogInv == InOrder(log, Replayed(log))

\* Appending a call keeps the log in order.
LEMMA AppendInv ==
    ASSUME PublisherInv, DurableInv, LogInv, NEW r, Appendable(r), log' = Append(log, r)
    PROVE  LogInv'
<1>1. PICK S : log \in Seq(S)
  BY DEF DurableInv, LogSound
<1>2. CallOf(r, incarnation) /\ incarnation \in 1 .. MaxIncarnation
  BY Zenon DEF Appendable, PublisherInv
<1>3. Entry(r) /\ Needed(Replayed(log), r)
  BY <1>2, CallEntry, CallKnown, Zenon DEF Needed, Appendable
<1>4. Sound(Replayed(log)) /\ LogSound(log)
  BY Zenon DEF DurableInv, LogSound
<1>5. /\ Replayed(log') = ReplayRecord(Replayed(log), r) /\ Sound(Replayed(log'))
      /\ Grows(Replayed(log), Replayed(log'))
  BY <1>3, <1>4, EntryAppended, Zenon DEF LogSound, Keeps
<1>6. InOrder(Append(log, r), ReplayRecord(Replayed(log), r))
  BY <1>1, <1>3, <1>4, <1>5, CallInOrder, Zenon DEF LogInv
<1> QED
  BY <1>5, <1>6, Zenon DEF LogInv

\* A log that is an image of a registry in order is in order.
LEMMA ImageInv ==
    ASSUME NEW st, Sound(st), NEW i,
           \A k \in DOMAIN st.claims : st.claims[k].generation <= Len(Script)
    PROVE  InOrder(<<ImageRecord(st, i)>>, Replayed(<<ImageRecord(st, i)>>))
<1>1. Append(<< >>, ImageRecord(st, i)) = <<ImageRecord(st, i)>>
  OBVIOUS
<1>2. Similar(st, Replayed(<<ImageRecord(st, i)>>))
  BY <1>1, EmptyLog, ImageAppended, Zenon
<1> QED
  BY <1>2, ImageInOrder, Zenon

\* Whatever happens to the file keeps it in order.
LEMMA LogInvStep ==
    ASSUME PublisherInv, DurableInv, LogInv, LogChange
    PROVE  LogInv'
<1>1. CASE log' = log
  BY <1>1, Zenon DEF LogInv
<1>2. ASSUME NEW r, Appendable(r), log' = Append(log, r)
      PROVE  LogInv'
  BY <1>2, AppendInv, Zenon
<1>3. CASE up /\ log' = <<ImageRecord(state, id)>>
  <2>1. Sound(state) /\ Similar(Replayed(log), state)
    BY <1>3, Zenon DEF DurableInv
  <2>2. \A k \in DOMAIN state.claims : state.claims[k].generation <= Len(Script)
    BY <2>1, Zenon DEF LogInv, InOrder, Similar, SameRecord
  <2>3. InOrder(log', Replayed(log'))
    BY <1>3, <2>1, <2>2, ImageInv, Zenon
  <2> QED
    BY <2>3, Zenon DEF LogInv
<1> QED
  BY <1>1, <1>2, <1>3, Zenon DEF LogChange

\* The log of a new registry is in order.
LEMMA LogInvInit == PublishingInit => LogInv
<1> SUFFICES ASSUME PublishingInit PROVE LogInv
  OBVIOUS
<1>1. log = <<ImageRecord(EmptyState, id)>>
  BY DEF PublishingInit
<1>2. Sound(EmptyState) /\ \A k \in DOMAIN EmptyState.claims :
                              EmptyState.claims[k].generation <= Len(Script)
  BY EmptySound
<1> QED
  BY <1>1, <1>2, ImageInv, Zenon DEF LogInv

-----------------------------------------------------------------------------
(***************************************************************************)
(* The theorems.                                                           *)
(***************************************************************************)
\* The publisher, the registry and the log are in order from the start.
LEMMA PublishingInitHolds == PublishingInit => PublisherInv /\ DurableInv /\ RecordedInv
<1> SUFFICES ASSUME PublishingInit
             PROVE  PublisherInv /\ DurableInv /\ RecordedInv
  OBVIOUS
<1>1. PublisherInv
  BY PublisherInit
<1>2. /\ Sound(EmptyState) /\ DOMAIN EmptyState.sessions = {} /\ DOMAIN EmptyState.claims = {}
      /\ LogSound(<< >>)
  BY EmptySound, EmptyLog
<1>3. /\ state = EmptyState /\ up = TRUE /\ created = TRUE /\ tail = << >> /\ acked = {}
      /\ log = <<ImageRecord(EmptyState, id)>> /\ incarnation = 1 /\ step = 0 /\ reply = {}
  BY DEF PublishingInit
<1>4. Append(<< >>, ImageRecord(EmptyState, id)) = <<ImageRecord(EmptyState, id)>>
  OBVIOUS
<1>5. LogSound(log) /\ Similar(EmptyState, Replayed(log))
  BY <1>2, <1>3, <1>4, ImageAppended, ZenonT(60)
<1>6. Similar(Replayed(log), EmptyState)
  BY <1>5, SimilarEquivalence
<1>7. DurableInv
  BY <1>2, <1>3, <1>5, <1>6, Zenon DEF DurableInv, TailKnown, AllStand
<1>8. Own(Replayed(log), incarnation)
  <2>1. EmptyState.sources = Replayed(log).sources /\ DOMAIN Replayed(log).sessions = {}
        /\ DOMAIN Replayed(log).claims = {}
    BY <1>2, <1>6, Zenon DEF Similar
  <2>2. DOMAIN EmptyState.sources = {}
    BY DEF EmptyState, EmptyFunction
  <2> QED
    BY <2>1, <2>2, Zenon DEF Own
<1>9. RecordedInv
  BY <1>3, <1>8 DEF RecordedInv
<1> QED
  BY <1>1, <1>7, <1>9

\* They stay so.
LEMMA PublishingInvHolds == PublishingSpec => [](PublisherInv /\ DurableInv /\ RecordedInv)
<1> DEFINE Inv == PublisherInv /\ DurableInv /\ RecordedInv
<1>1. PublishingInit => Inv
  BY PublishingInitHolds
<1>2. Inv /\ [PublishingNext]_allVars => Inv'
  BY PublisherInvStep, DurableKept, RecordedStep
<1> QED
  BY <1>1, <1>2, PTL DEF PublishingSpec

\* What the client was told is accepted is in the log: whatever script the publisher has,
\* and however often connections break, appends fail, the registry dies, is reopened or
\* compacted, and late requests of this or an earlier incarnation are served in between.
THEOREM LearntStaysRecorded == PublishingSpec => []LearntIsRecorded
<1>1. PublisherInv /\ DurableInv /\ RecordedInv => LearntIsRecorded
  <2> SUFFICES ASSUME PublisherInv, DurableInv, RecordedInv, NEW i \in 1 .. step
               PROVE  /\ KnownSession(Replay(log), Record(incarnation, i))
                      /\ decide(Replay(log), Record(incarnation, i)).writes = {}
    BY Zenon DEF LearntIsRecorded
  <2> DEFINE replayed == Replay(log)
             e == Record(incarnation, i)
  <2>1. /\ incarnation \in 1 .. MaxIncarnation /\ incarnation \in Nat /\ i \in DOMAIN Script
        /\ Sound(Replayed(log)) /\ Own(Replayed(log), incarnation)
        /\ Recorded(Replayed(log), e)
    BY Constants DEF PublisherInv, DurableInv, LogSound, RecordedInv
  <2>2. Sound(replayed) /\ Similar(Replayed(log), replayed)
    BY <2>1, ClearedResult DEF Replay
  <2>3. e \in EvidenceType /\ OwnerOf(e) = <<Publisher, incarnation>>
    BY <2>1, RecordFields, Zenon
  <2>4. Own(replayed, incarnation) /\ Recorded(replayed, e)
    BY <2>1, <2>2, <2>3, MovesKeep, ZenonT(60) DEF Moves
  <2>5. StateType(replayed)
    BY <2>2 DEF Sound
  <2> QED
    BY <2>1, <2>3, <2>4, <2>5, RecordedIsNoNews, ZenonT(60)
<1> QED
  BY <1>1, PublishingInvHolds, PTL

\* A record is in the log twice only when a later record of its stream was recorded in
\* between or before: a client that repeats what it does not know to be recorded, as often
\* as it likes and over any number of restarts, does not make the log grow by it.
THEOREM RepeatsStayOvertaken == PublishingSpec => []RepeatsWereOvertaken
<1> DEFINE Inv == PublisherInv /\ DurableInv /\ RecordedInv
<1>1. PublishingInit => LogInv
  BY LogInvInit
<1>2. Inv /\ LogInv /\ [PublishingNext]_allVars => LogInv'
  BY LogChanges, LogInvStep
<1>3. LogInv => RepeatsWereOvertaken
  BY Zenon DEF LogInv, InOrder, RepeatsWereOvertaken
<1>4. PublishingSpec => []Inv
  BY PublishingInvHolds
<1> HIDE DEF Inv
<1> QED
  BY <1>1, <1>2, <1>3, <1>4, PTL DEF PublishingSpec
==================================================================================
