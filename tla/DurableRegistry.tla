----------------------------- MODULE DurableRegistry -----------------------------
(***************************************************************************)
(* The registry with a store: every accepted record is appended to the log *)
(* before it is applied and acknowledged; a process that dies forgets its  *)
(* memory, and Open rebuilds it by replaying the log through the same      *)
(* ingest_locked.  The file format is the subject of module Store; here    *)
(* the log is a sequence of records and an append succeeds or fails.       *)
(*                                                                         *)
(* A failed append can leave its record in the file beyond the committed   *)
(* end, where the next append overwrites it and the next Open finds it.    *)
(* The same holds for the record in flight when the process dies.          *)
(***************************************************************************)
EXTENDS StateImage, RegistryGraph, Sequences

CONSTANTS
    Evidence,   \* the evidence records that exist
    Openings,   \* the OpenSession calls
    MaxLog,     \* bound: records in the log
    MaxFaults,  \* bound: failed appends, crashes and compactions
    Ids,        \* the registry identities that can be minted
    NilId       \* no identity

ASSUME DurableAssumption ==
    /\ Evidence \subseteq EvidenceType
    /\ Openings \subseteq [source: SourceId, authority: Nat, incarnation: Nat]
    /\ MaxLog \in Nat /\ MaxFaults \in Nat /\ NilId \notin Ids

VARIABLES
    up,         \* the registry is open
    state,      \* its memory; EmptyState while it is down
    id,         \* its identity, or the last one it had while it is down
    created,    \* the log file exists and has its header
    log,        \* the committed records
    tail,       \* at most one record beyond the committed end
    faults,     \* how many of the bounded events happened
    acked,      \* history: the session openings and evidence acknowledged
    lifetime    \* history: the evidence ingested since the last Open

vars == <<up, state, id, created, log, tail, faults, acked, lifetime>>

OpenRecord(o) == [kind |-> "SessionOpen", opening |-> o]
CloseRecord(w) == [kind |-> "SessionClose", owner |-> w]
EvidenceRecord(e) == [kind |-> "Evidence", evidence |-> e]

\* Mutation: compaction leaves the claims of fenced incarnations out.
ImageRecord_unfenced(st, i) ==
    LET kept == {k \in DOMAIN st.claims : ~session_is_fenced(st, k.owner)}
    IN  [kind |-> "StateSnapshot", id |-> i,
         image |-> [sources |-> st.sources, sessions |-> clear_volatile(st).sessions,
                    claims |-> [k \in kept |-> clear_volatile(st).claims[k]]]]

\* encode_state of a state whose volatile part is cleared.
ImageRecord(st, i) ==
    [kind |-> "StateSnapshot", id |-> i,
     image |-> [sources |-> st.sources, sessions |-> clear_volatile(st).sessions,
                claims |-> clear_volatile(st).claims]]

-----------------------------------------------------------------------------
(***************************************************************************)
(* Replay.                                                                 *)
(***************************************************************************)
\* The visitor of Registry::Open.  SessionOpen does not touch the live and closed flags.
ReplayRecord(st, r) ==
    CASE r.kind = "StateSnapshot" ->
            [st EXCEPT !.sources = r.image.sources, !.sessions = r.image.sessions,
                       !.claims = r.image.claims, !.label_index_valid = FALSE]
      [] r.kind = "SessionOpen" ->
            apply_session_open(st, r.opening.source, r.opening.authority, r.opening.incarnation)
      [] r.kind = "SessionClose" -> set_session_live(st, r.owner, FALSE)
      [] r.kind = "Evidence" -> ingest_locked(st, r.evidence, FALSE, TRUE).state

\* What the visitor can decode; anything else ends Open with CorruptStore.
Decodes(r) ==
    CASE r.kind = "StateSnapshot" -> decode_state(r.image)
      [] r.kind = "SessionOpen" -> r.opening.incarnation > 0
      [] r.kind = "SessionClose" -> TRUE
      [] r.kind = "Evidence" -> decode_evidence(r.evidence)

Replays(records) == \A n \in DOMAIN records : Decodes(records[n])

\* The next state, chosen from a set of one so that TLC evaluates it once and not at
\* every use.
ReplayNext(st, r) ==
    CHOOSE new \in {ReplayRecord(before, r) : before \in {st}} : new = new

\* The records one after the other.
Replayed(records) ==
    LET after[n \in 0 .. Len(records)] ==
            IF n = 0 THEN EmptyState ELSE ReplayNext(after[n - 1], records[n])
    IN  after[Len(records)]

\* Registry::Open clears what a restart forgets when the replay is done.
Replay(records) == clear_volatile(Replayed(records))

\* The identity the last image carries, if there is one.
StoredId(records) ==
    LET images == {n \in DOMAIN records : records[n].kind = "StateSnapshot"}
    IN  IF images = {} THEN NilId ELSE records[Max(images)].id

-----------------------------------------------------------------------------
Init ==
    /\ up = FALSE /\ state = EmptyState /\ id = NilId
    /\ created = FALSE /\ log = << >> /\ tail = << >>
    /\ faults = 0 /\ acked = {} /\ lifetime = {}

Fault == faults < MaxFaults /\ faults' = faults + 1

\* Store::Append returned success.
Commit(r) ==
    /\ Len(log) < MaxLog
    /\ log' = Append(log, r)
    /\ tail' = << >>
    /\ UNCHANGED faults

\* It failed: nothing was written, part of the record was, or all of it was but the sync
\* failed.
FailedAppend(r) ==
    /\ Fault
    /\ log' = log
    /\ tail' \in {tail, << >>, <<r>>}

\* random_id128: not the identity the registry had before.
Mint == Ids \ {id}

\* Registry::Open on a missing file: header, then the bootstrap image, which must be
\* durable for Open to succeed.
OpenNew ==
    /\ ~up /\ ~created
    /\ created' = TRUE
    /\ \E fresh \in Mint :
          \/ Commit(ImageRecord(EmptyState, fresh)) /\ up' = TRUE /\ id' = fresh
          \/ FailedAppend(ImageRecord(EmptyState, fresh)) /\ UNCHANGED <<up, id>>
    /\ UNCHANGED <<state, acked, lifetime>>

\* Registry::Open on an existing file.  What a failed append left may be there or not.
\* A log without an image has no identity, so one is drawn; it is not written.  A record
\* that does not decode ends the call: the store is closed and the registry stays down.
OpenExisting ==
    /\ ~up /\ created
    /\ tail' = << >>
    /\ \E found \in {log, log \o tail} :
          /\ log' = found
          /\ up' = Replays(found)
          /\ state' = IF Replays(found) THEN Replay(found) ELSE EmptyState
          /\ id' \in IF ~Replays(found) THEN {id}
                     ELSE IF StoredId(found) # NilId THEN {StoredId(found)} ELSE Mint
    /\ lifetime' = {}
    /\ UNCHANGED <<created, faults, acked>>

OpenSession(o) ==
    /\ up
    /\ IF opens(open_disposition(state, o.source, o.authority, o.incarnation))
       THEN \/ /\ Commit(OpenRecord(o))
               /\ state' = set_session_live(
                              apply_session_open(state, o.source, o.authority, o.incarnation),
                              <<o.source, o.incarnation>>, TRUE)
               /\ acked' = acked \cup {OpenRecord(o)}
            \/ FailedAppend(OpenRecord(o)) /\ UNCHANGED <<state, acked>>
       ELSE UNCHANGED <<log, tail, faults, state, acked>>
    /\ UNCHANGED <<up, id, created, lifetime>>

CloseSession(w) ==
    /\ up /\ w \in DOMAIN state.sessions
    /\ \/ Commit(CloseRecord(w)) /\ state' = set_session_live(state, w, FALSE)
       \/ FailedAppend(CloseRecord(w)) /\ state' = state
    /\ UNCHANGED <<up, id, created, acked, lifetime>>

\* Mutation: memory is changed whether the append succeeded or not.
Ingest_undurable(e) ==
    /\ up
    /\ IF NeedsAppend(state, e)
       THEN Commit(EvidenceRecord(e)) \/ FailedAppend(EvidenceRecord(e))
       ELSE UNCHANGED <<log, tail, faults>>
    /\ state' = ingest_locked(state, e, TRUE, TRUE).state
    /\ UNCHANGED <<up, id, created, acked, lifetime>>

\* Append first; memory and acknowledgement only after it succeeded.
Ingest(e) ==
    /\ up
    /\ \E durable \in BOOLEAN :
          LET result == ingest_locked(state, e, TRUE, durable)
          IN  /\ IF NeedsAppend(state, e)
                 THEN IF durable THEN Commit(EvidenceRecord(e)) ELSE FailedAppend(EvidenceRecord(e))
                 ELSE UNCHANGED <<log, tail, faults>>
              /\ state' = result.state
              /\ acked' = IF is_accepted(result.disposition) THEN acked \cup {EvidenceRecord(e)}
                          ELSE acked
              /\ lifetime' = IF NeedsAppend(state, e) /\ durable
                             THEN lifetime \cup {e} ELSE lifetime
    /\ UNCHANGED <<up, id, created>>

\* One image replaces the log, atomically for whoever reads the file next.
Compact ==
    /\ up /\ Fault
    /\ log' = <<ImageRecord(state, id)>>
    /\ tail' = << >>
    /\ UNCHANGED <<up, state, id, created, acked, lifetime>>

\* The records whose append may be in flight.
InFlight ==
    {EvidenceRecord(e) : e \in {x \in Evidence : NeedsAppend(state, x)}}
    \cup {OpenRecord(o) : o \in {x \in Openings :
             opens(open_disposition(state, x.source, x.authority, x.incarnation))}}
    \cup {CloseRecord(w) : w \in DOMAIN state.sessions}

\* The process dies, or closes the registry and exits.
Crash ==
    /\ up /\ Fault
    /\ up' = FALSE /\ state' = EmptyState
    /\ tail' \in {tail} \cup {<<r>> : r \in InFlight}
    /\ Len(log) < MaxLog
    /\ lifetime' = {}
    /\ UNCHANGED <<id, created, log, acked>>

Next ==
    \/ OpenNew
    \/ OpenExisting
    \/ \E o \in Openings : OpenSession(o)
    \/ \E w \in DOMAIN state.sessions : CloseSession(w)
    \/ \E e \in Evidence : Ingest(e)
    \/ Compact
    \/ Crash

Spec == Init /\ [][Next]_vars

-----------------------------------------------------------------------------
(***************************************************************************)
(* Invariants.                                                             *)
(***************************************************************************)
\* Memory and history have their types; the bounds hold.
TypeOK ==
    /\ StateType(state)
    /\ up \in BOOLEAN /\ created \in BOOLEAN
    /\ id \in Ids \cup {NilId}
    /\ Len(log) <= MaxLog /\ Len(tail) <= 1 /\ faults \in 0 .. MaxFaults
    /\ lifetime \subseteq Evidence

\* Replaying the log at any moment rebuilds what memory holds: the sources with their
\* fences, the sessions and every claim with its ring, up to freshness.  So a crash
\* loses nothing that was applied, nothing is applied that the log does not hold, and
\* compaction changes nothing.  The high-water marks and the closed flags are not
\* compared: a refused record raises a mark, and a reopened session clears a flag, that
\* replay does not see; neither is read by a decision.
MemoryMatchesLog ==
    up => LET replayed == Replay(log)
          IN  /\ replayed.sources = state.sources
              /\ DOMAIN replayed.sessions = DOMAIN state.sessions
              /\ replayed.claims = clear_volatile(state).claims

\* "The record is made durable before the call returns": whatever crashes, failed
\* appends and compactions happened since, an acknowledged record still stands. Nothing
\* it said would be news to the registry, and an acknowledged incarnation stays fenced in.
\* Excepted, as in RetryKeepsWinners, is a replacement the object has fallen back from.
AcknowledgedSurvives ==
    up => \A r \in acked :
        CASE r.kind = "SessionOpen" ->
                /\ r.opening.source \in DOMAIN state.sources
                /\ state.sources[r.opening.source].current_incarnation >= r.opening.incarnation
          [] r.kind = "Evidence" ->
                /\ KnownSession(state, r.evidence)
                /\ Unreached(state, r.evidence) \/ decide(state, r.evidence).writes = {}

\* "Loading a store never makes old evidence fresh": under LiveOnly every claim cited in
\* an answer about a port or a side was ingested since the last Open, and the snapshot
\* envelope counts no more live claims than that.
RecoveredNeverFresh ==
    LET PortClaims(p) == UNION {x.claims : x \in derive_port_view(state, p, "LiveOnly").edges}
        SideClaims(s) == derive_subject(state, s, "LiveOnly").top
        FromLifetime(K) == \A k \in K : \E e \in lifetime : state.claims[k].evidence = e.id
    IN  /\ \A p \in Named(state, "port") : FromLifetime(PortClaims(p))
        /\ \A s \in Named(state, "subject") : FromLifetime(SideClaims(s))
        /\ SnapshotMetadata(state).claims_live <= Cardinality(lifetime)

\* Whatever was published, well formed or not, the log holds no session or evidence record
\* that a later Open cannot decode: validation lets nothing through that the decoder refuses.
AppendedDecodes ==
    \A n \in DOMAIN (log \o tail) :
        (log \o tail)[n].kind # "StateSnapshot" => Decodes((log \o tail)[n])

-----------------------------------------------------------------------------
(***************************************************************************)
(* Statements of the documentation that the code does not meet.            *)
(***************************************************************************)
\* "A nil value makes the registry mint one, which is then persisted with the first
\* record": the identity never changes once the registry has one.
IdentityPersists == [][id # NilId => id' = id]_vars

\* Compaction "rewrites the log and preserves the graph": the store that a registry wrote can
\* be opened again, under the limits it was written under.
CompactedOpens == Replays(log)

\* "Validated: every winning claim was asserted in this lifetime": a side that is
\* reported Validated rests on no recovered claim of the winning authority.
ValidatedRestsOnFreshClaims ==
    \A k \in {j \in DOMAIN state.claims : j.map = "subject"} :
        derive_subject(state, k.id, "IncludeAll").validation = "Validated" =>
            \A j \in TopAuthority(state, LiveSubjectKeys(state, k.id, "IncludeAll")) :
                state.claims[j].asserted_in_lifetime
==================================================================================
