# Verification of the Cable Attachment Registry

TLA+ models of the registry, its store and its transport, the TLC runs that check
them, and TLAPS proofs about the registry, its log and its transport. Source paths are
relative to the repository root; every definition that models code is mapped to its
lines in `PROJECT.json`.

## The system

A registry collects *evidence* about which side of which physical object (cable,
cord, adapter) is plugged into which port of which endpoint. Evidence comes from
*sources*; each run of a source is an *incarnation*, and inside it records carry a
*generation*. A higher incarnation *fences* the claims of the lower ones; a
replacement of a physical unit advances the *object incarnation* and fences claims
about the old unit. Nothing is decided when a record arrives except which record
wins its claim key; every answer is derived from the folded records when asked.

| Part | Code | Module |
| --- | --- | --- |
| folded state, fencing, images | `src/detail/registry_state.hpp`, `src/registry_state.cpp` | `RegistryState` |
| derivation of sides, lifecycle, capabilities | `src/registry.cpp` 285-794 | `RegistryViews` |
| port and object answers, counters, snapshot and its envelope, history | `src/registry.cpp` 1783-2813, 2883-2898, 3380-3396, 3510-3540 | `RegistryGraph` |
| queries, inspection, statistics | `src/registry.cpp` 2815-2898, 3235-3264, 3283-3378, 3403-3545 | `RegistryQueries` |
| what a receiver can decode, canonical order | `src/serialization.cpp` 591-1102, `src/snapshot.cpp` | `AnswerCodec`, `RegistryAnswers` |
| validation, decide, folding, sessions | `src/registry.cpp` 123-1774, 2543-2560, 3105-3233 | `RegistryIngest` |
| the registry in memory | `src/registry.cpp`, `registry.hpp` | `Registry` |
| two registries fed in different orders | the same | `ArrivalOrder` |
| the registry with a store | `src/registry.cpp` 2932-3078, 3547-3572 | `DurableRegistry` |
| what an open can decode of the log | `src/registry_state.cpp` 24-352, 473-612, `src/serialization.cpp` 405-539 | `StateImage` |
| the lock around the public methods | `src/registry.cpp` 3105-3583, `registry.hpp` | `RegistryLock` |
| the log file | `src/persistence.cpp`, `src/detail/file_io.cpp` | `Store`, `AtomicLog` |
| loopback server, client, sockets, frames | `src/ipc/*` | `Ipc` |
| a publisher over the transport to a durable registry | `src/ipc/client.cpp` 128-228, `src/ipc/server.cpp` 115-155, `examples/publish_over_tcp.cpp` | `Publishing` |
| bytes, digests, rendering, vocabulary, command line | `src/codec.cpp`, `src/digest.cpp`, `src/render.cpp`, ... | not modelled |

Modules build on each other: `RegistryState` < `RegistryViews` < `RegistryGraph` <
`RegistryQueries` < `AnswerCodec`; `RegistryViews` < `RegistryIngest` < `StateImage`;
`RegistryIngest` and `RegistryGraph` < `Registry`, `ArrivalOrder`; `Registry` and
`AnswerCodec` < `RegistryAnswers`; `StateImage` and `RegistryGraph` < `DurableRegistry` <
`Publishing`. `RegistryLock`, `Store` with `AtomicLog`, and `Ipc` stand alone. Proofs
about a module `M` are in `M_proofs`, with these exceptions. `RegistryRules_proofs`
continues `Registry_proofs` with what the answers depend on and with the rules that need
lookups, ranks and counting. `RegistryIngest_proofs` also has what the proofs about
`Registry`, `DurableRegistry` and `Publishing` share: when two states decide alike, and
what accepting a record leaves behind. `PublishedRecords_proofs` has the part of the proofs
about `Publishing` that needs no log. `Threads_proofs` is about `RegistryLock` and `Ipc`.

## How the models correspond to the code

**RegistryState.** The eight claim maps are one function `claims` from tagged keys to
folded records (`generation`, `evidence`, `authority`, `asserted_in_lifetime`,
`value` and the ring `superseded`). An authority, which the code orders totally, is a
number. Timestamps, names, reasons, serials, session counters and the refusal audit
are left out. The strings are read by one decision, whether a record that reuses a
generation repeats the stored one, so two records that differ in nothing but a string
are one record in the models.

**RegistryIngest.** `ingest_locked(st, e, live, durable)` is the whole write path as
a function: shape check, session lookup, `decide` with its early returns in order,
the append, `apply_change` with its rings and label index, the high-water mark. Live
ingestion and replay use the same definition, as in the code. `durable` says whether
the append succeeds. In `decide` an attachment record is refused as a whole when one
key collides; otherwise each key is resolved on its own.

**RegistryViews, RegistryGraph.** Pure functions of a state, one per derivation
function. Claims are cited by key. `build_snapshot` returns what the canonical
encoding contains, so equal values mean equal digests. A history is the set of events that
the code sorts.

**RegistryQueries.** One operator per other query, and what it computes under the lock. A
list that ends at a bound is some subset of the right size. `SideEdges` keeps the ports of a side sorted and its slots in
owner order, as `derive_subject` does.

**AnswerCodec, RegistryAnswers.** A field that is decoded is the field that was encoded;
each `decode_` operator is the condition under which the decoder accepts, with every list
the decoder bounds. The properties of answers are stated over the states of `Registry`.

**Registry.** One action per public call that changes state: `OpenSession`,
`CloseSession`, `Ingest`, `Close`. All run under the exclusive lock, so a call is one
step. A batch is a sequence of `Ingest` steps. `accepted` is a history variable.

**DurableRegistry.** The log is a sequence of records and `tail` holds what a failed
or interrupted append may have left beyond the committed end. `Open` replays the log;
`Compact` replaces it by one image. An open fails where a record does not decode
(`StateImage`): the bounds `decode_state` applies, products of limits in 32 bits
included (`U32`), and the checks of `decode_evidence`.

**RegistryLock.** Threads that call the public methods. The state is reduced to two
halves, the records about sides and those about ports, that a write changes one after
the other and a query reads one after the other; a change is a number. `QueryTopology`
takes the shared lock again for every endpoint. The lock is external, and the C++ standard
leaves open whether a waiting writer holds off new readers (`WriterPreference`). It does
with MSVC, the platform the repository is validated on, whose `std::shared_mutex` is a slim
reader/writer lock: a shared request queues behind a waiting writer even when its thread
already holds a share. It does not with the default `pthread_rwlock`.

**Publishing.** `DurableRegistry` behind connections. The publisher follows a script of
records; it is what `examples/publish_over_tcp.cpp` does, with the loop of a caller that
does not give up: after a failed call it connects again, reopens its session and repeats
the record, and when it is restarted it begins again under the next incarnation. A
connection that breaks leaves its request with the server, which may serve it at any
later time. The steps inside a connection are those of `Ipc`.

**Store.** The file is a sequence of cells; a cell remembers the chain of records it
was written for, which is how checksums, sequence numbers and the SHA-256 chain are
modelled (taken as collision-free). A write may stop short, a sync may fail, the
process may die between any two steps, the power may fail and keep a prefix of what
was not synced, a cell may rot. A write past the end of the file leaves a hole. A rename
can fail (`RenameFails`), and so can opening the log again after one that succeeded
(`ReopenFails`). Disk and file system are external.

**AtomicLog.** What the store promises: acknowledged records stay, in order;
unacknowledged ones may appear, be replaced or vanish. `Store!KeepsPromise` is the
refinement, mapping the abstract log to what an open at this moment would load.

**Ipc.** The acceptor, a thread per connection, the threads that wait for shutdown
and call `Stop`, and clients. A block under the mutex is one step; the atomic stop
flag and notifications outside the mutex are steps of their own. A request is
reduced to the kinds the transport tells apart (answered, too large for the server,
reply too large for the client, for the server or for the buffers of the socket). The
server's `send_all` waits for room in slices and then hands the rest of the reply to a
`::send` that blocks: the slices are `CheckStop` and `SliceEnds`, the blocking call is the
place "sending", which `SendEnds` leaves when the client has made room or is gone. A client
that is suspended in a call (`Stall`) makes none. Spurious wake-ups are left out.

## What the runs check

Passing runs (`tlc -config <cfg> <module>`):

| Run | Instance | Shows |
| --- | --- | --- |
| attachment | 2 sources, 2 cables, 2 ports, 13 records, one restart | `NewestGenerationWins`, `ClaimsBelongToSessions`, `SubjectBackedByPort`, `BoundedRecords`, `RetryKeepsWinners`, `FencedEvidenceNeverBinds`, `NothingForgotten` |
| lifecycle | 3 sources (one of higher authority), 2 objects that want one label, a replacement | `RetirementSticky`, `LabelReuseRefused`, `LabelIndexComplete`, `FencedEvidenceNeverBinds`, `HistoryCitesAccepted`, `DescriptionsAgree` |
| arrival_order | two registries, 7 records, 3 openings, every order | `SameEvidenceSameGraph` |
| durable | 3 records, 2 incarnations, log of 4, 2 faults | `MemoryMatchesLog`, `AcknowledgedSurvives`, `RecoveredNeverFresh`, `AppendedDecodes` |
| store | a short and a long record, log of 3, 4 faults, fsync on, renames fail | `KeepsPromise`, `BookkeepingMatchesFile`, `AcknowledgedServed` |
| store_damage | the same with 3 faults, one rotten cell, SalvagePrefix, reopens fail, no power loss | `NothingSpliced` |
| ipc_limit | 2 clients, 1 connection allowed, failing calls, replies that fill the socket, an outside stopper | `ConnectionsCounted`, `QuietAfterStop`, `StopReturns`, `ShutdownHonoured` |
| ipc_frames | 1 client, 4 requests, all kinds of requests and replies, failing calls | `AnswerIsForRequest`, `NobodyLeftWaiting` |
| lock | 3 threads, 2 endpoints visited, 2 changes, shared requests queue behind writers | `AnswersAtOneInstant`, `NothingAcceptedAfterClose`, `OnlyNestedWaits` |
| publishing | 3 records, 2 faults, 2 publisher incarnations, compactions | `LearntIsRecorded`, `GraphFollowsPublisher`, `RepeatsWereOvertaken`, `ScriptCompleted` |

`StopReturns` and `NobodyLeftWaiting` say on what they depend. `Stop` waits for a
connection that is inside a blocking `::send`, so it returns unless a client leaves such a
reply unread for good (`HeldUp`). A call returns unless that holds up `Stop`, or the server
deserts the client (`Deserted`): a failed `accept` ended the acceptor, or the reply could
not be framed. Both cases are in the runs; what happens in them is `ThreadsNeverBlock` and
`CallsReturn` below.

`attachment` and `ipc_limit` also check the type invariant of their module, and
`Threads_proofs` and `PublishedRecords_proofs` prove those of the lock and of the
publisher. Those of `DurableRegistry` and `Store` document the variables.

**Bounds.** In the registry runs every record may come at any time, any number of
times or never, so all arrival orders of the instance are covered; rings hold one
entry and limits are small, so that trimming and refusals happen. `durable` has one
source with two incarnations, two faults and a log of four (`MaxFaults`, `MaxLog`):
enough for a failed append, a crash, and a restart that fences what was recovered. Its
two registry identities are only compared and all its properties are invariants, so
the symmetry is sound. The store needs a short and a long record so that an append can
overwrite a part of another, and four faults for a failure, a crash, another failure and
a power loss in a row (`MaxRecords`, `MaxFaults`, `MaxDamage`). `store` has renames that
fail and `store_damage` reopens that fail; both at once is StRestored. Two clients against one connection
reach every refusal and every change of the counter (`MaxRequests` bounds the calls of
a client). Writes are assumed to reach the disk in the order of the file, so a power
loss keeps a first part of what was not synced. `store_damage` has no power loss, after
which an unacknowledged record that was overwritten may come back. The loss of a
directory entry (`DirectoryDurable = FALSE`) is exercised by StDirectory only.

`lock` needs a topology query, a writer and a third thread that closes or queries; two
changes tell old halves from new ones and from those between, and two endpoints let a
query lock again after it has returned from a nested lock.
`publishing` has a script that registers, attaches and moves, so that a late request can
come back after the move; two faults give a lost reply and a crash. Its `MaxSources` is
4 although there is one source: with 1, a compaction after the restart of the publisher
leaves an image that cannot be opened, which is the finding of `st_image`.

Deadlock is not checked where the system may stop: `durable` and `store` end when
their bounds are used up, in `publishing` the script ends, in `Ipc` everyone may be
done, and in `lock` the changes end and threads can wait for each other (`st_nested`).

## Statements the code does not meet

Each of these runs checks one sentence of the documentation, and TLC finds a behaviour
of the code that breaks it. The findings in `PROJECT.json` quote the sentence.

| Run | Property | What happens |
| --- | --- | --- |
| st_nested | `NoCircularWait` | a topology query holds the shared lock and asks for it again; a writer that asked in between waits for the query, and the query is queued behind the writer |
| st_image | `CompactedOpens` | a source restarts and publishes again, the log is compacted, and the image holds more records under a key than an open accepts |

### Further statements

These are not among the runs of `PROJECT.json`. Each checks one sentence in the same
way, and TLC reports each of them violated. Where a configuration `St*.cfg` is named, run
`tlc -config <cfg> <module>` with the module
`MCArrivalOrder` (StReplacement), `MCDurable` (StIdentity, StFreshClaims), `MCStore`
(StReopen, StStrict, StDirectory, StRestored), `MCIpc` (StUnframed, StOutlives, StTwoStops, StBatch),
`MCRegistryLock` (StStarved) or `MCStatements` (StSlots), after the changes to
the configuration that are named with it. Where a scenario is named (records, openings),
run `MCStatements` with `StSlots.cfg` after setting `Evidence` and `Openings` to the two
names and the property to the one listed.

- `EdgeSlotClaimed` (StSlots.cfg, `src/registry.cpp:612`): derive_subject sorts the ports of a side and removes repeats, but leaves the parallel list of slots in the order of the owners, and derive_object_view (registry.cpp:2299) pairs the two by position. When two equal authorities place one side at two ports in different slots, the side's edges carry the slot of the other port. include/cable_registry/ids.hpp:166 says of a slot: "Zero based slot of one attachment inside a port that declares a multi-attachment capability. Always zero on an exclusive port."
- `FencedClaimNeverRebinds` (a PROPERTY; Replacement, RestartingSource; `src/registry_state.cpp:356`): object_incarnation_of is one, or the highest target of the reincarnation records of source incarnations that are not fenced. When the reporter of the replacement opens a new incarnation its record stops counting, the object falls back to incarnation 1, and an attachment claim made against unit 1 takes part in answers again. include/cable_registry/evidence.hpp:196 says of such a claim: "Recorded, currently fenced by a newer incarnation of the physical object. It can never bind again."
- `UndamagedOpens` (StReopen.cfg, `src/persistence.cpp:365`): A failed append leaves its bytes beyond the committed end; the next, shorter append overwrites their beginning only. After a crash the scan meets the middle of the old record behind the last good one, reads it as a header, and refuses the file as corrupt. README.md:267 says an incomplete final record is truncated away "because refusing to open a store that a crash tore would turn an expected event into data loss".
- `DamageBeforeTailIsFatal` (StStrict.cfg, `src/persistence.cpp:361`): A record whose frame length reads past the end of the file is taken for an incomplete tail before any checksum is looked at, wherever it is; a damaged length in the middle of the log truncates all later acknowledged records away. README.md:270 says: "damage anywhere else is fatal under the default Strict policy."
- `RestoredUsable` (StRestored.cfg, `src/persistence.cpp:693`): When a rename succeeds and the new log cannot be opened, Rewrite returns with the offset, sequence and chain of the old log, which is gone (persistence.cpp:702). If the rename of a later Rewrite fails, the restore path opens the file under the log's name with that bookkeeping: the next append is written past the end of the shorter log under a sequence number that does not follow, synced and acknowledged, and the scan of the next open stops before it. The comment at src/persistence.cpp:693 says: "Put the store back into a usable state against the original log."
- `CallsReturn` (a PROPERTY; StUnframed.cfg, `src/ipc/server.cpp:58`): encode_frame returns nothing for a payload over the limit, send_frame returns without sending, and the connection goes on to read the next request, while the client waits for a reply without a deadline. README.md:243 says: "Failures travel as typed Failure frames and never as an empty success.", and README.md:381 "A snapshot that does not fit one frame is refused rather than truncated". With `Kinds = {"Call"}` and `CallsFail = TRUE` it fails in another way (`src/ipc/server.cpp:367`): a failed accept ends the acceptor, the listener stays open, and a client in its backlog waits for the greeting.
- `ThreadsNeverBlock` (a PROPERTY; StUnframed.cfg with it in place of the other, `src/ipc/socket.cpp:371`): once select has found room for some bytes, send_all gives the rest of the reply to ::send on a blocking socket, which returns when the socket has taken all of it and does not look at the stop flag. A client that stops reading holds up the thread, and with it Stop. README.md:251 says: "The connection loops never block indefinitely inside the operating system", as does the comment at src/ipc/server.cpp:16.
- `AttachmentIsSymmetric` (SameSlot, TwoSources; `src/registry.cpp:1816`): derive_port_view drops an occupied port record that its subject record no longer backs, but derive_subject (registry.cpp:541) never asks whether the port record still names the side. When one source attaches o1 and then o2 to the same slot, the slot record names o2 only, while o1 is still reported Attached to that port. README.md:62 says an attach "binds the object side to a port and, symmetrically, the port to the object side."
- `HighestAuthorityWins` (TwoPlaces, TwoSources; `src/registry.cpp:1849`): derive_port_view compares authorities among the records of that one port only, and subject_double_booked asks for equal authorities. A side that authority 2 places at port 1 is therefore still an undisputed edge of port 0 on the word of authority 1. README.md:74 says: "Across sources, the highest authority wins."
- `ValidatedBySourcesLive` (OneAttachment, TwoSources; `src/registry.cpp:3212`): CloseSession clears the session's live flag and leaves asserted_in_lifetime of its claims alone; validation is computed from that flag only, so the answer stays Validated although its source is no longer live. include/cable_registry/graph.hpp:33 says: "Every winning claim was asserted in this lifetime by a live source."; include/cable_registry/registry.hpp:152 says of CloseSession "only freshness changes".
- `AcceptedFromOpenSession` (a PROPERTY; OneAttachment, TwoSources; `src/registry.cpp:1719`): ingest_locked looks the session up and does not read its live or closed flag, so a record published after CloseSession is accepted. include/cable_registry/evidence.hpp:156 says of the incarnation: "Must match an open session."
- `DuplicateMeansSameContent` (TwoIncarnations, TwoSources; `src/registry.cpp:1505`): For SetLifecycle, decide compares the action and the reason text and not the object incarnation, so a record of the same generation about another object incarnation is a Duplicate and is not stored. include/cable_registry/evidence.hpp:151 says a record is "a duplicate only when its content matches too; otherwise it is refused as a generation collision."
- `PortRecordsWithinLimit` (SlotMove, TwoSources, `MaxClaimsPerPort = 1`; `src/registry.cpp:1411`): port_capacity_reached is asked for each of the two port keys of a Move before either is stored, so a move between two new slots of one port adds two records where one is allowed. README.md:315 says: "A registry that would exceed a bound refuses the work with RefusedCapacity or RefusedInvalid instead of growing without limit."
- `SameEvidenceSameIncarnation` (StReplacement.cfg, `src/registry.cpp:1585`): When two sources report the same replacement, the second report to arrive is accepted and stored nowhere: it only asks for a ring entry, on a key that has no winner. If the source of the first report then restarts, its record is fenced; the registry that stored the other source's report keeps incarnation 2, the one that stored only the fenced report returns to 1. include/cable_registry/evidence.hpp:125 says: "The registry folds reincarnation as a maximum over target incarnations, so the resulting incarnation does not depend on the order the records arrived in."
- `SameEvidenceSameGraph` (StReplacement.cfg with `Evidence <- MCReissued` and this invariant, `src/registry.cpp:285`): A record of the same generation and content under a new evidence id is a Duplicate, so the id that arrived first stays the stored one; it is part of the exported claims and of the provenance image. README.md:303 says: "Two independent registries that accepted the same evidence set produce the same graph_digest() whatever order the records arrived in".
- `IdentityPersists` (StIdentity.cfg, `src/registry.cpp:3054`): The bootstrap image that carries the identity is written only when the file is new. If that append fails, the file exists without it: each later Open mints an identity, never writes it, and the next Open mints another, although records are stored in between. include/cable_registry/registry.hpp:29 says: "A nil value makes the registry mint one, which is then persisted with the first record."
- `ValidatedRestsOnFreshClaims` (StFreshClaims.cfg, `src/registry.cpp:582`): When attached and detached claims have the same authority, derive_subject combines the two sides' states with any-Validated as the all argument, so one renewed claim makes the whole answer Validated. include/cable_registry/graph.hpp:33 says: "Every winning claim was asserted in this lifetime by a live source."
- `ServedSurvives` (a PROPERTY; StReopen.cfg with it in place of the invariant, `src/persistence.cpp:471`): A record whose append failed at the sync is found and served by the next open, which does not sync a clean log. A retry of the record is a Duplicate and appends nothing, and a power loss then removes it. include/cable_registry/evidence.hpp:228 says of accepted dispositions, Duplicate included: "True when the record was durably stored, whatever its later effect is."
- `DamageBeforeTailIsFatal` (StStrict.cfg with `Strict = FALSE`, `src/persistence.cpp:439`): Under SalvagePrefix every scan stop is recoverable, so damage to an early record discards all later ones and the open succeeds. include/cable_registry/persistence.hpp:28 says: "Damage anywhere other than the tail is still fatal."
- `AcknowledgedServed` (StDirectory.cfg, `src/detail/file_io.cpp:273`): atomic_replace renames and the directory is never synced, nor is it when the log is created. On a file system that keeps the old directory entry over a power loss, records appended and fsynced to the new file after a compaction are gone. README.md:282 says: "Every acknowledged record is flushed to stable storage before the call returns when StoreOptions::fsync_on_commit is set".
- `NoConnectionOutlivesServer` (StOutlives.cfg, `src/ipc/server.cpp:354`): A connection thread decrements live_connections under the mutex, releases it, and then calls live_cv.notify_all. Stop can see zero in between and return, and its owner may destroy the server while the detached thread still uses it. README.md:254 says: "no connection outlives the server."
- `AcceptorJoinedOnce` (StTwoStops.cfg, `src/ipc/server.cpp:486`): joinable() and join() on the acceptor thread are called without the mutex and stopping does not turn a second caller away, so two concurrent callers can both be in join() on one std::thread. include/cable_registry/ipc/server.hpp:74 says of Stop: "Idempotent and safe to call from any thread other than a connection handler."
- `RefusedMeansNotApplied` (StBatch.cfg, `src/ipc/client.cpp:240`): PublishBatch returns one RefusedInvalid result per record when the request fails in any way, a connection closed after the batch was ingested included. include/cable_registry/evidence.hpp:216 defines it as "Malformed payload, nil identity, or a bound violation."
- `EdgeClaimsCorroborate` (TwoSlots, EqualSources; `src/registry.cpp:2295`): every edge of an object side cites all winning claims of the side, those for other ports included. include/cable_registry/graph.hpp:131 calls them "Corroborating winning claims".
- `SnapshotRoundTrips` (BothEnds, EqualSources, `MaxClaimsPerPort = 1`; `src/snapshot.cpp:92`): the encoder writes as many claims as an attachment or a conflict has, the decoder refuses more than `max_claim_records_per_port`, and the records about one side, which may be at several ports, are not bounded by that limit. tests/test_snapshot.cpp:153 (encoding_round_trips) decodes what was encoded.
- `AnswersRoundTrip` (TwoSlots, EqualSources, `MaxClaimsPerPort = 1`; `src/serialization.cpp:621`): the same of the answers to single questions. A side that two sources place at two ports is answered with two edges and two claims, and the decoder takes as many of either as one port may have records.
- `SnapshotCanonical` (BothEndsHere, EqualSources; `src/snapshot.cpp:394`): lists are sorted by keys that two different elements can share, and then stay in the order they were given in. README.md:294 says: "collections sorted into canonical order at encode time, so a snapshot assembled by hand is canonicalised too."
- `HistoryKeepsKinds` (MoveAndDetach, EqualSources; `src/registry.cpp:2077`): superseded records of a side are listed with the kind of the record that superseded them. README.md:97 says: "A move and a replacement are transitions recorded in the object history with their own event kinds".
- `ConflictsCited` (TwoLabels, EqualSources; `src/registry.cpp:2160`): an object can carry a conflict note without claims. include/cable_registry/graph.hpp:108 says: "Claims are always cited: a conflict is never reported as a bare boolean."
- `EndpointListsItsPorts` (TwoPortCounts, EqualSources; `src/registry.cpp:3297`): QueryEndpoint lists the ports of the winning registration, while QueryPort answers for every port below the highest count any source declared. include/cable_registry/graph.hpp:210 calls the view "The authoritative answer for one endpoint."
- `DetailChangesNoAnswer` (OneAttachment, EqualSources; `src/registry.cpp:2317`): without side detail an object is always Unvalidated. include/cable_registry/graph.hpp:29 says: "Nothing behind this answer was asserted in this registry lifetime."
- `InspectListsPending` (TwoIncarnations, EqualSources; `src/registry.cpp:3443`): pending references are found from the first record of each port; other pending claims are counted in the summary and listed nowhere. include/cable_registry/graph.hpp:300 says of an entry: "One evidence record whose reference does not exist yet."
- `SlotsOfExclusivePorts` (SecondSlot, EqualSources; `src/registry.cpp:123`): the slot of an attachment is not compared with the capability of its port. include/cable_registry/evidence.hpp:64 says: "Must be zero on a port that declares one attachment."
- `FencedByThisCall` (a PROPERTY; OneAttachment, ThreeIncarnations; `src/registry.cpp:3184`): the count includes claims that an earlier incarnation had fenced already. include/cable_registry/registry.hpp:69 says: "Claims fenced by this call, when the disposition is NewIncarnation."
- `WritesReturn` (StStarved.cfg, `src/registry.cpp:3266`): under a lock that does not hold readers off for a waiting writer, queries that overlap keep a writer or a Close waiting for good. include/cable_registry/registry.hpp:198 says of Close: "In-flight calls finish".

`SameEvidenceSameGraph` and `AcknowledgedServed` occur in passing runs as well: the first
holds where no report is reissued under a new evidence id and no two sources report the same
replacement, the second where a created or renamed file keeps its name over a power loss
(`DirectoryDurable`).

## Fairness

- `Ipc`: threads of the server are scheduled (weak fairness on each caller inside a
  call, the acceptor and each connection thread), and a client blocked in a receive
  reads what arrives. Nothing obliges a client to ask, to finish a frame it began, or to
  stay. This is what an operating system scheduler gives; the 25 ms slices of
  `wait_ready` appear as the step `SliceEnds`.
- `RegistryLock`: the run assumes none, its properties are invariants. StStarved assumes
  strong fairness of every thread inside a call (`FairSpec`), and writers starve all the same.
- `Publishing`: the publisher's and the server's threads are scheduled, and somebody
  opens the registry again after a crash. Requests on a lost connection need not be
  served, and nothing bounds how late they are. Faults are bounded (`MaxFaults`), so
  they end.

## What is proved

`Registry_proofs` proves, for all values of the constants that satisfy the named
assumptions (limits positive, evidence and openings of their types):

| Theorem | Property |
| --- | --- |
| TypeCorrect | `TypeOK` |
| ClaimsBelong | `ClaimsBelongToSessions` |
| NewestWins | `NewestGenerationWins` |
| NeverForgets | `NothingForgotten` |
| HalvesTogether | `SubjectBackedByPort` |
| LabelIndexCorrect | `LabelIndexComplete` |
| RetriesHarmless | `RetryKeepsWinners` |
| HistoryTrue | `HistoryCitesAccepted`, if a source gives no two records the same id |

`RegistryIngest_proofs` has the lemmas on operators: what `fold`, `fold_losing`,
`decide` and `apply_change` return and preserve. Type correctness is inductive and
every other proof uses it. The argument goes through one lemma, `StepResult`: a step
keeps the types and everything retained (sources, sessions, high-water marks), and
leaves the claims alone or folds one record of a known session into them
(`ClaimsStep`). `FoldedClaimsResult` says what such a fold does to a key (`FoldEffect`).
Each invariant but the last two is then inductive together with `TypeOK`:

- `NewestGenerationWins`: a record that is written is newer than the winner it pushes
  into the ring, one that is only filed is older. Reincarnation keys are excepted in
  the statement, because `decide` files a newer report of a replacement that already
  happened in the ring.
- `ClaimsBelongToSessions`: the session's mark is raised to the record's generation in
  the same step.
- `SubjectBackedByPort`: `decide` refuses a record that collides on either half, so a
  side that is written finds its port half written with it, stored already with the
  same content, or held by a newer record; a side that stays keeps its half unless a
  newer record takes the slot.
- `LabelIndexComplete`: a valid index gains the label of every registration that is
  written, and a rebuilt one is computed from all of them.
- `RetryKeepsWinners` needs another invariant: that a retry changes nothing now does not
  say it changes nothing later. `AcceptedStands` says of an accepted record that every key
  it speaks about has a winner at least as new, with its content if it is of the same
  generation (`Stored`), and of a replacement at least that its object exists. Keys are
  never lost and winners never get older, so this lasts (`StoredGrows`, `IngestGrows`). A
  record that is stored is no news to `decide` (`StoredIsNoNews`), unless it reports a
  replacement that the object has fallen back from (`Unreached`). The statement has to
  except that case: a second report of a replacement is accepted and stored nowhere, and
  is news again once the source of the first is fenced.
- `HistoryCitesAccepted` speaks of an answer, so it needs an invariant of the claims:
  `ClaimsAttested` says that the winner and every ring entry of a key come from an accepted
  record that speaks for that key, and that keys and rings are finite. A fold moves the old
  winner into the ring or adds the record itself, and only an accepted record is folded
  (`FoldedAttested`). A record speaks for one key of the maps that a history reads, and is
  about the object of that key (`OneHistoryKey`), hence each event is about its object and
  no record is listed twice. The second half assumes `DistinctIds` (README of the
  repository, line 70: every record carries "a unique evidence identifier"), here only
  within a source: a ring recognises records by their id alone. A history is finite, so the
  part that a bound leaves exists (`SubsetOfSize`) and the theorem does not depend on the
  bound.

`NothingForgotten` is an action property and follows from `StepResult` and the
comparison of generations under `TypeOK`.

`RegistryRules_proofs` proves, under the same assumptions:

| Theorem | Property |
| --- | --- |
| FencedNeverBinds | `FencedEvidenceNeverBinds` |
| LabelsReused | `LabelReuseRefused` |
| RetirementHolds | `RetirementSticky` |
| LimitsHold | `BoundedRecords` |

- `LabelReuseRefused`: the reuse check reads the label index, valid or rebuilt. By
  LabelIndexCorrect the index names every holder, so a registration that is written
  passed the check against all of them (`WritesUnderFreeLabel`).
- `RetirementSticky`: suppose no record that retired the object changed, was fenced or
  was outranked, and the incarnation is the same. Then one of them is still among the
  candidates of best authority (`RetirerHolds`), and resolving the best candidates
  answers Retired when one of them retires and none is a reincarnation (`RetiredBy`).
- `BoundedRecords` is inductive as `AllWithin`, which adds that every bounded set is
  finite: without it a cardinality says nothing. A trimmed ring has an oldest
  record, because generations and evidence ids are natural numbers (`OldestRecord`);
  that record was kept, so fewer than the limit are newer (`TrimRingBounded`). The check of a
  port is made for each key of a record before either is added, and a record has at
  most two keys (`TwoPortKeys`), hence the one record beyond the limit.

`FencedEvidenceNeverBinds`: an answer reads registrations, unfenced capabilities and replacements, and the lifecycle,
side and port records that count. Two states in which these are the same keys with the same
records (`SameRecords`) give the same answers (`SameSide`, `SamePort`, `SameObject`): the
highest authority, the incarnation, the actions and the validation are functions of them.
Where the code picks one winner this needs a winner to exist, and so a bound on the stored
authorities, which is the inductive invariant (`Ranked`); of the records at that bound one
has the least owner, and they have different owners (`AlikeWinner`). A fenced owner's keys
are never among the records that count (`FencedOwner`). A new key about a replaced unit is
not either, and cannot make an older port record count: that needs a side record of the
port record's incarnation (`ReplacedUnit`).

`Threads_proofs` proves about `RegistryLock`, for any set of threads:

| Theorem | Property |
| --- | --- |
| OneInstant | `AnswersAtOneInstant` |
| CloseIsFinal | `NothingAcceptedAfterClose` |
| NestedCirclesOnly | `OnlyNestedWaits` |

The inductive invariant `LockInv` says that where a thread is determines what it holds and a
writer is alone (`Held`), that the two halves differ only while a writer stands between
them (`Halves`), that a query has seen the state as it still is (`Sees`), and that what
has returned has happened (`Past`). Neither property is inductive without `Held`. For
`OnlyNestedWaits`, whoever waits does not hold the lock exclusively, so in a circle a writer
waits for a share and a reader for a writer ahead of it, and a thread that waits and holds a
share is in the nested lock. The theorem is for both values of `WriterPreference`.

`Threads_proofs` proves about `Ipc`, for any finite set of clients and any limits:

| Theorem | Property |
| --- | --- |
| LiveCountCorrect | `ConnectionsCounted` |
| StopIsQuiet | `QuietAfterStop` |
| AnswersMatch | `AnswerIsForRequest` |
| TypesHold | `TypeOK` |

The first two rest on `Inv`: the counter is the number of threads that have been counted
and have not left, the acceptor's step included, and `Stop` passes its wait only at zero
with the acceptor gone. The third rests on `Replies`: every frame on its way to a client
names a request and the kind of reply that request has, and what a client reads in the
middle of a payload is not a header. `TypeOK` contains the bound on connections; it is
inductive with the other two invariants, which say that the count never goes below zero and
what the acceptor holds.

`DurableRegistry_proofs` proves, for any evidence, limits, log and number of faults:

| Theorem | Property |
| --- | --- |
| LogReadable | `AppendedDecodes` |
| LogRebuildsMemory | `MemoryMatchesLog` |
| AcknowledgedStands | `AcknowledgedSurvives` |
| OldEvidenceStaysOld | `RecoveredNeverFresh` |

- `AppendedDecodes`: validation refuses everything that `decode_evidence` would
  (`ValidDecodes`), so the records of the file, the uncommitted tail included, come from a
  set of readable ones. Images are excepted, for the reason `st_image` shows.
- `MemoryMatchesLog` and `AcknowledgedSurvives` rest on `DurableInv`: memory is `Similar`
  to what the log replays to, and every acknowledged record stands in that. States are
  similar when they agree on sources, on which sessions exist and on claims but for
  freshness. `RegistryIngest_proofs` shows that similar states decide every record alike
  and stay similar, which is why replay, that sees other high-water marks and flags than
  memory had, ends in the same claims. The record a failed append may have left behind the
  committed end is part of the invariant (`TailKnown`), because the next open commits it
  unseen. Both properties need it: neither speaks of the tail, and neither holds
  after an open without it.
- `RecoveredNeverFresh` rests on `FreshInv`: a claim that is marked fresh carries the
  evidence and the content of a record of this lifetime. The count in the envelope is bounded through an
  injection from live cited claims to records, because a record occupies one slot.

`PublishedRecords_proofs` and `Publishing_proofs` prove, for any script of any length, any
number of publisher incarnations, connections and faults, and under the assumptions above
(the script's records and openings are of their types):

| Theorem | Property |
| --- | --- |
| OneCallAtATime | `PublisherTypeOK` |
| LearntStaysRecorded | `LearntIsRecorded` |
| RepeatsStayOvertaken | `RepeatsWereOvertaken` |

- `PublisherInv` is about the client alone: a request on a connection that holds is the
  call the publisher waits for, and while it is on its way there is no reply. This is why
  an answer to a request of a broken connection, or of an earlier incarnation, is never
  taken for the answer to the call at hand.
- `LearntIsRecorded` rests on `RecordedInv` next to `DurableInv`. A record is `Recorded` if
  its session is known and every key of it is held by a record at least as new; for a
  replacement, if the object is at the incarnation it asks for by the owner's own word
  (`Reached`). That a state holds only what this publisher said (`Own`) is part of the
  invariant: with a second source a replacement could be reached by somebody else's word,
  and unreached again when that source is fenced. The invariant says this of what the log
  replays to, of every record the publisher was told is accepted, and of the record whose
  acceptance is still on the wire; and that what a failed append left behind the log is a
  call of the publisher, because the next open commits it. `AcceptedRecorded` shows that an
  answer accepted means recorded, in memory and, when nothing was appended, in the log
  already; `IngestRecorded` and `MovesKeep` that whatever is served late leaves it so.
- `RepeatsWereOvertaken` rests on `InOrder`, a statement about a list of records and the
  state they replay to: the state covers every record in the list, and the list says where
  every claim of the state comes from. A record that comes again and is appended again is
  covered, so only a newer record of its stream can have made it news
  (`RepeatIsOvertaken`), and the claims say which. Replacements are excepted in the
  property: one that comes too late, when the object is past the incarnation it starts
  from, is accepted as superseded and appended every time it comes, since `decide` stages
  it for the ring and writes no claim that would cover it.

`Store_proofs` proves, for any records and any lengths of their frames and of images:

| Theorem | Property | Assuming |
| --- | --- | --- |
| BookkeepingHolds | `BookkeepingMatchesFile` | `OneRewriteFault` |
| AcknowledgedStaysServed | `AcknowledgedServed` | `Environment` |
| StoreKeepsPromise | `KeepsPromise`, the refinement of `AtomicLog` | `Environment` |
| ChainCatchesSplices | `NothingSpliced` | `OneRewriteFault`, no power loss |

`OneRewriteFault` says that not both failures of a rewrite, of the rename and of the
reopen after it, happen to a store; StRestored is what happens when they do.
`Environment` adds that nothing rots and that, if power fails, commits are synced and a
created or renamed file keeps its name; StDirectory and StStrict show that the promise
does not hold without. `NothingSpliced` has no bound on the damage. With a power loss it
is false: a record that was overwritten before it was synced can come back.

- The lemmas on layout come first: two chains whose frames begin one file begin each other
  (`OneFile`), and `Loaded` is the longest chain a file begins with (`LoadedLongest`). A
  chain is `Committed` if the file begins with it and what follows continues it by one
  record at most; an open then loads it, or it and that record (`LoadedCommitted`). Writing a frame at the
  committed end keeps the chain before it, whatever was there and however short the write
  stops (`WriteCommitted`), and so does a power loss that keeps a first part of it
  (`MixCommitted`).
- `BookInv` strengthens `BookkeepingMatchesFile` by the frame in flight and by the file
  while the handle is closed for a rename, since a rename that fails hands it back.
- `SafeInv` names the chain the file holds and the first part of it that the disk is sure
  of; what was acknowledged is behind that part (`Holding`). The two differ: an open serves
  records it found although they were never synced, and a commit after it syncs them all.
  The abstract log is what an open would load, that chain or one record more, so each step
  of the store is a step of `AtomicLog` or does not show there (`Promised`, `Allowed`).
- `ServedInv` says that, once the store is down, what an open would load begins what the
  registry held, or continues it. A rotten cell cuts the loaded chain (`RotEnds`), and two
  first parts of one chain are comparable, which is why any number of rotten cells is
  covered.

`ImageAssumption` of `Store` says that a state image is not one of the records; in the
code their kinds tell them apart.

### Model-checked only

- Liveness (`StopReturns`, `ShutdownHonoured`, `NobodyLeftWaiting`,
  `ScriptCompleted`): liveness and `ENABLED` are beyond the prover.
- `SameEvidenceSameGraph`: it does not hold for every set of evidence (see the further
  statements), and for the set of the run the argument is by cases over arrival orders, which TLC enumerates.
- `DescriptionsAgree`: it is about `RegistryQueries`, which uses sums and sorted sequences built by recursion over data; what these compute needs
  induction with an operator parameter.
- `GraphFollowsPublisher`: it compares the graph with what one script says in the end, so
  it is stated for that script.

## Not modelled

- Byte layouts, digests and checksums as computations; text rendering; the command
  line. They have no behaviour over time.
- Timestamps, connector and media notes, citation truncation, session counters and the
  refusal audit: they annotate answers and decide nothing. Events of a history are
  therefore not ordered, and which of them are dropped at a bound is left open.
- Names and strings: whether a value is in the vocabulary that a decoder accepts is not
  looked at, nor are lengths of strings.
- Limits of the encoders in bytes, and the order in which a list that ends at a bound
  was walked.
- Request payloads in `Ipc`. `Publishing` has them and leaves out the threads; the two
  are not composed into one module, whose states would be out of reach.
- The caller's retry loop in `Publishing` is what users of the client library write; it
  is not part of the repository.

## Plan

Done: the modules, runs and theorems above.

1. An abstract specification of the folded registry (the set of accepted records) and
   the refinement from `Registry`.
