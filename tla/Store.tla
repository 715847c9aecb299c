---------------------------------- MODULE Store ----------------------------------
(***************************************************************************)
(* The log file behind the registry (src/persistence.cpp over              *)
(* src/detail/file_io.cpp): frames written at the committed end, a scan    *)
(* that validates the whole file at open, and a rewrite through a          *)
(* temporary file and a rename.  One thread uses a store; what interferes  *)
(* with it are failing system calls, crashes and power losses.             *)
(*                                                                         *)
(* A file is a header and a sequence of cells, a cell being what is        *)
(* written or lost as a unit.  A record is framed as one header cell and   *)
(* BodyCells of its payload, chain digest and checksum.  The chain digest  *)
(* of a frame stands for the records up to it, so a cell names its frame   *)
(* by that sequence and its place by a number.  A state image stands for   *)
(* the records it was computed from.                                       *)
(***************************************************************************)
EXTENDS Integers, Sequences

CONSTANTS
    Records,          \* the records that can be appended
    BodyCells,        \* cells of a record's frame after its header cell
    ImageCells,       \* the same for a state image
    Strict,           \* RecoveryPolicy::Strict, as opposed to SalvagePrefix
    Fsync,            \* StoreOptions::fsync_on_commit
    DirectoryDurable, \* a created or renamed file keeps its name at a power loss
    PowerFails,       \* power losses happen
    RenameFails,      \* the rename of a rewrite can fail
    ReopenFails,      \* the log cannot always be opened again after that rename
    MaxRecords,       \* bound: records behind the log
    MaxFaults,        \* bound: failures, crashes, power losses and rewrites
    MaxDamage         \* bound: cells that rot on the disk

ASSUME StoreAssumption ==
    /\ BodyCells \in [Records -> Nat \ {0}] /\ ImageCells \in Nat \ {0}
    /\ Strict \in BOOLEAN /\ Fsync \in BOOLEAN
    /\ DirectoryDurable \in BOOLEAN /\ PowerFails \in BOOLEAN
    /\ RenameFails \in BOOLEAN /\ ReopenFails \in BOOLEAN
    /\ MaxRecords \in Nat /\ MaxFaults \in Nat /\ MaxDamage \in Nat

VARIABLES
    file,       \* the log as the operating system shows it
    synced,     \* what of it is known to be on the disk
    entry,      \* the file a power loss would bring back under this name, if another
    tmp,        \* the rewrite target: none, torn or full
    pc,         \* down, idle, sync or rename: where the one operation stands
    pending,    \* the record of that operation
    chain,      \* chain_, next_sequence and write_offset: the records they stand for
    handle,     \* impl_->file is open
    acked,      \* history: the records whose append was acknowledged
    served,     \* history: the records in the hands of the registry, or last so
    refused,    \* history: the last open refused the file as it is now
    faults,     \* how many of the bounded events happened
    damaged     \* how many cells rotted

disk == <<file, synced, entry, tmp>>
process == <<pc, pending, chain, handle>>
history == <<acked, served, refused, faults, damaged>>
vars == <<disk, process, history>>

-----------------------------------------------------------------------------
(***************************************************************************)
(* The format.  The two operators on sequences are those of SequencesExt,  *)
(* which the proofs would otherwise carry along in every step.             *)
(***************************************************************************)
IsPrefix(s, t) == Len(s) <= Len(t) /\ SubSeq(s, 1, Len(s)) = SubSeq(t, 1, Len(s))

Last(s) == s[Len(s)]

\* The payload of a StateSnapshot record.
Image(h) == [image |-> h]

\* A state image is a record of a kind of its own.
ASSUME ImageAssumption ==
    \A n \in 0 .. MaxRecords : \A h \in [1 .. n -> Records] : Image(h) \notin Records

\* The records behind a chain.
Contents(c) ==
    IF c # << >> /\ Head(c) \notin Records THEN Head(c).image \o Tail(c) ELSE c

FrameCells(r) == 1 + IF r \in Records THEN BodyCells[r] ELSE ImageCells

\* The frame of the last record of a chain.
Frame(c) == [n \in 1 .. FrameCells(Last(c)) |-> [chain |-> c, part |-> n]]

\* All frames of a chain, one after the other.
Layout(c) ==
    LET frames[n \in 0 .. Len(c)] ==
            IF n = 0 THEN << >> ELSE frames[n - 1] \o Frame(SubSeq(c, 1, n))
    IN  frames[Len(c)]

\* A cell that cannot be read back.
Rot == [chain |-> << >>, part |-> 0]

NoFile == [header |-> "none", cells |-> << >>]

Formatted(cells) == [header |-> "ok", cells |-> cells]

\* WriteAt: the first n cells of data replace what is at offset, or extend the file.  An
\* offset beyond the end leaves a hole.
Overlay(cells, offset, data, n) ==
    LET hole == [i \in 1 .. offset - Len(cells) |-> Rot]
    IN  SubSeq(cells \o hole, 1, offset) \o SubSeq(data, 1, n)
            \o SubSeq(cells, offset + n + 1, Len(cells))

\* Mutation: the scan resynchronises after a frame it cannot read.
Loaded_skipping(cells) ==
    LET found == {<< >>} \cup {cells[n].chain : n \in DOMAIN cells}
        c == CHOOSE x \in found : \A d \in found : Len(d) <= Len(x)
        at(n) == Len(Layout(SubSeq(c, 1, n - 1)))
        intact(n) == IsPrefix(Frame(SubSeq(c, 1, n)), SubSeq(cells, at(n) + 1, Len(cells)))
        kept == SelectSeq([n \in 1 .. Len(c) |-> n], intact)
    IN  [n \in 1 .. Len(kept) |-> c[kept[n]]]

\* The scan of Store::Open follows frames while sequence, checksums and chain agree.
Loaded(cells) ==
    LET found == {<< >>} \cup {cells[n].chain : n \in DOMAIN cells}
        intact == {c \in found : IsPrefix(Layout(c), cells)}
    IN  CHOOSE c \in intact : \A d \in intact : Len(d) <= Len(c)

\* Why the scan stopped.  A header cell gives the length of its frame; where the scan
\* meets other bytes, the length they spell may or may not reach past the end.
ScanStop(cells) ==
    LET offset == Len(Layout(Loaded(cells)))
        remaining == Len(cells) - offset
        cell == cells[offset + 1]
    IN  IF remaining = 0 THEN {"clean"}
        ELSE IF cell.part # 1 THEN {"incomplete", "corrupt"}
        ELSE IF FrameCells(Last(cell.chain)) > remaining THEN {"incomplete"}
        ELSE {"corrupt"}

-----------------------------------------------------------------------------
Init ==
    /\ file = NoFile /\ synced = NoFile /\ entry = << >> /\ tmp = "none"
    /\ pc = "down" /\ pending = << >> /\ chain = << >> /\ handle = FALSE
    /\ acked = << >> /\ served = << >> /\ refused = FALSE /\ faults = 0 /\ damaged = 0

Fault == faults < MaxFaults /\ faults' = faults + 1

\* The name of a new file reaches the disk with it, or at some later time.
NameFile(old) == entry' = IF DirectoryDurable THEN << >> ELSE <<old>>

\* Store::Open on a missing or empty file.
Create ==
    /\ pc = "down" /\ file.header = "none"
    /\ tmp' = "none"
    /\ file' = Formatted(<< >>) /\ synced' = file' /\ NameFile(NoFile)
    /\ pc' = "idle" /\ chain' = << >> /\ handle' = TRUE
    /\ served' = << >> /\ refused' = FALSE
    /\ UNCHANGED <<pending, acked, faults, damaged>>

\* The process dies, or the write fails, while it writes the file header.
CreateTorn ==
    /\ pc = "down" /\ file.header = "none" /\ Fault
    /\ tmp' = "none"
    /\ \E header \in {"torn", "ok"} : file' = [file EXCEPT !.header = header]
    /\ refused' = FALSE
    /\ UNCHANGED <<synced, entry, process, acked, served, damaged>>

\* Store::Open on an existing file, then VisitRecords: scan, discard what may be
\* discarded, serve the rest.
OpenLog ==
    /\ pc = "down" /\ file.header = "ok"
    /\ tmp' = "none"
    /\ \E stop \in ScanStop(file.cells) :
          LET recoverable == stop # "corrupt" \/ ~Strict
              kept == Loaded(file.cells)
          IN  IF recoverable
              THEN /\ file' = IF stop = "clean" THEN file ELSE Formatted(Layout(kept))
                   /\ synced' = IF stop = "clean" THEN synced ELSE file'
                   /\ pc' = "idle" /\ chain' = kept /\ handle' = TRUE
                   /\ served' = Contents(kept) /\ refused' = FALSE
              ELSE /\ refused' = TRUE
                   /\ UNCHANGED <<file, synced, pc, chain, handle, served>>
    /\ UNCHANGED <<entry, pending, acked, faults, damaged>>

\* Store::Open on a file with an unreadable header.
OpenRefused ==
    /\ pc = "down" /\ file.header = "torn"
    /\ tmp' = "none" /\ refused' = TRUE
    /\ UNCHANGED <<file, synced, entry, process, acked, served, faults, damaged>>

\* Mutation: the frame goes to the end of the file instead of the committed end.
AppendWrite_at_end(r) ==
    /\ pc = "idle" /\ handle /\ Len(Contents(chain)) < MaxRecords
    /\ LET frame == Frame(Append(chain, r))
           written(n) == Formatted(file.cells \o SubSeq(frame, 1, n))
       IN  \/ file' = written(Len(frame)) /\ pc' = "sync" /\ pending' = <<r>> /\ UNCHANGED faults
           \/ /\ Fault
              /\ \E n \in 0 .. Len(frame) - 1 : file' = written(n)
              /\ UNCHANGED <<pc, pending>>
    /\ UNCHANGED <<synced, entry, tmp, chain, handle, acked, served, refused, damaged>>

\* Append up to the return of WriteAt.  A short write is an error and moves nothing.
AppendWrite(r) ==
    /\ pc = "idle" /\ handle /\ Len(Contents(chain)) < MaxRecords
    /\ LET frame == Frame(Append(chain, r))
           written(n) == Formatted(Overlay(file.cells, Len(Layout(chain)), frame, n))
       IN  \/ /\ file' = written(Len(frame))
              /\ pc' = "sync" /\ pending' = <<r>>
              /\ UNCHANGED faults
           \/ /\ Fault
              /\ \E n \in 0 .. Len(frame) - 1 : file' = written(n)
              /\ UNCHANGED <<pc, pending>>
    /\ UNCHANGED <<synced, entry, tmp, chain, handle, acked, served, refused, damaged>>

\* Mutation: the append is acknowledged before it is synced.
AppendCommit_unsynced ==
    /\ pc = "sync"
    /\ pc' = "idle" /\ pending' = << >>
    /\ chain' = chain \o pending
    /\ acked' = Contents(chain') /\ served' = acked'
    /\ UNCHANGED <<file, synced, entry, tmp, handle, refused, faults, damaged>>

\* The rest of Append: Sync unless it is disabled, then the bookkeeping.
AppendCommit ==
    /\ pc = "sync"
    /\ pc' = "idle" /\ pending' = << >>
    /\ \/ /\ synced' = IF Fsync THEN file ELSE synced
          /\ chain' = chain \o pending
          /\ acked' = Contents(chain') /\ served' = acked'
          /\ UNCHANGED faults
       \/ Fsync /\ Fault /\ synced' \in {synced, file} /\ UNCHANGED <<chain, acked, served>>
    /\ UNCHANGED <<file, entry, tmp, handle, refused, damaged>>

\* Rewrite up to the rename: a fresh temporary is written and synced, then the handle
\* on the log is released.
RewriteTarget ==
    /\ pc = "idle" /\ Fault
    /\ \/ /\ tmp' = "full"
          /\ pc' = "rename" /\ pending' = <<Image(Contents(chain))>> /\ handle' = FALSE
       \/ tmp' = "torn" /\ UNCHANGED <<pc, pending, handle>>
    /\ UNCHANGED <<file, synced, entry, chain, acked, served, refused, damaged>>

\* Mutation: the bookkeeping is not reset to the new log.
RewriteCommit_stale ==
    /\ pc = "rename"
    /\ file' = Formatted(Layout(pending)) /\ synced' = file' /\ NameFile(synced)
    /\ tmp' = "none" /\ handle' = TRUE
    /\ pc' = "idle" /\ pending' = << >>
    /\ UNCHANGED <<chain, acked, served, refused, faults, damaged>>

\* The rename succeeds.  Reopening the log may still fail; the store is then left with
\* no handle and with the bookkeeping of the log it replaced.
RewriteCommit ==
    /\ pc = "rename"
    /\ file' = Formatted(Layout(pending)) /\ synced' = file' /\ NameFile(synced)
    /\ tmp' = "none"
    /\ \/ chain' = pending /\ handle' = TRUE /\ UNCHANGED faults
       \/ ReopenFails /\ Fault /\ UNCHANGED <<chain, handle>>
    /\ pc' = "idle" /\ pending' = << >>
    /\ UNCHANGED <<acked, served, refused, damaged>>

\* The rename fails: the temporary is removed and the old log reopened, both if possible.
RewriteAbort ==
    /\ pc = "rename" /\ RenameFails /\ Fault
    /\ tmp' \in {"none", "full"} /\ handle' \in BOOLEAN
    /\ pc' = "idle" /\ pending' = << >>
    /\ UNCHANGED <<file, synced, entry, chain, acked, served, refused, damaged>>

Down == pc' = "down" /\ pending' = << >> /\ chain' = << >> /\ handle' = FALSE

\* Close, or the death of the process: the operating system keeps what was written.
Exit ==
    /\ pc # "down" /\ Fault
    /\ Down
    /\ UNCHANGED <<disk, acked, served, refused, damaged>>

\* Writes reach the disk in the order of the file: of what was not synced, a first part
\* survives a power loss and the rest is as it was.
Survivors ==
    {Formatted(Overlay(synced.cells, 0, file.cells, n)) : n \in 0 .. Len(file.cells)}

\* Under its name a new file may be found, or still the one it replaced.
PowerLoss ==
    /\ PowerFails /\ Fault
    /\ \/ file.header = "ok" /\ synced.header = "ok" /\ file' \in Survivors
       \/ (file.header # "ok" \/ synced.header # "ok") /\ file' \in {file, synced}
       \/ entry # << >> /\ file' = entry[1]
    /\ synced' = file' /\ entry' = << >>
    /\ UNCHANGED tmp
    /\ Down
    /\ refused' = FALSE
    /\ UNCHANGED <<acked, served, damaged>>

\* The disk loses a cell.
Damage ==
    /\ pc = "down" /\ damaged < MaxDamage
    /\ damaged' = damaged + 1
    /\ \E n \in DOMAIN file.cells : file' = [file EXCEPT !.cells[n] = Rot]
    /\ synced' = file'
    /\ refused' = FALSE
    /\ UNCHANGED <<entry, tmp, process, acked, served, faults>>

Next ==
    \/ Create
    \/ CreateTorn
    \/ OpenLog
    \/ OpenRefused
    \/ \E r \in Records : AppendWrite(r)
    \/ AppendCommit
    \/ RewriteTarget
    \/ RewriteCommit
    \/ RewriteAbort
    \/ Exit
    \/ PowerLoss
    \/ Damage

Spec == Init /\ [][Next]_vars

-----------------------------------------------------------------------------
(***************************************************************************)
(* Properties.                                                             *)
(***************************************************************************)
\* What opening the store at this moment would load.
Recoverable == IF file.header = "ok" THEN Contents(Loaded(file.cells)) ELSE << >>

\* The bookkeeping of the store has its types and stays within the bounds.
TypeOK ==
    /\ file.header \in {"none", "torn", "ok"} /\ synced.header \in {"none", "torn", "ok"}
    /\ tmp \in {"none", "torn", "full"}
    /\ pc \in {"down", "idle", "sync", "rename"} /\ Len(pending) <= 1
    /\ Len(Contents(chain)) <= MaxRecords
    /\ \A n \in DOMAIN acked : acked[n] \in Records
    /\ handle \in BOOLEAN /\ refused \in BOOLEAN
    /\ faults \in 0 .. MaxFaults /\ damaged \in 0 .. MaxDamage

\* The write offset, the sequence number and the chain digest in memory describe the
\* file the handle is on: its first frames are exactly those of the chain, so that the
\* next append continues the log and destroys nothing.
BookkeepingMatchesFile ==
    handle => /\ file.header = "ok"
              /\ IsPrefix(Layout(chain), file.cells)

\* The store keeps its promise to the registry: step by step, what an open would load
\* behaves as a log in which acknowledged records stay, whatever fails in between.
Promise == INSTANCE AtomicLog WITH log <- Recoverable, acked <- acked

KeepsPromise == Promise!Spec

\* No record is lost, altered, reordered or made up: after every open the registry holds
\* the acknowledged records in their order, and beyond them only records it tried to append.
AcknowledgedServed ==
    pc # "down" => IsPrefix(acked, Contents(chain))

\* README: "the chain catches a removed, reordered or spliced one".  Whatever rots, an open
\* hands over a first part of what the registry held before, or all of it and more.
NothingSpliced ==
    [][pc = "down" /\ pc' = "idle" => IsPrefix(served', served) \/ IsPrefix(served, served')]_vars

-----------------------------------------------------------------------------
(***************************************************************************)
(* Statements of the documentation that the code does not meet.            *)
(***************************************************************************)
\* README: an incomplete final record is truncated away, "because refusing to open a
\* store that a crash tore would turn an expected event into data loss".  A file with
\* an intact header that the disk did not damage is never refused.
UndamagedOpens == refused => file.header # "ok" \/ damaged > 0

\* evidence.hpp on accepted records, a Duplicate included: "the record was durably
\* stored".  What an open once handed to the registry, the next open hands to it again.
ServedSurvives == [][pc = "down" /\ pc' = "idle" => IsPrefix(served, served')]_vars

\* README: "damage anywhere else is fatal under the default Strict policy", and
\* persistence.hpp on SalvagePrefix: "Damage anywhere other than the tail is still
\* fatal".  An open that succeeds misses at most the last acknowledged record.
DamageBeforeTailIsFatal == pc # "down" => Len(Contents(chain)) >= Len(acked) - 1

\* persistence.cpp on a rename that failed: "Put the store back into a usable state against
\* the original log".  Whatever a store that is open acknowledges, the next open loads.
RestoredUsable == handle /\ pc = "idle" => IsPrefix(acked, Recoverable)
==================================================================================
