------------------------------ MODULE RegistryLock ------------------------------
(***************************************************************************)
(* The public methods of Registry as calls of concurrent threads, with the *)
(* std::shared_mutex they take.  A call that changes the registry holds    *)
(* the lock exclusively and writes the records it stages one after the     *)
(* other (here: two of them, the halves of an attachment); a query holds   *)
(* it shared and reads them one after the other.  QueryTopology calls      *)
(* QueryEndpoint for every endpoint while it holds the lock, and           *)
(* QueryEndpoint takes it again.                                           *)
(*                                                                         *)
(* How a shared request and a waiting writer are ordered is up to the      *)
(* implementation of the mutex.  With WriterPreference a shared request    *)
(* waits behind a waiting writer, also when its thread holds a share       *)
(* already: MSVC, the platform the library is validated on, has a slim     *)
(* reader/writer lock underneath, which does so.  Without it (the default  *)
(* of pthread_rwlock) a shared request waits only for a writer that holds  *)
(* the lock.                                                               *)
(***************************************************************************)
EXTENDS Naturals

CONSTANTS
    Threads,            \* the caller's threads
    NoThread,           \* no thread holds the lock exclusively
    MaxEndpoints,       \* bound: endpoints a topology query visits
    MaxWrites,          \* bound: changes made to the registry
    WriterPreference    \* how the shared_mutex treats a waiting writer

ASSUME LockAssumption ==
    /\ NoThread \notin Threads
    /\ MaxEndpoints \in Nat /\ MaxWrites \in Nat
    /\ WriterPreference \in BOOLEAN

VARIABLES
    pc,         \* where each thread is in its call
    writer,     \* the thread that holds the lock exclusively
    shares,     \* how often each thread holds it shared
    subjects,   \* the state: the change last made to the subject records ...
    ports,      \* ... and to the port records
    closed,     \* Impl::closed
    left,       \* endpoints the thread's query has yet to visit
    seen,       \* the changes the thread's query has read
    begun,      \* history: what had returned when the thread's call began
    returned    \* history: the last change whose call returned, and whether Close did

lockVars == <<pc, writer, shares, subjects, ports, closed, left, seen, begun, returned>>

Places == {"idle",
           "want_write", "writing", "half_written", "written", "refused",
           "want_close", "closing",
           "want_read", "reading", "half_read", "want_nested", "nested", "read"}

ReturnType == [change: Nat, closed: BOOLEAN]

LockInit ==
    /\ pc = [t \in Threads |-> "idle"]
    /\ writer = NoThread
    /\ shares = [t \in Threads |-> 0]
    /\ subjects = 0 /\ ports = 0
    /\ closed = FALSE
    /\ left = [t \in Threads |-> 0]
    /\ seen = [t \in Threads |-> {}]
    /\ begun = [t \in Threads |-> [change |-> 0, closed |-> FALSE]]
    /\ returned = [change |-> 0, closed |-> FALSE]

MoveTo(t, place) == pc' = [pc EXCEPT ![t] = place]

\* The call is over; what it had in local variables is gone.
Return(t) ==
    /\ MoveTo(t, "idle")
    /\ seen' = [seen EXCEPT ![t] = {}]
    /\ begun' = [begun EXCEPT ![t] = [change |-> 0, closed |-> FALSE]]

-----------------------------------------------------------------------------
(***************************************************************************)
(* std::shared_mutex.                                                      *)
(***************************************************************************)
LockExclusive(t) ==
    /\ writer = NoThread /\ \A u \in Threads : shares[u] = 0
    /\ writer' = t
    /\ UNCHANGED shares

UnlockExclusive(t) == writer' = NoThread /\ UNCHANGED shares

LockShared(t) ==
    /\ writer = NoThread
    /\ WriterPreference => \A u \in Threads : pc[u] \notin {"want_write", "want_close"}
    /\ shares' = [shares EXCEPT ![t] = @ + 1]
    /\ UNCHANGED writer

UnlockShared(t) == shares' = [shares EXCEPT ![t] = @ - 1] /\ UNCHANGED writer

\* The threads a blocked thread is waiting for: those that hold the lock against it, or
\* that its request is queued behind.
WaitsFor(t) ==
    IF pc[t] \in {"want_write", "want_close"}
    THEN {u \in Threads : u = writer \/ shares[u] > 0}
    ELSE IF pc[t] \in {"want_read", "want_nested"}
    THEN {u \in Threads : u = writer \/ (WriterPreference /\ pc[u] \in {"want_write", "want_close"})}
    ELSE {}

-----------------------------------------------------------------------------
(***************************************************************************)
(* Calls that change the registry: OpenSession, CloseSession, Ingest,      *)
(* IngestBatch and Compact, and Close.                                     *)
(***************************************************************************)
Begin(t, place) ==
    /\ pc[t] = "idle"
    /\ MoveTo(t, place)
    /\ begun' = [begun EXCEPT ![t] = returned]
    /\ UNCHANGED <<writer, shares, subjects, ports, closed, returned>>

BeginWrite(t) == Begin(t, "want_write") /\ UNCHANGED <<left, seen>>
BeginClose(t) == Begin(t, "want_close") /\ UNCHANGED <<left, seen>>

\* Mutation: closed is checked before the lock is taken.
LockForWrite_checked_before(t) ==
    /\ pc[t] = "want_write"
    /\ LockExclusive(t)
    /\ MoveTo(t, IF begun[t].closed /\ closed THEN "refused" ELSE "writing")
    /\ UNCHANGED <<subjects, ports, closed, left, seen, begun, returned>>

\* The method takes the lock, then looks at closed.
LockForWrite(t) ==
    /\ pc[t] = "want_write"
    /\ LockExclusive(t)
    /\ MoveTo(t, IF closed THEN "refused" ELSE "writing")
    /\ UNCHANGED <<subjects, ports, closed, left, seen, begun, returned>>

\* Mutation: the lock is given up between the two halves.
WriteSubjects_unlocked(t) ==
    /\ pc[t] = "writing" /\ subjects < MaxWrites
    /\ subjects' = subjects + 1
    /\ UnlockExclusive(t)
    /\ MoveTo(t, "half_written")
    /\ UNCHANGED <<ports, closed, left, seen, begun, returned>>

WriteSubjects(t) ==
    /\ pc[t] = "writing" /\ subjects < MaxWrites
    /\ subjects' = subjects + 1
    /\ MoveTo(t, "half_written")
    /\ UNCHANGED <<writer, shares, ports, closed, left, seen, begun, returned>>

\* The call stages nothing: a duplicate, a refusal, a failed append.
WriteNothing(t) ==
    /\ pc[t] = "writing"
    /\ MoveTo(t, "refused")
    /\ UNCHANGED <<writer, shares, subjects, ports, closed, left, seen, begun, returned>>

WritePorts(t) ==
    /\ pc[t] = "half_written"
    /\ ports' = ports + 1
    /\ MoveTo(t, "written")
    /\ UNCHANGED <<writer, shares, subjects, closed, left, seen, begun, returned>>

\* The lock is released at the end of the scope and the call returns.
ReturnWrite(t) ==
    /\ pc[t] \in {"written", "refused"}
    /\ UnlockExclusive(t)
    /\ Return(t)
    /\ returned' = IF pc[t] = "written" THEN [returned EXCEPT !.change = subjects] ELSE returned
    /\ UNCHANGED <<subjects, ports, closed, left>>

LockForClose(t) ==
    /\ pc[t] = "want_close"
    /\ LockExclusive(t)
    /\ closed' = TRUE
    /\ MoveTo(t, "closing")
    /\ UNCHANGED <<subjects, ports, left, seen, begun, returned>>

ReturnClose(t) ==
    /\ pc[t] = "closing"
    /\ UnlockExclusive(t)
    /\ Return(t)
    /\ returned' = [returned EXCEPT !.closed = TRUE]
    /\ UNCHANGED <<subjects, ports, closed, left>>

-----------------------------------------------------------------------------
(***************************************************************************)
(* Queries.  left = 0 for every query but QueryTopology.  A closed registry*)
(* still answers.                                                          *)
(***************************************************************************)
BeginQuery(t, n) ==
    /\ Begin(t, "want_read")
    /\ left' = [left EXCEPT ![t] = n]
    /\ UNCHANGED seen

LockForRead(t) ==
    /\ pc[t] = "want_read"
    /\ LockShared(t)
    /\ MoveTo(t, "reading")
    /\ UNCHANGED <<subjects, ports, closed, left, seen, begun, returned>>

\* The objects, whose sides are derived from the subject records.
ReadSubjects(t) ==
    /\ pc[t] = "reading"
    /\ seen' = [seen EXCEPT ![t] = @ \cup {subjects}]
    /\ MoveTo(t, "half_read")
    /\ UNCHANGED <<writer, shares, subjects, ports, closed, left, begun, returned>>

\* Mutation: the query upgrades its lock to a write.
VisitEndpoint_upgrade(t) ==
    /\ pc[t] = "half_read" /\ left[t] > 0
    /\ left' = [left EXCEPT ![t] = @ - 1]
    /\ MoveTo(t, "want_write")
    /\ UNCHANGED <<writer, shares, subjects, ports, closed, seen, begun, returned>>

\* QueryTopology turns to the next endpoint.
VisitEndpoint(t) ==
    /\ pc[t] = "half_read" /\ left[t] > 0
    /\ left' = [left EXCEPT ![t] = @ - 1]
    /\ MoveTo(t, "want_nested")
    /\ UNCHANGED <<writer, shares, subjects, ports, closed, seen, begun, returned>>

\* QueryEndpoint locks again.
LockNested(t) ==
    /\ pc[t] = "want_nested"
    /\ LockShared(t)
    /\ MoveTo(t, "nested")
    /\ UNCHANGED <<subjects, ports, closed, left, seen, begun, returned>>

\* It reads both kinds of records and releases its own share.
ReadNested(t) ==
    /\ pc[t] = "nested"
    /\ seen' = [seen EXCEPT ![t] = @ \cup {subjects, ports}]
    /\ UnlockShared(t)
    /\ MoveTo(t, "half_read")
    /\ UNCHANGED <<subjects, ports, closed, left, begun, returned>>

ReadPorts(t) ==
    /\ pc[t] = "half_read" /\ left[t] = 0
    /\ seen' = [seen EXCEPT ![t] = @ \cup {ports}]
    /\ MoveTo(t, "read")
    /\ UNCHANGED <<writer, shares, subjects, ports, closed, left, begun, returned>>

ReturnRead(t) ==
    /\ pc[t] = "read"
    /\ UnlockShared(t)
    /\ Return(t)
    /\ UNCHANGED <<subjects, ports, closed, left, returned>>

-----------------------------------------------------------------------------
Calls(t) ==
    \/ BeginWrite(t)
    \/ BeginClose(t)
    \/ \E n \in 0 .. MaxEndpoints : BeginQuery(t, n)

\* A step of a call that has begun.
Proceed(t) ==
    \/ LockForWrite(t) \/ WriteSubjects(t) \/ WriteNothing(t) \/ WritePorts(t) \/ ReturnWrite(t)
    \/ LockForClose(t) \/ ReturnClose(t)
    \/ LockForRead(t) \/ ReadSubjects(t) \/ VisitEndpoint(t) \/ LockNested(t) \/ ReadNested(t)
    \/ ReadPorts(t) \/ ReturnRead(t)

LockNext == \E t \in Threads : Calls(t) \/ Proceed(t)

LockSpec == LockInit /\ [][LockNext]_lockVars

\* Threads are scheduled, and a thread that finds the lock free for it again and again gets
\* it; nobody is obliged to call.
FairSpec == LockSpec /\ \A t \in Threads : SF_lockVars(Proceed(t))

-----------------------------------------------------------------------------
(***************************************************************************)
(* Properties.                                                             *)
(***************************************************************************)
\* Every variable has its type.
LockTypeOK ==
    /\ pc \in [Threads -> Places]
    /\ writer \in Threads \cup {NoThread}
    /\ shares \in [Threads -> Nat]
    /\ subjects \in Nat /\ ports \in Nat /\ closed \in BOOLEAN
    /\ left \in [Threads -> Nat]
    /\ seen \in [Threads -> SUBSET Nat]
    /\ begun \in [Threads -> ReturnType] /\ returned \in ReturnType

\* graph.hpp calls the topology "the whole authoritative graph at one instant": whatever
\* calls run beside a query, nested locking included, all it has read by the time it
\* returns belongs to one change of the registry, and not to one older than a change
\* whose call had returned before the query began.
AnswersAtOneInstant ==
    \A t \in Threads :
        pc[t] = "read" => \E n \in seen[t] : seen[t] = {n} /\ n >= begun[t].change

\* "The registry never accepts work after Close": a call that begins when Close has
\* returned is refused; a call that was under way may still be accepted, but only if it
\* took the lock first.
NothingAcceptedAfterClose ==
    \A t \in Threads :
        pc[t] \in {"writing", "half_written", "written"} => ~closed /\ ~begun[t].closed

\* Threads that wait for each other in a circle.
Circle(S) == S # {} /\ \A t \in S : WaitsFor(t) \cap S # {}

\* The only call that can hang others for good is QueryTopology: threads wait in a circle
\* only if one of them asks for the lock a second time and another is a writer that its
\* request is queued behind.  No writer, Close or other query waits while it holds the lock.
OnlyNestedWaits ==
    \A S \in SUBSET Threads :
        Circle(S) =>
            /\ WriterPreference
            /\ \E t \in S : pc[t] = "want_nested"
            /\ \E u \in S : pc[u] \in {"want_write", "want_close"}

-----------------------------------------------------------------------------
(***************************************************************************)
(* Statements of the documentation that the code does not meet.            *)
(***************************************************************************)
\* "Every public method is safe to call concurrently": no threads wait for each other in a
\* circle.
NoCircularWait == \A S \in SUBSET Threads : ~Circle(S)

\* "In-flight calls finish": a call that changes the registry comes back.
WritesReturn ==
    \A t \in Threads : (pc[t] \in {"want_write", "want_close"}) ~> (pc[t] = "idle")
==================================================================================
