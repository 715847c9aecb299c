----------------------------- MODULE Threads_proofs -----------------------------
(***************************************************************************)
(* The threads of the process.  Under the lock: mutual exclusion,          *)
(* consistent reads, refusal after Close and what circular waits need,     *)
(* for any number of threads.  Over the transport: the count of live       *)
(* connections is right and bounded, Stop leaves nothing running that      *)
(* could reach the registry, and a client never takes a reply for another, *)
(* for any number of clients and owners.                                   *)
(***************************************************************************)
EXTENDS Ipc, RegistryLock, FiniteSetTheorems, TLAPS

\* The obligations are large: the provers get more than the default time.
USE SMTT(60), ZenonT(60)

-----------------------------------------------------------------------------
(***************************************************************************)
(* The lock of the registry.                                               *)
(***************************************************************************)
\* The places where a thread holds the lock exclusively, once shared, twice shared.
Exclusive == {"writing", "half_written", "written", "refused", "closing"}
Once == {"reading", "half_read", "want_nested", "read"}
Twice == {"nested"}

\* Where a thread is says what it holds, and a writer is alone.
Held ==
    /\ \A t \in Threads : pc[t] \in Exclusive <=> writer = t
    /\ \A t \in Threads : shares[t] = IF pc[t] \in Once THEN 1 ELSE IF pc[t] \in Twice THEN 2 ELSE 0
    /\ writer # NoThread => \A t \in Threads : shares[t] = 0

\* The two halves differ only while a writer stands between them.
Halves ==
    \/ subjects = ports /\ \A t \in Threads : pc[t] # "half_written"
    \/ subjects = ports + 1 /\ writer # NoThread /\ pc[writer] = "half_written"

\* A query has seen the state as it still is, from its first read to its last.
Sees ==
    /\ \A t \in Threads :
        pc[t] \in {"half_read", "want_nested", "nested", "read"} => seen[t] = {subjects}
    /\ \A t \in Threads : pc[t] \in {"idle", "want_read", "reading"} => seen[t] = {}

\* What has returned has happened.
Past ==
    /\ returned.change <= subjects
    /\ returned.closed => closed
    /\ \A t \in Threads : begun[t].change <= subjects /\ (begun[t].closed => closed)
    /\ \A t \in Threads : pc[t] \in {"writing", "half_written", "written"} => ~closed
    /\ \A t \in Threads : pc[t] = "closing" => closed

LockInv == LockTypeOK /\ Held /\ Halves /\ Sees /\ Past

\* Initially nobody holds the lock and nothing has been written.
LEMMA LockInitInv == LockInit => LockInv
<1> SUFFICES ASSUME LockInit PROVE LockInv
    OBVIOUS
<1>1. LockTypeOK
    BY Zenon DEF LockInit, LockTypeOK, Places, ReturnType
<1>2. Held
    BY LockAssumption DEF LockInit, Held, Exclusive, Once, Twice
<1>3. Halves /\ Sees
    BY DEF LockInit, Halves, Sees
<1>4. Past
    BY DEF LockInit, Past
<1> QED
    BY <1>1, <1>2, <1>3, <1>4 DEF LockInv

\* Every step of every thread keeps the invariant.
LEMMA LockNextInv == LockInv /\ [LockNext]_lockVars => LockInv'
<1> SUFFICES ASSUME LockInv, [LockNext]_lockVars PROVE LockInv'
    OBVIOUS
<1> USE LockAssumption
<1>0. CASE UNCHANGED lockVars
    BY <1>0 DEF lockVars, LockInv, LockTypeOK, Held, Halves, Sees, Past
<1>a. ASSUME NEW t \in Threads, Calls(t) \/ Proceed(t) PROVE LockInv'
  <2>1. CASE BeginWrite(t)
    <3>1. LockTypeOK'
        BY <2>1 DEF LockInv, LockTypeOK, Places, ReturnType, BeginWrite, Begin, MoveTo
    <3>2. Held'
        BY <2>1 DEF LockInv, LockTypeOK, Held, Exclusive, Once, Twice, BeginWrite, Begin, MoveTo
    <3>3. Halves'
        BY <2>1
           DEF LockInv, LockTypeOK, Held, Halves, Exclusive, Once, Twice, BeginWrite, Begin,
               MoveTo
    <3>4. Sees'
        BY <2>1
           DEF LockInv, LockTypeOK, Held, Halves, Sees, Exclusive, Once, Twice, BeginWrite,
               Begin, MoveTo
    <3>5. Past'
        BY <2>1
           DEF LockInv, LockTypeOK, Held, Halves, Past, ReturnType, Exclusive, Once, Twice,
               BeginWrite, Begin, MoveTo
    <3> QED
        BY <3>1, <3>2, <3>3, <3>4, <3>5 DEF LockInv
  <2>2. CASE BeginClose(t)
    <3>1. LockTypeOK'
        BY <2>2 DEF LockInv, LockTypeOK, Places, ReturnType, BeginClose, Begin, MoveTo
    <3>2. Held'
        BY <2>2 DEF LockInv, LockTypeOK, Held, Exclusive, Once, Twice, BeginClose, Begin, MoveTo
    <3>3. Halves'
        BY <2>2
           DEF LockInv, LockTypeOK, Held, Halves, Exclusive, Once, Twice, BeginClose, Begin,
               MoveTo
    <3>4. Sees'
        BY <2>2
           DEF LockInv, LockTypeOK, Held, Halves, Sees, Exclusive, Once, Twice, BeginClose,
               Begin, MoveTo
    <3>5. Past'
        BY <2>2
           DEF LockInv, LockTypeOK, Held, Halves, Past, ReturnType, Exclusive, Once, Twice,
               BeginClose, Begin, MoveTo
    <3> QED
        BY <3>1, <3>2, <3>3, <3>4, <3>5 DEF LockInv
  <2>3. ASSUME NEW n \in 0 .. MaxEndpoints, BeginQuery(t, n) PROVE LockInv'
    <3>1. LockTypeOK'
        BY <2>3 DEF LockInv, LockTypeOK, Places, ReturnType, BeginQuery, Begin, MoveTo
    <3>2. Held'
        BY <2>3 DEF LockInv, LockTypeOK, Held, Exclusive, Once, Twice, BeginQuery, Begin, MoveTo
    <3>3. Halves'
        BY <2>3
           DEF LockInv, LockTypeOK, Held, Halves, Exclusive, Once, Twice, BeginQuery, Begin,
               MoveTo
    <3>4. Sees'
        BY <2>3
           DEF LockInv, LockTypeOK, Held, Halves, Sees, Exclusive, Once, Twice, BeginQuery,
               Begin, MoveTo
    <3>5. Past'
        BY <2>3
           DEF LockInv, LockTypeOK, Held, Halves, Past, ReturnType, Exclusive, Once, Twice,
               BeginQuery, Begin, MoveTo
    <3> QED
        BY <3>1, <3>2, <3>3, <3>4, <3>5 DEF LockInv
  <2>4. CASE LockForWrite(t)
    <3>1. LockTypeOK'
        BY <2>4 DEF LockInv, LockTypeOK, Places, ReturnType, LockForWrite, LockExclusive, MoveTo
    <3>2. Held'
        BY <2>4
           DEF LockInv, LockTypeOK, Held, Exclusive, Once, Twice, LockForWrite, LockExclusive,
               MoveTo
    <3>3. Halves'
        BY <2>4
           DEF LockInv, LockTypeOK, Held, Halves, Exclusive, Once, Twice, LockForWrite,
               LockExclusive, MoveTo
    <3>4. Sees'
        BY <2>4
           DEF LockInv, LockTypeOK, Held, Halves, Sees, Exclusive, Once, Twice, LockForWrite,
               LockExclusive, MoveTo
    <3>5. Past'
        BY <2>4
           DEF LockInv, LockTypeOK, Held, Halves, Past, ReturnType, Exclusive, Once, Twice,
               LockForWrite, LockExclusive, MoveTo
    <3> QED
        BY <3>1, <3>2, <3>3, <3>4, <3>5 DEF LockInv
  <2>5. CASE WriteSubjects(t)
    <3>1. LockTypeOK'
        BY <2>5 DEF LockInv, LockTypeOK, Places, ReturnType, WriteSubjects, MoveTo
    <3>2. Held'
        BY <2>5 DEF LockInv, LockTypeOK, Held, Exclusive, Once, Twice, WriteSubjects, MoveTo
    <3>3. Halves'
        BY <2>5 DEF LockInv, LockTypeOK, Held, Halves, Exclusive, Once, Twice, WriteSubjects, MoveTo
    <3>4. Sees'
        BY <2>5
           DEF LockInv, LockTypeOK, Held, Halves, Sees, Exclusive, Once, Twice, WriteSubjects,
               MoveTo
    <3>5. Past'
        BY <2>5
           DEF LockInv, LockTypeOK, Held, Halves, Past, ReturnType, Exclusive, Once, Twice,
               WriteSubjects, MoveTo
    <3> QED
        BY <3>1, <3>2, <3>3, <3>4, <3>5 DEF LockInv
  <2>6. CASE WriteNothing(t)
    <3>1. LockTypeOK'
        BY <2>6 DEF LockInv, LockTypeOK, Places, ReturnType, WriteNothing, MoveTo
    <3>2. Held'
        BY <2>6 DEF LockInv, LockTypeOK, Held, Exclusive, Once, Twice, WriteNothing, MoveTo
    <3>3. Halves'
        BY <2>6 DEF LockInv, LockTypeOK, Held, Halves, Exclusive, Once, Twice, WriteNothing, MoveTo
    <3>4. Sees'
        BY <2>6
           DEF LockInv, LockTypeOK, Held, Halves, Sees, Exclusive, Once, Twice, WriteNothing,
               MoveTo
    <3>5. Past'
        BY <2>6
           DEF LockInv, LockTypeOK, Held, Halves, Past, ReturnType, Exclusive, Once, Twice,
               WriteNothing, MoveTo
    <3> QED
        BY <3>1, <3>2, <3>3, <3>4, <3>5 DEF LockInv
  <2>7. CASE WritePorts(t)
    <3>1. LockTypeOK'
        BY <2>7 DEF LockInv, LockTypeOK, Places, ReturnType, WritePorts, MoveTo
    <3>2. Held'
        BY <2>7 DEF LockInv, LockTypeOK, Held, Exclusive, Once, Twice, WritePorts, MoveTo
    <3>3. Halves'
        BY <2>7 DEF LockInv, LockTypeOK, Held, Halves, Exclusive, Once, Twice, WritePorts, MoveTo
    <3>4. Sees'
        BY <2>7
           DEF LockInv, LockTypeOK, Held, Halves, Sees, Exclusive, Once, Twice, WritePorts, MoveTo
    <3>5. Past'
        BY <2>7
           DEF LockInv, LockTypeOK, Held, Halves, Past, ReturnType, Exclusive, Once, Twice,
               WritePorts, MoveTo
    <3> QED
        BY <3>1, <3>2, <3>3, <3>4, <3>5 DEF LockInv
  <2>8. CASE ReturnWrite(t)
    <3>1. LockTypeOK'
        BY <2>8
           DEF LockInv, LockTypeOK, Places, ReturnType, ReturnWrite, UnlockExclusive, Return,
               MoveTo
    <3>2. Held'
        BY <2>8
           DEF LockInv, LockTypeOK, Held, Exclusive, Once, Twice, ReturnWrite, UnlockExclusive,
               Return, MoveTo
    <3>3. Halves'
        BY <2>8
           DEF LockInv, LockTypeOK, Held, Halves, Exclusive, Once, Twice, ReturnWrite,
               UnlockExclusive, Return, MoveTo
    <3>4. Sees'
        BY <2>8
           DEF LockInv, LockTypeOK, Held, Halves, Sees, Exclusive, Once, Twice, ReturnWrite,
               UnlockExclusive, Return, MoveTo
    <3>5. Past'
        BY <2>8
           DEF LockInv, LockTypeOK, Held, Halves, Past, ReturnType, Exclusive, Once, Twice,
               ReturnWrite, UnlockExclusive, Return, MoveTo
    <3> QED
        BY <3>1, <3>2, <3>3, <3>4, <3>5 DEF LockInv
  <2>9. CASE LockForClose(t)
    <3>1. LockTypeOK'
        BY <2>9 DEF LockInv, LockTypeOK, Places, ReturnType, LockForClose, LockExclusive, MoveTo
    <3>2. Held'
        BY <2>9
           DEF LockInv, LockTypeOK, Held, Exclusive, Once, Twice, LockForClose, LockExclusive,
               MoveTo
    <3>3. Halves'
        BY <2>9
           DEF LockInv, LockTypeOK, Held, Halves, Exclusive, Once, Twice, LockForClose,
               LockExclusive, MoveTo
    <3>4. Sees'
        BY <2>9
           DEF LockInv, LockTypeOK, Held, Halves, Sees, Exclusive, Once, Twice, LockForClose,
               LockExclusive, MoveTo
    <3>5. Past'
        BY <2>9
           DEF LockInv, LockTypeOK, Held, Halves, Past, ReturnType, Exclusive, Once, Twice,
               LockForClose, LockExclusive, MoveTo
    <3> QED
        BY <3>1, <3>2, <3>3, <3>4, <3>5 DEF LockInv
  <2>10. CASE ReturnClose(t)
    <3>1. LockTypeOK'
        BY <2>10, Zenon
           DEF LockInv, LockTypeOK, Places, ReturnType, ReturnClose, UnlockExclusive, Return,
               MoveTo
    <3>2. Held'
        BY <2>10
           DEF LockInv, LockTypeOK, Held, Exclusive, Once, Twice, ReturnClose, UnlockExclusive,
               Return, MoveTo
    <3>3. Halves'
        BY <2>10
           DEF LockInv, LockTypeOK, Held, Halves, Exclusive, Once, Twice, ReturnClose,
               UnlockExclusive, Return, MoveTo
    <3>4. Sees'
        BY <2>10
           DEF LockInv, LockTypeOK, Held, Halves, Sees, Exclusive, Once, Twice, ReturnClose,
               UnlockExclusive, Return, MoveTo
    <3>5. Past'
        BY <2>10
           DEF LockInv, LockTypeOK, Held, Halves, Past, ReturnType, Exclusive, Once, Twice,
               ReturnClose, UnlockExclusive, Return, MoveTo
    <3> QED
        BY <3>1, <3>2, <3>3, <3>4, <3>5 DEF LockInv
  <2>11. CASE LockForRead(t)
    <3>1. LockTypeOK'
        BY <2>11 DEF LockInv, LockTypeOK, Places, ReturnType, LockForRead, LockShared, MoveTo
    <3>2. Held'
        BY <2>11
           DEF LockInv, LockTypeOK, Held, Exclusive, Once, Twice, LockForRead, LockShared, MoveTo
    <3>3. Halves'
        BY <2>11
           DEF LockInv, LockTypeOK, Held, Halves, Exclusive, Once, Twice, LockForRead,
               LockShared, MoveTo
    <3>4. Sees'
        BY <2>11
           DEF LockInv, LockTypeOK, Held, Halves, Sees, Exclusive, Once, Twice, LockForRead,
               LockShared, MoveTo
    <3>5. Past'
        BY <2>11
           DEF LockInv, LockTypeOK, Held, Halves, Past, ReturnType, Exclusive, Once, Twice,
               LockForRead, LockShared, MoveTo
    <3> QED
        BY <3>1, <3>2, <3>3, <3>4, <3>5 DEF LockInv
  <2>12. CASE ReadSubjects(t)
    <3>1. LockTypeOK'
        BY <2>12 DEF LockInv, LockTypeOK, Places, ReturnType, ReadSubjects, MoveTo
    <3>2. Held'
        BY <2>12 DEF LockInv, LockTypeOK, Held, Exclusive, Once, Twice, ReadSubjects, MoveTo
    <3>3. Halves'
        BY <2>12 DEF LockInv, LockTypeOK, Held, Halves, Exclusive, Once, Twice, ReadSubjects, MoveTo
    <3>4. Sees'
        BY <2>12
           DEF LockInv, LockTypeOK, Held, Halves, Sees, Exclusive, Once, Twice, ReadSubjects,
               MoveTo
    <3>5. Past'
        BY <2>12
           DEF LockInv, LockTypeOK, Held, Halves, Past, ReturnType, Exclusive, Once, Twice,
               ReadSubjects, MoveTo
    <3> QED
        BY <3>1, <3>2, <3>3, <3>4, <3>5 DEF LockInv
  <2>13. CASE VisitEndpoint(t)
    <3>1. LockTypeOK'
        BY <2>13 DEF LockInv, LockTypeOK, Places, ReturnType, VisitEndpoint, MoveTo
    <3>2. Held'
        BY <2>13 DEF LockInv, LockTypeOK, Held, Exclusive, Once, Twice, VisitEndpoint, MoveTo
    <3>3. Halves'
        BY <2>13
           DEF LockInv, LockTypeOK, Held, Halves, Exclusive, Once, Twice, VisitEndpoint, MoveTo
    <3>4. Sees'
        BY <2>13
           DEF LockInv, LockTypeOK, Held, Halves, Sees, Exclusive, Once, Twice, VisitEndpoint,
               MoveTo
    <3>5. Past'
        BY <2>13
           DEF LockInv, LockTypeOK, Held, Halves, Past, ReturnType, Exclusive, Once, Twice,
               VisitEndpoint, MoveTo
    <3> QED
        BY <3>1, <3>2, <3>3, <3>4, <3>5 DEF LockInv
  <2>14. CASE LockNested(t)
    <3>1. LockTypeOK'
        BY <2>14 DEF LockInv, LockTypeOK, Places, ReturnType, LockNested, LockShared, MoveTo
    <3>2. Held'
        BY <2>14
           DEF LockInv, LockTypeOK, Held, Exclusive, Once, Twice, LockNested, LockShared, MoveTo
    <3>3. Halves'
        BY <2>14
           DEF LockInv, LockTypeOK, Held, Halves, Exclusive, Once, Twice, LockNested,
               LockShared, MoveTo
    <3>4. Sees'
        BY <2>14
           DEF LockInv, LockTypeOK, Held, Halves, Sees, Exclusive, Once, Twice, LockNested,
               LockShared, MoveTo
    <3>5. Past'
        BY <2>14
           DEF LockInv, LockTypeOK, Held, Halves, Past, ReturnType, Exclusive, Once, Twice,
               LockNested, LockShared, MoveTo
    <3> QED
        BY <3>1, <3>2, <3>3, <3>4, <3>5 DEF LockInv
  <2>15. CASE ReadNested(t)
    <3>1. LockTypeOK'
        BY <2>15
           DEF LockInv, LockTypeOK, Held, Places, ReturnType, Once, Twice, ReadNested,
               UnlockShared, MoveTo
    <3>2. Held'
        BY <2>15
           DEF LockInv, LockTypeOK, Held, Exclusive, Once, Twice, ReadNested, UnlockShared, MoveTo
    <3>3. Halves'
        BY <2>15
           DEF LockInv, LockTypeOK, Held, Halves, Exclusive, Once, Twice, ReadNested,
               UnlockShared, MoveTo
    <3>4. Sees'
        BY <2>15
           DEF LockInv, LockTypeOK, Held, Halves, Sees, Exclusive, Once, Twice, ReadNested,
               UnlockShared, MoveTo
    <3>5. Past'
        BY <2>15
           DEF LockInv, LockTypeOK, Held, Halves, Past, ReturnType, Exclusive, Once, Twice,
               ReadNested, UnlockShared, MoveTo
    <3> QED
        BY <3>1, <3>2, <3>3, <3>4, <3>5 DEF LockInv
  <2>16. CASE ReadPorts(t)
    <3>1. LockTypeOK'
        BY <2>16 DEF LockInv, LockTypeOK, Places, ReturnType, ReadPorts, MoveTo
    <3>2. Held'
        BY <2>16 DEF LockInv, LockTypeOK, Held, Exclusive, Once, Twice, ReadPorts, MoveTo
    <3>3. Halves'
        BY <2>16 DEF LockInv, LockTypeOK, Held, Halves, Exclusive, Once, Twice, ReadPorts, MoveTo
    <3>4. Sees'
        BY <2>16
           DEF LockInv, LockTypeOK, Held, Halves, Sees, Exclusive, Once, Twice, ReadPorts, MoveTo
    <3>5. Past'
        BY <2>16
           DEF LockInv, LockTypeOK, Held, Halves, Past, ReturnType, Exclusive, Once, Twice,
               ReadPorts, MoveTo
    <3> QED
        BY <3>1, <3>2, <3>3, <3>4, <3>5 DEF LockInv
  <2>17. CASE ReturnRead(t)
    <3>1. LockTypeOK'
        BY <2>17
           DEF LockInv, LockTypeOK, Held, Places, ReturnType, Once, Twice, ReturnRead,
               UnlockShared, Return, MoveTo
    <3>2. Held'
        BY <2>17
           DEF LockInv, LockTypeOK, Held, Exclusive, Once, Twice, ReturnRead, UnlockShared,
               Return, MoveTo
    <3>3. Halves'
        BY <2>17
           DEF LockInv, LockTypeOK, Held, Halves, Exclusive, Once, Twice, ReturnRead,
               UnlockShared, Return, MoveTo
    <3>4. Sees'
        BY <2>17
           DEF LockInv, LockTypeOK, Held, Halves, Sees, Exclusive, Once, Twice, ReturnRead,
               UnlockShared, Return, MoveTo
    <3>5. Past'
        BY <2>17
           DEF LockInv, LockTypeOK, Held, Halves, Past, ReturnType, Exclusive, Once, Twice,
               ReturnRead, UnlockShared, Return, MoveTo
    <3> QED
        BY <3>1, <3>2, <3>3, <3>4, <3>5 DEF LockInv
  <2> QED
      BY <1>a, <2>1, <2>2, <2>3, <2>4, <2>5, <2>6, <2>7, <2>8, <2>9, <2>10, <2>11, <2>12, <2>13,
         <2>14, <2>15, <2>16, <2>17 DEF Calls, Proceed
<1> QED
    BY <1>0, <1>a DEF LockNext

\* The lock discipline holds in every reachable state.
THEOREM LockInvariant == LockSpec => []LockInv
<1> QED
    BY LockInitInv, LockNextInv, PTL DEF LockSpec

\* Whatever runs beside it, a query answers from one state of the registry, nested lock
\* included, and from one no older than the last change that had returned.
THEOREM OneInstant == LockSpec => []AnswersAtOneInstant
<1>1. LockInv => AnswersAtOneInstant
    BY DEF LockInv, LockTypeOK, Sees, Past, ReturnType, AnswersAtOneInstant
<1> QED
    BY <1>1, LockInvariant, PTL

\* A call that begins after Close returned changes nothing.
THEOREM CloseIsFinal == LockSpec => []NothingAcceptedAfterClose
<1>1. LockInv => NothingAcceptedAfterClose
    BY DEF LockInv, Past, NothingAcceptedAfterClose
<1> QED
    BY <1>1, LockInvariant, PTL

\* Under either kind of lock, threads wait in a circle only through the nested lock of
\* QueryTopology and a writer that it is queued behind.
THEOREM NestedCirclesOnly == LockSpec => []OnlyNestedWaits
<1>1. LockInv => OnlyNestedWaits
  <2> SUFFICES ASSUME LockInv, NEW S \in SUBSET Threads, Circle(S)
               PROVE  /\ WriterPreference
                      /\ \E t \in S : pc[t] = "want_nested"
                      /\ \E u \in S : pc[u] \in {"want_write", "want_close"}
      BY DEF OnlyNestedWaits
  <2> DEFINE Reader(t) == pc[t] \in {"want_read", "want_nested"}
             Writer(t) == pc[t] \in {"want_write", "want_close"}
  <2>1. \A t \in S : (Reader(t) \/ Writer(t)) /\ t # writer
      BY LockAssumption DEF Circle, WaitsFor, LockInv, Held, Exclusive
  <2>2. ASSUME NEW t \in S, Reader(t) PROVE WriterPreference /\ \E u \in S : Writer(u)
      BY <2>1, <2>2 DEF Circle, WaitsFor
  <2>3. ASSUME NEW t \in S, Writer(t) PROVE \E u \in S : pc[u] = "want_nested"
    <3>1. PICK u \in S : shares[u] > 0
        BY <2>1, <2>3 DEF Circle, WaitsFor
    <3>2. pc[u] \in Once \/ pc[u] \in Twice
        BY <3>1 DEF LockInv, Held
    <3> QED
        BY <2>1, <3>2 DEF Once, Twice
  <2>4. PICK t \in S : TRUE
      BY DEF Circle
  <2>5. \E u \in S : Writer(u)
      BY <2>1, <2>2, <2>4
  <2>6. \E u \in S : pc[u] = "want_nested"
      BY <2>3, <2>5
  <2> QED
      BY <2>2, <2>5, <2>6
<1> QED
    BY <1>1, LockInvariant, PTL

-----------------------------------------------------------------------------
(***************************************************************************)
(* The transport.                                                          *)
(***************************************************************************)
\* The number after one that is below a bound is within it.
LEMMA Successor ==
    ASSUME NEW n \in Nat, NEW m \in Nat, n < m
    PROVE  n + 1 <= m
OBVIOUS

CallerPlaces ==
    {"idle", "wait", "waiting", "stop", "flag", "notify", "wake", "join", "joining",
     "drain", "draining", "close", "stopped", "done"}
ThreadPlaces ==
    {"none", "head", "body", "dispatch", "reply", "sending", "signal", "notify", "close",
     "leave", "notify_live", "gone"}

\* The connections whose threads are counted.
Serving == {c \in Clients : thread[c] \notin {"none", "notify_live", "gone"}}

Types ==
    /\ caller \in [Waiters \cup Stoppers -> CallerPlaces]
    /\ acceptor \in {"select", "accept", "admit", "spawn", "ended"}
    /\ thread \in [Clients -> ThreadPlaces]
    /\ severed \in [Clients -> BOOLEAN]
    /\ DOMAIN client = Clients
    /\ backlog \in Seq(Clients)

\* The connection in the acceptor's hands, between accept and its thread.
InHand(c) == acceptor \in {"admit", "spawn"} /\ accepted = c
Queued(c) == \E n \in 1 .. Len(backlog) : backlog[n] = c

\* A connection waits in one place, and has no thread while it does.
Queue ==
    /\ \A m, n \in 1 .. Len(backlog) : backlog[m] = backlog[n] => m = n
    /\ \A c \in Clients : Queued(c) => thread[c] = "none" /\ client[c] # "new" /\ ~InHand(c)
    /\ acceptor = "accept" => backlog # << >>
    /\ acceptor \in {"admit", "spawn"} =>
          accepted \in Clients /\ thread[accepted] = "none" /\ client[accepted] # "new"
    /\ \A c \in Clients : client[c] = "new" => thread[c] = "none"

\* A connection without a thread waits for one or was closed, and a thread that ends
\* has closed its connection.
Accounted ==
    /\ \A c \in Clients : (client[c] # "new" /\ thread[c] = "none") =>
                              severed[c] \/ Queued(c) \/ InHand(c)
    /\ \A c \in Clients : thread[c] \in {"leave", "notify_live", "gone"} => severed[c]

Count ==
    live_connections = Cardinality(Serving) + (IF acceptor = "spawn" THEN 1 ELSE 0)

\* Whoever waits for the connections to end has seen the acceptor end; whoever closes the
\* listener has seen the count at zero.
Order ==
    /\ joined => acceptor = "ended"
    /\ \A t \in DOMAIN caller :
          caller[t] \in {"drain", "draining", "close", "stopped"} => acceptor = "ended"
    /\ \A t \in DOMAIN caller : caller[t] \in {"close", "stopped"} => live_connections = 0
    /\ \A t \in DOMAIN caller : caller[t] = "stopped" => backlog = << >>

Inv == Types /\ Queue /\ Accounted /\ Count /\ Order

-----------------------------------------------------------------------------
\* What is queued after a connection has joined the end of the queue.
LEMMA Appended ==
    ASSUME NEW S, NEW q \in Seq(S), NEW c \in S, NEW new, new = Append(q, c)
    PROVE  /\ new \in Seq(S) /\ Len(q) \in Nat /\ Len(new) = Len(q) + 1
           /\ \A n \in 1 .. Len(q) : new[n] = q[n]
           /\ new[Len(q) + 1] = c
           /\ \A d : (\E n \in 1 .. Len(new) : new[n] = d) <=>
                         (\E n \in 1 .. Len(q) : q[n] = d) \/ d = c
  OBVIOUS

\* The first of a queue that is not empty.
LEMMA FirstQueued ==
    ASSUME NEW S, NEW q \in Seq(S), q # << >>
    PROVE  Head(q) \in S
  OBVIOUS

\* There are finitely many connections to count.
LEMMA ServingFinite == IsFiniteSet(Serving) /\ Cardinality(Serving) \in Nat
<1>1. IsFiniteSet(Clients) /\ Serving \subseteq Clients
    BY IpcAssumption DEF Serving
<1> QED
    BY <1>1, FS_Subset, FS_CardinalityType

\* Initially the acceptor waits and nobody is connected.
LEMMA InitInv == Init => Inv
<1> SUFFICES ASSUME Init PROVE Inv
    OBVIOUS
<1>1. Types
    BY DEF Init, Types, CallerPlaces, ThreadPlaces
<1>2. Queue /\ Accounted
    BY DEF Init, Queue, Accounted, Queued, InHand
<1>3. Serving = {}
    BY DEF Init, Serving
<1>4. Count
    BY <1>3, FS_EmptySet DEF Init, Count
<1>5. Order
    BY DEF Init, Order
<1> QED
    BY <1>1, <1>2, <1>4, <1>5 DEF Inv

\* What a step of a connection's thread can change: its own place, which it leaves for
\* good only after closing the connection; the count, when it leaves; and the callers
\* that are asleep.
LEMMA ThreadMoves ==
    ASSUME Inv, NEW c \in Clients, ThreadStep(c)
    PROVE  /\ UNCHANGED <<acceptor, accepted, backlog, client, joined>>
           /\ thread' \in [Clients -> ThreadPlaces] /\ severed' \in [Clients -> BOOLEAN]
           /\ caller' \in [Waiters \cup Stoppers -> CallerPlaces]
           /\ \A t \in Waiters \cup Stoppers :
                  \/ caller'[t] = caller[t]
                  \/ caller[t] = "waiting" /\ caller'[t] = "wait"
                  \/ caller[t] = "draining" /\ caller'[t] = "drain"
           /\ \A d \in Clients \ {c} : thread'[d] = thread[d]
           /\ \A d \in Clients : severed[d] => severed'[d]
           /\ thread[c] # "none" /\ thread'[c] # "none"
           /\ thread'[c] \in {"leave", "notify_live", "gone"} => severed'[c]
           /\ \/ /\ live_connections' = live_connections
                 /\ thread[c] \in {"notify_live", "gone"} <=> thread'[c] \in {"notify_live", "gone"}
              \/ /\ live_connections' = live_connections - 1
                 /\ thread[c] = "leave" /\ thread'[c] = "notify_live"
<1> USE DEF Inv, Types, ThreadStep, acceptVars, clientVars, callerVars, flagVars, wireVars
<1>0. thread[c] \in {"leave", "notify_live", "gone"} => severed[c]
    BY DEF Accounted
<1>1. CASE CheckStop(c)
    BY <1>0, <1>1 DEF CheckStop, At, AfterReply, ThreadPlaces
<1>2. CASE SliceEnds(c)
    BY <1>0, <1>2, Zenon DEF SliceEnds, ThreadPlaces
<1>3. CASE ReceiveHeader(c)
    BY <1>0, <1>3, ZenonT(60) DEF ReceiveHeader, At, ThreadPlaces
<1>4. CASE ReceiveBody(c)
    BY <1>0, <1>4 DEF ReceiveBody, At, ThreadPlaces
<1>5. CASE Dispatch(c)
    BY <1>0, <1>5 DEF Dispatch, At, ThreadPlaces
<1>6. CASE SendReply(c)
    BY <1>0, <1>6 DEF SendReply, At, AfterReply, ThreadPlaces
<1>12. CASE SendEnds(c)
    BY <1>0, <1>12 DEF SendEnds, At, AfterReply, ThreadPlaces
<1>7. CASE SignalShutdown(c)
    BY <1>0, <1>7 DEF SignalShutdown, At, ThreadPlaces
<1>8. CASE NotifyShutdown(c)
    BY <1>0, <1>8 DEF NotifyShutdown, Notified, At, ThreadPlaces, CallerPlaces
<1>9. CASE CloseConnection(c)
    BY <1>0, <1>9 DEF CloseConnection, At, ThreadPlaces
<1>10. CASE Leave(c)
    BY <1>0, <1>10, Zenon DEF Leave, Counted, At, ThreadPlaces
<1>11. CASE NotifyLive(c)
    BY <1>0, <1>11 DEF NotifyLive, Notified, At, ThreadPlaces, CallerPlaces
<1> QED
    BY <1>1, <1>2, <1>3, <1>4, <1>5, <1>6, <1>7, <1>8, <1>9, <1>10, <1>11, <1>12, Zenon

\* A step of a connection's thread keeps the invariant.
LEMMA ThreadInv ==
    ASSUME Inv, NEW c \in Clients, ThreadStep(c)
    PROVE  Inv'
<1> USE ThreadMoves DEF Inv
<1>1. Types'
    BY DEF Types
<1>2. Queue'
    BY DEF Types, Queue, Queued, InHand
<1>3. Accounted'
    BY DEF Types, Accounted, Queued, InHand
<1>4. Count' /\ (live_connections = 0 => live_connections' = 0 \/ acceptor = "spawn")
  <2>1. CASE live_connections' = live_connections /\ Serving' = Serving
    BY <2>1 DEF Count
  <2>2. CASE live_connections' = live_connections - 1 /\ c \in Serving /\ Serving' = Serving \ {c}
    <3>1. Cardinality(Serving') = Cardinality(Serving) - 1
        BY <2>2, ServingFinite, FS_RemoveElement, Zenon
    <3>2. Cardinality(Serving) # 0
        BY <2>2, ServingFinite, FS_EmptySet
    <3> QED
        BY <2>2, <3>1, <3>2, ServingFinite DEF Count
  <2> QED
    BY <2>1, <2>2 DEF Types, Serving, ThreadPlaces
<1>5. Order'
    BY <1>4 DEF Types, Order
<1> QED
    BY <1>1, <1>2, <1>3, <1>4, <1>5

\* A step of the acceptor keeps the invariant.
LEMMA AcceptorInv == Inv /\ AcceptorStep => Inv'
<1> SUFFICES ASSUME Inv, AcceptorStep PROVE Inv'
    OBVIOUS
<1> USE DEF Inv, AcceptorStep, callerVars, clientVars, flagVars, threadVars
<1>1. CASE WaitReadable
  <2>1. Serving' = Serving
    BY <1>1 DEF WaitReadable, Serving
  <2>2. Types' /\ Queue' /\ Accounted'
    BY <1>1 DEF WaitReadable, Types, Queue, Accounted, Queued, InHand
  <2>3. Count'
    BY <1>1, <2>1 DEF WaitReadable, Count
  <2>4. Order'
    BY <1>1 DEF WaitReadable, Order
  <2> QED
    BY <2>2, <2>3, <2>4
<1>2. CASE Accept
  <2>1. Serving' = Serving
    BY <1>2 DEF Accept, Serving
  <2>2. CASE accepted' = Head(backlog) /\ backlog' = Tail(backlog) /\ acceptor' = "admit"
    <3>1. /\ backlog # << >> /\ Len(backlog) \in Nat /\ Len(backlog) > 0
          /\ backlog' \in Seq(Clients) /\ Len(backlog') = Len(backlog) - 1
          /\ \A n \in 1 .. Len(backlog') : backlog'[n] = backlog[n + 1]
          /\ accepted' = backlog[1] /\ accepted' \in Clients
        BY <1>2, <2>2 DEF Accept, Types, Queue
    <3>2. \A d \in Clients : Queued(d) <=> Queued(d)' \/ d = accepted'
      <4> SUFFICES ASSUME NEW d \in Clients PROVE Queued(d) <=> Queued(d)' \/ d = accepted'
        OBVIOUS
      <4>1. ASSUME NEW n \in 1 .. Len(backlog), backlog[n] = d PROVE Queued(d)' \/ d = accepted'
        <5>1. n = 1 \/ (n - 1 \in 1 .. Len(backlog') /\ backlog'[n - 1] = backlog[n])
            BY <3>1
        <5> QED
            BY <4>1, <5>1, <3>1 DEF Queued
      <4>2. ASSUME Queued(d)' \/ d = accepted' PROVE Queued(d)
        BY <4>2, <3>1 DEF Queued
      <4> QED
        BY <4>1, <4>2 DEF Queued
    <3>3. ASSUME NEW d \in Clients, d = accepted' PROVE Queued(d) /\ ~Queued(d)'
      <4>1. \A n \in 1 .. Len(backlog') : n + 1 \in 1 .. Len(backlog) /\ n + 1 # 1
        BY <3>1
      <4> QED
        BY <3>1, <3>3, <4>1 DEF Queue, Queued
    <3>4. Types'
        BY <1>2, <2>2, <3>1 DEF Accept, Types
    <3>5. Queue'
      <4>1. \A m, n \in 1 .. Len(backlog') : backlog'[m] = backlog'[n] => m = n
        BY <3>1 DEF Queue
      <4>2. \A d \in Clients : Queued(d)' =>
                thread'[d] = "none" /\ client'[d] # "new" /\ ~InHand(d)'
        BY <1>2, <2>2, <3>2, <3>3 DEF Accept, Queue, InHand
      <4>3. thread'[accepted'] = "none" /\ client'[accepted'] # "new"
        BY <1>2, <3>1, <3>3 DEF Accept, Queue
      <4> QED
        BY <1>2, <2>2, <3>1, <4>1, <4>2, <4>3 DEF Accept, Queue
    <3>6. Accounted'
        BY <1>2, <2>2, <3>2 DEF Accept, Accounted, InHand
    <3>7. Count' /\ Order'
        BY <1>2, <2>1, <2>2 DEF Accept, Count, Order
    <3> QED
        BY <3>4, <3>5, <3>6, <3>7
  <2>3. CASE acceptor' = "ended" /\ UNCHANGED <<accepted, backlog>>
    BY <1>2, <2>1, <2>3 DEF Accept, Types, Queue, Accounted, Queued, InHand, Count, Order
  <2> QED
    BY <1>2, <2>2, <2>3 DEF Accept
<1>3. CASE Admit
  <2>1. Serving' = Serving
    BY <1>3 DEF Admit, Serving
  <2>2. Types'
    BY <1>3, Zenon DEF Admit, Types
  <2>3. Queue' /\ Accounted'
    BY <1>3 DEF Admit, Types, Queue, Accounted, Queued, InHand
  <2>4. Count'
    BY <1>3, <2>1, ServingFinite DEF Admit, Counted, Count
  <2>5. Order'
    BY <1>3 DEF Admit, Order
  <2> QED
    BY <2>2, <2>3, <2>4, <2>5
<1>4. CASE Spawn
  <2>1. Types' /\ Queue' /\ Accounted'
    <3>1. /\ backlog' = backlog /\ client' = client
          /\ \A d \in Clients : Queued(d)' = Queued(d) /\ ~InHand(d)'
        BY <1>4 DEF Spawn, Queued, InHand
    <3>2. accepted \in Clients /\ InHand(accepted) /\ ~Queued(accepted)
        BY <1>4 DEF Spawn, Queue, InHand
    <3>3. \A d \in Clients : d # accepted =>
                thread'[d] = thread[d] /\ severed'[d] = severed[d] /\ ~InHand(d)
        BY <1>4 DEF Spawn, Types, InHand
    <3>4. thread'[accepted] = "head" \/ (thread'[accepted] = "none" /\ severed'[accepted])
        BY <1>4, <3>2 DEF Spawn, Types, Queue
    <3>5. Types'
        BY <1>4, Zenon DEF Spawn, Types, ThreadPlaces
    <3>6. Queue'
        BY <1>4, <3>1, <3>2, <3>3, <3>4 DEF Spawn, Queue
    <3>7. Accounted'
        BY <3>1, <3>2, <3>3, <3>4, Zenon DEF Accounted
    <3> QED
        BY <3>5, <3>6, <3>7
  <2>2. CASE thread' = [thread EXCEPT ![accepted] = "head"] /\ UNCHANGED flagVars
    <3>1. accepted \in Clients \ Serving /\ Serving' = Serving \cup {accepted}
        BY <1>4, <2>2 DEF Spawn, Serving, Types, Queue
    <3>2. Cardinality(Serving') = Cardinality(Serving) + 1
        BY <3>1, ServingFinite, FS_AddElement
    <3> QED
        BY <1>4, <2>1, <2>2, <3>2, ServingFinite DEF Spawn, Count, Order
  <2>3. CASE Counted(-1) /\ UNCHANGED thread
    <3>1. Serving' = Serving
        BY <2>3 DEF Serving
    <3> QED
        BY <1>4, <2>1, <2>3, <3>1, ServingFinite DEF Spawn, Counted, Count, Order
  <2> QED
    BY <1>4, <2>2, <2>3 DEF Spawn
<1> QED
    BY <1>1, <1>2, <1>3, <1>4

\* A step of a thread that waits for a shutdown or stops the server keeps it.
LEMMA CallerInv ==
    ASSUME Inv, NEW t \in DOMAIN caller, CallerStep(t) \/ CallStop(t) \/ CloseListener(t),
           ~CloseListener(t) =>
              UNCHANGED <<acceptVars, threadVars, backlog, wireVars, clientVars, applied>>
    PROVE  Inv'
<1> USE DEF Inv, acceptVars, threadVars, wireVars, clientVars, callerVars, flagVars
<1>1. CASE CloseListener(t)
  <2>1. Serving' = Serving
    BY <1>1 DEF CloseListener, Serving
  <2>2. \A c \in Clients : /\ ~Queued(c)'
                           /\ severed'[c] <=> severed[c] \/ Queued(c)
    <3>1. backlog' = << >> /\ DOMAIN backlog = 1 .. Len(backlog)
        BY <1>1 DEF CloseListener, Types
    <3>2. \A c \in Clients : ~Queued(c)'
        BY <3>1 DEF Queued
    <3>3. \A c \in Clients : severed'[c] <=> severed[c] \/ \E n \in DOMAIN backlog : backlog[n] = c
        BY <1>1, Zenon DEF CloseListener
    <3> QED
        BY <3>1, <3>2, <3>3, Zenon DEF Queued
  <2>3. Types'
    BY <1>1 DEF CloseListener, Goto, Types, CallerPlaces
  <2>4. Order'
    BY <1>1 DEF CloseListener, Goto, Order, Types
  <2>5. Queue'
    BY <1>1, <2>2, <2>4 DEF CloseListener, Goto, Queue, InHand, Order, Types
  <2>6. Accounted'
    BY <1>1, <2>2, Zenon DEF CloseListener, Accounted, InHand
  <2>7. Count'
    BY <1>1, <2>1 DEF CloseListener, Count
  <2> QED
    BY <2>3, <2>4, <2>5, <2>6, <2>7
<1>2. CASE ~CloseListener(t)
  <2>1. Serving' = Serving
    BY <1>2 DEF Serving
  <2>2. live_connections' = live_connections
    BY <1>2 DEF CallerStep, CallStop, CheckShutdown, BeginStop, RaiseFlag, NotifyWaiters,
                WakeAcceptor, Join, Joined, CheckLive
  <2>3. caller' \in [Waiters \cup Stoppers -> CallerPlaces]
    BY <1>2, Zenon
       DEF Types, CallerPlaces, CallerStep, CallStop, CheckShutdown, BeginStop, RaiseFlag,
                NotifyWaiters, WakeAcceptor, Join, Joined, CheckLive, Goto, Notified
  <2>4. /\ joined' => acceptor = "ended"
        /\ \A x \in DOMAIN caller :
              caller'[x] \in {"drain", "draining", "close", "stopped"} => acceptor = "ended"
        /\ \A x \in DOMAIN caller :
              caller'[x] \in {"close", "stopped"} => live_connections = 0
        /\ \A x \in DOMAIN caller : caller'[x] = "stopped" => caller[x] = "stopped"
    <3> USE DEF Types, Order
    <3>1. CASE CheckShutdown(t)
        BY <3>1 DEF CheckShutdown
    <3>2. CASE BeginStop(t) \/ RaiseFlag(t) \/ WakeAcceptor(t) \/ CallStop(t)
        BY <3>2 DEF BeginStop, RaiseFlag, WakeAcceptor, CallStop, Goto
    <3>3. CASE NotifyWaiters(t)
        BY <3>3 DEF NotifyWaiters, Notified
    <3>4. CASE Join(t) \/ Joined(t)
        BY <3>4 DEF Join, Joined, Goto
    <3>5. CASE CheckLive(t)
        BY <3>5 DEF CheckLive
    <3> QED
        BY <1>2, <3>1, <3>2, <3>3, <3>4, <3>5 DEF CallerStep
  <2>5. Types'
    BY <1>2, <2>3 DEF Types
  <2>6. Queue' /\ Accounted'
    <3>1. Queue'
      BY <1>2, Zenon DEF Queue, Queued, InHand
    <3>2. Accounted'
      BY <1>2, Zenon DEF Accounted, Queued, InHand
    <3> QED
      BY <3>1, <3>2, Zenon
  <2>7. Count'
    BY <1>2, <2>1, <2>2 DEF Count
  <2>8. Order'
    BY <1>2, <2>2, <2>3, <2>4 DEF Order, Types
  <2> QED
    BY <2>5, <2>6, <2>7, <2>8
<1> QED
    BY <1>1, <1>2

\* A step of a client keeps it: a client that connects queues up behind a listener that
\* nobody has closed.
LEMMA ClientInv ==
    ASSUME Inv, NEW c \in Clients,
           \/ Connect(c) \/ (\E kind \in Kinds : Ask(c, kind)) \/ SendBody(c)
           \/ Receive(c) \/ EndOfStream(c) \/ Stall(c) \/ Hangup(c)
    PROVE  Inv'
<1> USE DEF Inv, serverVars, callerVars, flagVars, acceptVars, threadVars
<1>0. Serving' = Serving
    BY Zenon DEF Serving, Connect, Ask, SendBody, Receive, EndOfStream, Stall, Hangup
<1>1. CASE Connect(c)
  <2>1. /\ backlog' \in Seq(Clients) /\ Len(backlog) \in Nat /\ Len(backlog') = Len(backlog) + 1
        /\ \A n \in 1 .. Len(backlog) : backlog'[n] = backlog[n]
        /\ backlog'[Len(backlog) + 1] = c
    <3>1. backlog' = Append(backlog, c) /\ backlog \in Seq(Clients) /\ c \in Clients
        BY <1>1, Zenon DEF Connect, Types
    <3> QED
        BY ONLY <3>1, Appended
  <2>2. \A d \in Clients : Queued(d)' <=> Queued(d) \/ d = c
    <3>1. backlog' = Append(backlog, c) /\ backlog \in Seq(Clients)
        BY <1>1, Zenon DEF Connect, Types
    <3> QED
        BY <3>1, Appended DEF Queued
  <2>3. thread[c] = "none" /\ ~Queued(c) /\ ~InHand(c)
    BY <1>1 DEF Connect, Queue, InHand
  <2>4. Types'
    BY <1>1, <2>1, Zenon DEF Connect, Types
  <2>5. Queue'
    <3>1. \A m, n \in 1 .. Len(backlog') : backlog'[m] = backlog'[n] => m = n
        BY <2>1, <2>3 DEF Queue, Queued
    <3>2. backlog' # << >>
        BY <2>1
    <3> QED
        BY <1>1, <2>2, <2>3, <3>1, <3>2, Zenon DEF Connect, Queue, InHand, Types
  <2>6. Accounted'
    BY <1>1, <2>2 DEF Connect, Accounted, InHand, Types
  <2>7. Count' /\ Order'
    BY <1>0, <1>1 DEF Connect, Count, Order, ListenerOpen
  <2> QED
    BY <2>4, <2>5, <2>6, <2>7
<1>2. CASE ~Connect(c)
  <2>1. /\ UNCHANGED <<serverVars, backlog>> /\ DOMAIN client' = Clients
        /\ \A d \in Clients : client'[d] = "new" <=> client[d] = "new"
    BY <1>2, Zenon DEF Types, Ask, SendBody, Receive, EndOfStream, Stall, Hangup
  <2>2. Types' /\ Queue' /\ Accounted'
    <3>1. \A d \in Clients : Queued(d)' = Queued(d) /\ InHand(d)' = InHand(d)
        BY <2>1, ZenonT(60) DEF Queued, InHand
    <3>2. Types'
        BY <2>1, ZenonT(60) DEF Types
    <3>3. Queue'
        BY <2>1, <3>1, ZenonT(60) DEF Queue
    <3>4. Accounted'
        BY <2>1, <3>1, Zenon DEF Accounted
    <3> QED
        BY <3>2, <3>3, <3>4
  <2>3. Count' /\ Order'
    BY <1>0, <2>1, Zenon DEF Count, Order
  <2> QED
    BY <2>2, <2>3
<1> QED
    BY <1>1, <1>2

\* Every step keeps the invariant.
LEMMA NextInv == Inv /\ [Next]_vars => Inv'
<1> SUFFICES ASSUME Inv, [Next]_vars PROVE Inv'
    OBVIOUS
<1>1. CASE UNCHANGED vars
  <2>1. Serving' = Serving
    BY <1>1 DEF vars, threadVars, Serving
  <2> QED
    BY <1>1, <2>1, ZenonT(60)
       DEF vars, callerVars, flagVars, acceptVars, threadVars, wireVars, clientVars,
                      Inv, Types, Queue, Accounted, Count, Order, Queued, InHand
<1>2. ASSUME NEW t \in DOMAIN caller, CallerStep(t) \/ CloseListener(t) PROVE Inv'
    BY <1>2, CallerInv DEF CallerStep
<1>3. ASSUME NEW t \in DOMAIN caller, CallStop(t),
             UNCHANGED <<acceptVars, threadVars, backlog, wireVars, clientVars, applied>>
      PROVE  Inv'
    BY <1>3, CallerInv
<1> QED
    BY <1>1, <1>2, <1>3, AcceptorInv, ThreadInv, ClientInv DEF Next

\* The invariant holds in every reachable state.
LEMMA IpcInvariant == Spec => []Inv
<1> QED
    BY InitInv, NextInv, PTL DEF Spec

\* ConnectionsCounted, for any number of clients and any limit: live_connections is the
\* number of connections that were admitted and have not left.
THEOREM LiveCountCorrect == Spec => []ConnectionsCounted
<1>1. Inv => ConnectionsCounted
    BY DEF Inv, Count, Serving, ConnectionsCounted
<1> QED
    BY <1>1, IpcInvariant, PTL

\* QuietAfterStop, for any number of clients, waiters and stoppers: when a Stop has
\* returned no thread serves a connection and every connection is closed.
THEOREM StopIsQuiet == Spec => []QuietAfterStop
<1>1. Inv => QuietAfterStop
  <2> SUFFICES ASSUME Inv, Stopped PROVE
          /\ acceptor = "ended"
          /\ \A c \in Clients : /\ thread[c] \in {"none", "notify_live", "gone"}
                                /\ client[c] # "new" => severed[c] \/ client[c] = "closed"
    BY Zenon DEF QuietAfterStop
  <2>1. acceptor = "ended" /\ live_connections = 0 /\ backlog = << >>
    BY DEF Inv, Order, Stopped
  <2>2. Serving = {}
    BY <2>1, ServingFinite, FS_EmptySet DEF Inv, Count
  <2>3. \A c \in Clients : ~Queued(c) /\ ~InHand(c)
    BY <2>1 DEF Queued, InHand
  <2> QED
    BY <2>1, <2>2, <2>3, Zenon DEF Inv, Accounted, Serving
<1> QED
    BY <1>1, IpcInvariant, PTL

-----------------------------------------------------------------------------
(***************************************************************************)
(* Replies and the requests they answer.                                   *)
(***************************************************************************)
ReplyKind == {"HelloAck", "Ack", "Failure", "ShutdownAck", "Wide", "Flood", "Bulk", "Unframed",
              "Rejected"}

\* A reply is about the request whose identifier it carries, unless it rejects a frame
\* that was never read.
Reply == {r \in [id: Nat, kind: ReplyKind, about: Nat] : r.kind = "Rejected" \/ r.about = r.id}
Remains == [id: {0}, kind: {"junk", "scrap", "lump"}]
OnStream == Reply \cup Remains

Request(kinds) == [id: Nat, kind: kinds]
Served == (RequestKind \ {"Huge"}) \cup {"Hello"}

Requests == Request(RequestKind \cup {"Hello"})

\* What is on the wire are requests, and one whose header was read is still the first.
Asked ==
    /\ request \in [Clients -> Request(RequestKind \cup {"Hello", "none"})]
    /\ upstream \in [Clients -> Seq(Requests)]
    /\ \A c \in Clients : thread[c] = "body" => upstream[c] # << >>

\* A connection's thread holds a request it can serve, then a reply about it.
Handled ==
    /\ DOMAIN frame = Clients
    /\ \A c \in Clients : thread[c] \in {"body", "dispatch"} => frame[c] \in Request(Served)
    /\ \A c \in Clients : thread[c] = "reply" => frame[c] \in Reply

Delivered == downstream \in [Clients -> Seq(OnStream)]

Returns == DOMAIN result = Clients /\ AnswerIsForRequest

Replies == Asked /\ Handled /\ Delivered /\ Returns

\* The frame that rejects a header is a reply.
LEMMA RejectionIsReply ==
    ASSUME NEW n \in Nat
    PROVE  [id |-> 0, kind |-> "Rejected", about |-> n] \in Reply
  BY DEF Reply, ReplyKind

\* What is on its way to a client stays so when it is cleared or a frame is added.
LEMMA StreamGrows ==
    << >> \in Seq(OnStream) /\ \A s \in Seq(OnStream), x \in OnStream : Append(s, x) \in Seq(OnStream)
  OBVIOUS

\* So it does when something comes before it.
LEMMA Preceded == \A s \in Seq(OnStream), x \in OnStream : <<x>> \o s \in Seq(OnStream)
  OBVIOUS

\* Requests are read from the front and added at the end.
LEMMA RequestsMove ==
    /\ \A s \in Seq(Requests) : s # << >> => Head(s) \in Requests /\ Tail(s) \in Seq(Requests)
    /\ \A s \in Seq(Requests), x \in Requests :
          Append(s, x) \in Seq(Requests) /\ Append(s, x) # << >>
    /\ \A x \in Requests : <<x>> \in Seq(Requests) /\ <<x>> # << >>
<1>1. \A s \in Seq(Requests) : s # << >> => Head(s) \in Requests /\ Tail(s) \in Seq(Requests)
    OBVIOUS
<1>2. ASSUME NEW s \in Seq(Requests), NEW x \in Requests
      PROVE  Append(s, x) \in Seq(Requests) /\ Append(s, x) # << >>
  <2>1. Len(Append(s, x)) = Len(s) + 1 /\ Len(s) \in Nat /\ Append(s, x) \in Seq(Requests)
    OBVIOUS
  <2>2. Len(Append(s, x)) # 0
    BY <2>1
  <2> QED
    BY <2>1, <2>2
<1>3. ASSUME NEW x \in Requests PROVE <<x>> \in Seq(Requests) /\ <<x>> # << >>
    OBVIOUS
<1> QED
    BY <1>1, <1>2, <1>3, Zenon

\* The verdict on a reply that is about the request it names.
LEMMA VerdictMatches ==
    ASSUME NEW c \in Clients, NEW r \in OnStream, Verdict(c, r).outcome = "answer"
    PROVE  Verdict(c, r).answer = Verdict(c, r).asked
<1>1. \A x, y : /\ Returned(c, x, y).outcome = "answer" => x = "answer"
                /\ Returned(c, x, y).answer = y /\ Returned(c, x, y).asked = request[c].id
    BY DEF Returned
<1>2. CASE r.kind \in Garbled
    BY <1>1, <1>2, Zenon DEF Verdict
<1>3. CASE r.kind \notin Garbled /\ r.id # request[c].id
    BY <1>1, <1>3, Zenon DEF Verdict
<1>4. CASE r.kind \in {"Failure", "Rejected"} /\ r.id = request[c].id
    BY <1>1, <1>4, Zenon DEF Verdict
<1>5. CASE r.kind \notin Garbled \cup {"Failure", "Rejected"} /\ r.id = request[c].id
  <2>1. Verdict(c, r) = Returned(c, "answer", r.about)
    BY <1>5, Zenon DEF Verdict
  <2>2. r.about = r.id
    BY <1>5 DEF OnStream, Reply, Remains, Garbled
  <2> QED
    BY <1>1, <1>5, <2>1, <2>2
<1> QED
    BY <1>2, <1>3, <1>4, <1>5

\* What a receive leaves on the stream are again replies and leftovers.
LEMMA ConsumedOnStream ==
    ASSUME NEW c \in Clients, downstream[c] \in Seq(OnStream)
    PROVE  /\ \A rest \in Consumed(c) : rest \in Seq(OnStream)
           /\ Consumed(c) # {} => Head(downstream[c]) \in OnStream
<1> DEFINE stream == downstream[c]
           next == Head(stream).kind
<1>1. CASE stream = << >> \/ (next = "scrap" /\ Len(stream) = 1)
    BY <1>1, Zenon DEF Consumed
<1>0. \A kind : Leftover(kind) \subseteq OnStream
  <2> SUFFICES ASSUME NEW kind, NEW x \in Leftover(kind) PROVE x \in Remains
    BY DEF OnStream
  <2>1. PICK k \in {"junk", "scrap", "lump"} : x = [id |-> 0, kind |-> k]
    BY DEF Leftover
  <2> QED
    BY <2>1 DEF Remains
<1>2. CASE stream # << >> /\ next # "scrap"
  <2>1. Tail(stream) \in Seq(OnStream) /\ Head(stream) \in OnStream
    BY <1>2
  <2>2. \A x \in Leftover(next) : <<x>> \o Tail(stream) \in Seq(OnStream)
    BY <1>0, <2>1, Preceded, Zenon
  <2>3. \/ Consumed(c) = {<<x>> \o Tail(stream) : x \in Leftover(next)}
        \/ Consumed(c) = {Tail(stream)} \cup {<<x>> \o Tail(stream) : x \in Leftover(next)}
        \/ Consumed(c) = {Tail(stream)}
    BY <1>2, Zenon DEF Consumed
  <2> QED
    BY <2>1, <2>2, <2>3, Zenon
<1>3. CASE stream # << >> /\ next = "scrap" /\ Len(stream) # 1
  <2>1. Tail(stream) \in Seq(OnStream) /\ Head(stream) \in OnStream
    BY <1>3
  <2>2. Tail(Tail(stream)) \in Seq(OnStream)
    <3>1. Len(stream) \in Nat /\ Len(stream) # 0 /\ Len(Tail(stream)) = Len(stream) - 1
        BY <1>3
    <3>2. Len(Tail(stream)) # 0
        BY <1>3, <3>1
    <3>3. Tail(stream) # << >>
      <4>1. \A s \in Seq(OnStream) : Len(s) # 0 => s # << >>
        OBVIOUS
      <4> QED
        BY <2>1, <3>2, <4>1, Zenon
    <3> QED
        BY <2>1, <3>3
  <2>3. \A x \in Leftover(stream[2].kind) : <<x>> \o Tail(Tail(stream)) \in Seq(OnStream)
    BY <1>0, <2>2, Preceded, Zenon
  <2>4. Consumed(c) = {<<x>> \o Tail(Tail(stream)) : x \in Leftover(stream[2].kind)}
    BY <1>3, Zenon DEF Consumed
  <2> QED
    BY <2>1, <2>3, <2>4, Zenon
<1> QED
    BY <1>1, <1>2, <1>3

\* dispatch answers every request it reads.
LEMMA DispatchKinds == \A kind \in Served : ReplyKinds(kind) \subseteq ReplyKind
<1> SUFFICES ASSUME NEW kind \in Served PROVE ReplyKinds(kind) \subseteq ReplyKind
    OBVIOUS
<1>1. kind \in {"Hello", "Batch", "Call", "Shutdown", "Wide", "Big", "Bulk"}
    BY DEF Served, RequestKind
<1> QED
    BY <1>1 DEF ReplyKinds, ReplyKind

\* A thread takes a request from the wire when it has read its body.
LEMMA ThreadAsked ==
    ASSUME thread \in [Clients -> ThreadPlaces], Asked, NEW c \in Clients, ThreadStep(c)
    PROVE  Asked'
<1>1. UNCHANGED request
    BY DEF ThreadStep, clientVars
<1>2. CASE ReceiveBody(c)
  <2>1. upstream[c] \in Seq(Requests) /\ upstream[c] # << >>
    BY <1>2, Zenon DEF ReceiveBody, At, Asked
  <2> DEFINE rest == Tail(upstream[c])
  <2>2. rest \in Seq(Requests)
    BY <2>1, RequestsMove, Zenon
  <2>3. UNCHANGED upstream \/ upstream' = [upstream EXCEPT ![c] = rest]
    BY <1>2 DEF ReceiveBody
  <2>4. \A d \in Clients : thread'[d] = "body" => d # c /\ thread[d] = "body"
    BY <1>2 DEF ReceiveBody, At
  <2> HIDE DEF rest
  <2>5. /\ upstream' \in [Clients -> Seq(Requests)]
        /\ \A d \in Clients : d # c => upstream'[d] = upstream[d]
    BY <2>2, <2>3, Zenon DEF Asked
  <2> QED
    BY <1>1, <2>4, <2>5, Zenon DEF Asked
<1>3. CASE ~ReceiveBody(c)
  <2>1. UNCHANGED upstream
    BY <1>3, Zenon DEF ThreadStep, CheckStop, SliceEnds, ReceiveHeader, Dispatch, SendReply,
                SendEnds, SignalShutdown, NotifyShutdown, CloseConnection, Leave, NotifyLive,
                wireVars
  <2>2. CASE ReceiveHeader(c)
    <3>1. \A d \in Clients : thread'[d] = "body" => thread[d] = "body" \/ upstream[d] # << >>
        BY <2>2, Zenon DEF ReceiveHeader, At
    <3> QED
        BY <1>1, <2>1, <3>1, Zenon DEF Asked
  <2>3. CASE ~ReceiveHeader(c)
    <3>1. \A d \in Clients : thread'[d] = "body" => thread[d] = "body"
        BY <1>3, <2>3, ZenonT(60)
           DEF ThreadStep, CheckStop, SliceEnds, Dispatch, SendReply, SendEnds, SignalShutdown,
               NotifyShutdown, CloseConnection, Leave, NotifyLive, At, AfterReply, Oversize
    <3> QED
        BY <1>1, <2>1, <3>1, Zenon DEF Asked
  <2> QED
    BY <2>2, <2>3
<1> QED
    BY <1>2, <1>3

\* Only a reply is sent, and a connection that is reset loses what was on its way.
LEMMA ThreadDelivered ==
    ASSUME Handled, Delivered, NEW c \in Clients, ThreadStep(c)
    PROVE  Delivered'
<1>1. downstream[c] \in Seq(OnStream)
    BY DEF Delivered
<1>2. CASE SendReply(c)
  <2>1. frame[c] \in OnStream
    BY <1>2, Zenon DEF SendReply, At, Handled, OnStream
  <2>2. Append(downstream[c], frame[c]) \in Seq(OnStream)
    BY <1>1, <2>1, StreamGrows, ZenonT(60)
  <2>3. UNCHANGED downstream \/ downstream' = [downstream EXCEPT ![c] = Append(@, frame[c])]
    BY <1>2, Zenon DEF SendReply
  <2> DEFINE longer == Append(downstream[c], frame[c])
  <2>4. UNCHANGED downstream \/ downstream' = [downstream EXCEPT ![c] = longer]
    BY <2>3
  <2>5. longer \in Seq(OnStream)
    BY <2>2
  <2> HIDE DEF longer
  <2> QED
    BY <2>4, <2>5 DEF Delivered
<1>3. CASE CloseConnection(c)
  <2>1. << >> \in Seq(OnStream)
    BY StreamGrows, Zenon
  <2>2. UNCHANGED downstream \/ downstream' = [downstream EXCEPT ![c] = << >>]
    BY <1>3 DEF CloseConnection
  <2> QED
    BY <2>1, <2>2, Zenon DEF Delivered
<1>4. CASE ~SendReply(c) /\ ~CloseConnection(c)
  <2>1. UNCHANGED downstream
    BY <1>4, Zenon DEF ThreadStep, CheckStop, SliceEnds, ReceiveHeader, ReceiveBody, Dispatch,
                SendEnds, SignalShutdown, NotifyShutdown, Leave, NotifyLive, wireVars
  <2> QED
    BY <2>1 DEF Delivered
<1> QED
    BY <1>2, <1>3, <1>4

\* A thread moves from a request to the reply about that request.
LEMMA ThreadHandled ==
    ASSUME thread \in [Clients -> ThreadPlaces], Asked, Handled, NEW c \in Clients, ThreadStep(c)
    PROVE  Handled'
<1> DEFINE Here == /\ thread'[c] \in {"body", "dispatch"} => frame'[c] \in Request(Served)
                   /\ thread'[c] = "reply" => frame'[c] \in Reply
<1>1. /\ DOMAIN frame' = Clients
      /\ \A d \in Clients \ {c} : thread'[d] = thread[d] /\ frame'[d] = frame[d]
    BY Zenon DEF ThreadStep, CheckStop, SliceEnds, ReceiveHeader, ReceiveBody, Dispatch, SendReply,
           SendEnds, SignalShutdown, NotifyShutdown, CloseConnection, Leave, NotifyLive, At, Handled
<1>2. /\ thread[c] \in {"body", "dispatch"} => frame[c] \in Request(Served)
      /\ thread[c] = "reply" => frame[c] \in Reply
    BY DEF Handled
<1>3. CASE CheckStop(c)
  <2>1. frame' = frame /\ (thread'[c] \in {"body", "dispatch", "reply"} => thread'[c] = thread[c])
    BY <1>3 DEF CheckStop, At, AfterReply
  <2>2. Here
    BY <1>2, <2>1, ZenonT(60)
  <2> QED
    BY <1>1, <2>2, Zenon DEF Handled
<1>4. CASE SliceEnds(c)
    BY <1>4, Zenon DEF SliceEnds, Handled
<1>5. CASE ReceiveHeader(c)
  <2> DEFINE first == Head(upstream[c])
  <2>0. upstream[c] # << >> => first \in Requests
    <3>1. upstream[c] \in Seq(Requests)
        BY Zenon DEF Asked
    <3> QED
        BY <3>1, RequestsMove, Zenon
  <2>1. CASE upstream[c] = << >>
    <3>1. thread'[c] = "close"
        BY <1>5, <2>1, Zenon DEF ReceiveHeader, At
    <3> QED
        BY <1>1, <3>1, Zenon DEF Handled
  <2>2. CASE upstream[c] # << >> /\ first.kind = "Huge"
    <3>1. /\ thread'[c] = "reply"
          /\ frame'[c] = [id |-> 0, kind |-> "Rejected", about |-> first.id]
        BY <1>5, <2>2, Zenon DEF ReceiveHeader, At, Handled
    <3>2. first.id \in Nat
        BY <2>0, <2>2 DEF Requests, Request
    <3>3. frame'[c] \in Reply
        BY <3>1, <3>2, RejectionIsReply, Zenon
    <3>4. Here
        BY <3>1, <3>3, Zenon
    <3> QED
        BY <1>1, <1>2, <3>4, Zenon DEF Handled
  <2>3. CASE upstream[c] # << >> /\ first.kind # "Huge"
    <3>1. thread'[c] = "body" /\ frame'[c] = first
        BY <1>5, <2>3, Zenon DEF ReceiveHeader, At, Handled
    <3>2. first \in Requests
        BY <2>0, <2>3, Zenon
    <3>3. first \in Request(Served)
        BY <2>3, <3>2, Zenon DEF Requests, Request, Served
    <3>4. Here
        BY <3>1, <3>3
    <3> QED
        BY <1>1, <3>4, Zenon DEF Handled
  <2> QED
    BY <2>1, <2>2, <2>3, Zenon
<1>6. CASE ReceiveBody(c)
  <2>1. frame' = frame /\ thread[c] = "body" /\ thread'[c] \in {"dispatch", "close"}
    BY <1>6 DEF ReceiveBody, At
  <2>2. Here
    BY <1>2, <2>1
  <2> QED
    BY <1>1, <2>2, Zenon DEF Handled
<1>7. CASE Dispatch(c)
  <2>1. frame[c] \in Request(Served) /\ thread'[c] = "reply"
    BY <1>2, <1>7 DEF Dispatch, At
  <2>2. PICK kind \in ReplyKinds(frame[c].kind) :
            frame' = [frame EXCEPT ![c] = [id |-> @.id, kind |-> kind, about |-> @.id]]
    BY <1>7, Zenon DEF Dispatch
  <2>3. frame'[c] = [id |-> frame[c].id, kind |-> kind, about |-> frame[c].id]
    BY <2>2 DEF Handled
  <2>4. frame[c].id \in Nat /\ frame[c].kind \in Served
    BY <2>1 DEF Request
  <2>5. kind \in ReplyKind
    BY <2>4, DispatchKinds
  <2>6. frame'[c] \in Reply
    BY <2>3, <2>4, <2>5 DEF Reply
  <2>7. Here
    BY <2>1, <2>6
  <2> QED
    BY <1>1, <2>7, Zenon DEF Handled
<1>8. CASE \/ SendReply(c) \/ SendEnds(c) \/ SignalShutdown(c) \/ NotifyShutdown(c)
           \/ CloseConnection(c) \/ Leave(c) \/ NotifyLive(c)
  <2>1. thread'[c] \notin {"body", "dispatch", "reply"}
    BY <1>8 DEF SendReply, SendEnds, SignalShutdown, NotifyShutdown, CloseConnection, Leave, NotifyLive,
                At, AfterReply
  <2>2. Here
    BY <2>1
  <2> QED
    BY <1>1, <2>2, Zenon DEF Handled
<1> QED
    BY <1>3, <1>4, <1>5, <1>6, <1>7, <1>8 DEF ThreadStep

\* A step of a connection's thread makes replies about the request it read.
LEMMA ThreadReplies ==
    ASSUME Inv, Replies, NEW c \in Clients, ThreadStep(c)
    PROVE  Replies'
<1>1. thread \in [Clients -> ThreadPlaces]
    BY DEF Inv, Types
<1>2. UNCHANGED result
    BY DEF ThreadStep, clientVars
<1>3. Returns'
    BY <1>2 DEF Replies, Returns, AnswerIsForRequest
<1> QED
    BY <1>1, <1>3, ThreadAsked, ThreadDelivered, ThreadHandled DEF Replies

\* A request is numbered and has a kind, and follows the ones that were not read.
LEMMA ClientAsked ==
    ASSUME Asked, DOMAIN client = Clients, NEW c \in Clients,
           \/ Connect(c) \/ (\E kind \in Kinds : Ask(c, kind)) \/ SendBody(c)
           \/ Receive(c) \/ EndOfStream(c) \/ Stall(c) \/ Hangup(c)
    PROVE  Asked'
<1>0. request[c] \in Request(RequestKind \cup {"Hello", "none"}) /\ upstream[c] \in Seq(Requests)
    BY Zenon DEF Asked
<1>1. ASSUME NEW asked \in Requests, NEW wire \in Seq(Requests), wire # << >>,
             request' = [request EXCEPT ![c] = asked],
             upstream' = [upstream EXCEPT ![c] = wire], UNCHANGED thread
      PROVE  Asked'
  <2>1. asked \in Request(RequestKind \cup {"Hello", "none"})
    BY DEF Requests, Request
  <2>2. request' \in [Clients -> Request(RequestKind \cup {"Hello", "none"})]
    BY <1>1, <2>1, Zenon DEF Asked
  <2>3. /\ upstream' \in [Clients -> Seq(Requests)]
        /\ \A d \in Clients : upstream'[d] = IF d = c THEN wire ELSE upstream[d]
    BY <1>1, Zenon DEF Asked
  <2> QED
    BY <1>1, <2>2, <2>3, Zenon DEF Asked
<1>2. CASE Connect(c)
  <2> DEFINE hello == [id |-> 0, kind |-> "Hello"]
  <2>1. hello \in Requests
    BY DEF Requests, Request
  <2>2. <<hello>> \in Seq(Requests) /\ <<hello>> # << >>
    BY <2>1, RequestsMove, Zenon
  <2>3. /\ request' = [request EXCEPT ![c] = hello]
        /\ upstream' = [upstream EXCEPT ![c] = <<hello>>] /\ UNCHANGED thread
    BY <1>2, Zenon DEF Connect, serverVars, threadVars
  <2> QED
    BY <1>1, <2>1, <2>2, <2>3, Zenon
<1>3. ASSUME NEW kind \in Kinds, Ask(c, kind) PROVE Asked'
  <2> DEFINE next == [id |-> request[c].id + 1, kind |-> kind]
             wire == Append(upstream[c], next)
  <2>1. kind \in RequestKind
    BY IpcAssumption, Zenon
  <2>2. next \in Requests
    <3>1. request[c].id \in Nat
        BY <1>0 DEF Request
    <3>2. request[c].id + 1 \in Nat
        BY <3>1
    <3> QED
        BY <2>1, <3>2, ZenonT(60) DEF Requests, Request
  <2>3. wire \in Seq(Requests) /\ wire # << >>
    BY <1>0, <2>2, RequestsMove, Zenon
  <2>4. /\ request' = [request EXCEPT ![c] = next]
        /\ upstream' = [upstream EXCEPT ![c] = wire] /\ UNCHANGED thread
    BY <1>3, Zenon DEF Ask, serverVars, threadVars
  <2> QED
    BY <1>1, <2>2, <2>3, <2>4, Zenon
<1>4. CASE SendBody(c) \/ Receive(c) \/ EndOfStream(c) \/ Stall(c) \/ Hangup(c)
  <2>1. UNCHANGED <<request, upstream, thread>>
    BY <1>4, ZenonT(60) DEF SendBody, Receive, EndOfStream, Stall, Hangup, serverVars, threadVars
  <2> QED
    BY <2>1, Zenon DEF Asked
<1> QED
    BY <1>2, <1>3, <1>4

\* A client returns an answer only from a reply to its request.
LEMMA ClientReturns ==
    ASSUME Delivered, Returns, NEW c \in Clients, Receive(c)
    PROVE  Delivered' /\ Returns'
<1>1. PICK rest \in Consumed(c) : downstream' = [downstream EXCEPT ![c] = rest]
    BY Zenon DEF Receive
<1>2. downstream[c] \in Seq(OnStream)
    BY DEF Delivered
<1>3. rest \in Seq(OnStream) /\ Head(downstream[c]) \in OnStream
    BY <1>1, <1>2, ConsumedOnStream, Zenon
<1>4. Delivered'
    BY <1>1, <1>3 DEF Delivered
<1>5. CASE UNCHANGED result
    BY <1>4, <1>5 DEF Returns, AnswerIsForRequest
<1>6. CASE result' = [result EXCEPT ![c] = Verdict(c, Head(downstream[c]))]
  <2> DEFINE verdict == Verdict(c, Head(downstream[c]))
  <2>1. verdict.outcome = "answer" => verdict.answer = verdict.asked
    BY <1>3, VerdictMatches, Zenon
  <2>2. result' = [result EXCEPT ![c] = verdict]
    BY <1>6
  <2> HIDE DEF verdict
  <2>3. Returns'
    BY <2>1, <2>2 DEF Returns, AnswerIsForRequest
  <2> QED
    BY <1>4, <2>3
<1> QED
    BY <1>5, <1>6 DEF Receive

\* A step of a client keeps the replies honest.
LEMMA ClientReplies ==
    ASSUME Inv, Replies, NEW c \in Clients,
           \/ Connect(c) \/ (\E kind \in Kinds : Ask(c, kind)) \/ SendBody(c)
           \/ Receive(c) \/ EndOfStream(c) \/ Stall(c) \/ Hangup(c)
    PROVE  Replies'
<1>1. Asked'
    BY ClientAsked DEF Inv, Types, Replies
<1>2. UNCHANGED <<thread, frame>>
    BY ZenonT(60) DEF Connect, Ask, SendBody, Receive, EndOfStream, Stall, Hangup, serverVars, threadVars
<1>3. Handled'
    BY <1>2, Zenon DEF Replies, Handled
<1>4. CASE Receive(c)
    BY <1>1, <1>3, <1>4, ClientReturns DEF Replies
<1>5. CASE EndOfStream(c)
  <2>1. Returned(c, "error", 0).outcome # "answer"
    BY ZenonT(60) DEF Returned
  <2>2. Returns'
    BY <1>5, <2>1, Zenon DEF EndOfStream, Replies, Returns, AnswerIsForRequest
  <2>3. Delivered'
    BY <1>5 DEF EndOfStream, Replies, Delivered
  <2> QED
    BY <1>1, <1>3, <2>2, <2>3 DEF Replies
<1>6. CASE ~Receive(c) /\ ~EndOfStream(c)
  <2>1. UNCHANGED <<downstream, result>>
    BY <1>6, ZenonT(60) DEF Connect, Ask, SendBody, Stall, Hangup
  <2>2. Delivered' /\ Returns'
    BY <2>1, Zenon DEF Replies, Delivered, Returns, AnswerIsForRequest
  <2> QED
    BY <1>1, <1>3, <2>2 DEF Replies
<1> QED
    BY <1>4, <1>5, <1>6

\* The replies stay honest in every reachable state.
LEMMA RepliesInvariant == Spec => []Replies
<1>1. Init => Replies
  <2> SUFFICES ASSUME Init PROVE Replies
    OBVIOUS
  <2>1. NoFrame \in Request(RequestKind \cup {"Hello", "none"}) /\ << >> \in Seq(OnStream)
    BY DEF NoFrame, Request
  <2> QED
    BY <2>1 DEF Init, Replies, Asked, Handled, Delivered, Returns, NoResult, AnswerIsForRequest
<1>2. Inv /\ Replies /\ [Next]_vars => Replies'
  <2> SUFFICES ASSUME Inv, Replies, [Next]_vars PROVE Replies'
    OBVIOUS
  <2>1. ASSUME UNCHANGED <<threadVars, upstream, downstream, clientVars>> PROVE Replies'
    BY <2>1, Zenon DEF threadVars, clientVars, Replies, Asked, Handled, Delivered, Returns,
                AnswerIsForRequest
  <2>2. CASE UNCHANGED vars
    BY <2>1, <2>2 DEF vars, wireVars
  <2>3. CASE \E t \in DOMAIN caller :
                \/ CallerStep(t) \/ CloseListener(t)
                \/ /\ CallStop(t)
                   /\ UNCHANGED <<acceptVars, threadVars, backlog, wireVars, clientVars, applied>>
    BY <2>1, <2>3 DEF CallerStep, CloseListener, wireVars
  <2>4. CASE AcceptorStep
    <3>1. /\ UNCHANGED <<frame, upstream, downstream, clientVars>>
          /\ \A d \in Clients : thread'[d] \in {"body", "dispatch", "reply"} =>
                                  thread'[d] = thread[d]
        BY <2>4 DEF AcceptorStep, WaitReadable, Accept, Admit, Spawn, threadVars, Inv, Types
    <3> QED
        BY <3>1, ZenonT(60)
           DEF clientVars, Replies, Asked, Handled, Delivered, Returns, AnswerIsForRequest
  <2> QED
    BY <2>2, <2>3, <2>4, ThreadReplies, ClientReplies DEF Next
<1> QED
    BY <1>1, <1>2, IpcInvariant, PTL DEF Spec

\* A call returns as its answer only the answer to its own request, on streams that lost
\* their framing too (Client::request compares the identifiers).
THEOREM AnswersMatch == Spec => []AnswerIsForRequest
<1>1. Replies => AnswerIsForRequest
    BY DEF Replies, Returns
<1> QED
    BY <1>1, RepliesInvariant, PTL

-----------------------------------------------------------------------------
(***************************************************************************)
(* Types, and the bound on connections.                                    *)
(***************************************************************************)
ClientPlaces == {"new", "greeting", "ready", "sending", "awaiting", "stalled", "closed"}

\* What TypeOK says beyond the two invariants above.
Shapes ==
    /\ stopping \in BOOLEAN /\ stop_flag \in BOOLEAN /\ shutdown_requested \in BOOLEAN
    /\ woken \in BOOLEAN /\ joined \in BOOLEAN
    /\ live_connections <= MaxConnections
    /\ accepted \in Clients \cup {Nobody}
    /\ armed \in [Clients -> BOOLEAN]
    /\ client \in [Clients -> ClientPlaces]
    /\ unsent \in [Clients -> BOOLEAN]
    /\ \A c \in Clients : request[c].id <= MaxRequests

\* The counter is a number, and the bound is one.
LEMMA CountIsNumber == Inv => live_connections \in Nat /\ MaxConnections \in Nat
  BY ServingFinite, IpcAssumption DEF Inv, Count

\* The steps of the server keep the shapes: only Admit counts a connection, and it looks at
\* the bound first.
LEMMA ServerShapes ==
    ASSUME Inv, Shapes, AcceptorStep \/ \E c \in Clients : ThreadStep(c)
    PROVE  Shapes'
<1>1. live_connections \in Nat /\ MaxConnections \in Nat
  BY CountIsNumber
<1>2. CASE AcceptorStep
  <2>1. UNCHANGED <<callerVars, stopping, stop_flag, shutdown_requested, woken, armed,
                    unsent, clientVars>>
    BY <1>2, Zenon DEF AcceptorStep, WaitReadable, Accept, Admit, Spawn, Counted, flagVars,
                       threadVars
  <2>2. live_connections' <= MaxConnections
    <3>1. \/ live_connections' = live_connections
          \/ ~(live_connections >= MaxConnections) /\ live_connections' = live_connections + 1
          \/ live_connections' = live_connections + -1
      BY <1>2, Zenon DEF AcceptorStep, WaitReadable, Accept, Admit, Spawn, Counted, flagVars
    <3>2. live_connections <= MaxConnections
      BY Zenon DEF Shapes
    <3> QED
      BY <1>1, <3>1, <3>2
  <2>3. accepted' \in Clients \cup {Nobody}
    <3>1. Head(backlog) \in Clients \/ acceptor # "accept"
      <4>1. backlog \in Seq(Clients) /\ (acceptor = "accept" => backlog # << >>)
        BY Zenon DEF Inv, Types, Queue
      <4> QED
        BY <4>1, FirstQueued, Zenon
    <3>2. \/ accepted' \in {accepted, Nobody}
          \/ acceptor = "accept" /\ accepted' = Head(backlog)
      BY <1>2, Zenon DEF AcceptorStep, WaitReadable, Accept, Admit, Spawn
    <3> QED
      BY <3>1, <3>2, Zenon DEF Shapes
  <2> QED
    BY <2>1, <2>2, <2>3, Zenon DEF callerVars, clientVars, Shapes
<1>3. ASSUME NEW c \in Clients, ThreadStep(c)
      PROVE  Shapes'
  <2>1. UNCHANGED <<accepted, client, request>> /\ UNCHANGED <<stopping, stop_flag, woken, joined>>
    BY <1>3, Zenon
       DEF ThreadStep, acceptVars, clientVars, CheckStop, SliceEnds, ReceiveHeader, ReceiveBody,
                Dispatch, SendReply, SendEnds, SignalShutdown, NotifyShutdown, CloseConnection, Leave,
                NotifyLive, callerVars, flagVars, Counted
  <2>2. live_connections' <= MaxConnections /\ shutdown_requested' \in BOOLEAN
    <3>1. UNCHANGED flagVars \/ Leave(c) \/ SignalShutdown(c)
      BY <1>3, Zenon DEF ThreadStep, CheckStop, SliceEnds, ReceiveHeader, ReceiveBody, Dispatch,
                         SendReply, SendEnds, NotifyShutdown, CloseConnection, NotifyLive
    <3>2. CASE UNCHANGED flagVars
      BY <3>2 DEF flagVars, Shapes
    <3>3. CASE Leave(c)
      <4>1. live_connections' = live_connections + -1 /\ shutdown_requested' = shutdown_requested
        BY <3>3, Zenon DEF Leave, Counted
      <4>2. live_connections <= MaxConnections /\ shutdown_requested \in BOOLEAN
        BY Zenon DEF Shapes
      <4>3. live_connections' <= MaxConnections
        BY <1>1, <4>1, <4>2
      <4> QED
        BY <4>1, <4>2, <4>3, Zenon
    <3>4. CASE SignalShutdown(c)
      BY <3>4 DEF SignalShutdown, Shapes
    <3> QED
      BY <3>1, <3>2, <3>3, <3>4
  <2>3. armed' \in [Clients -> BOOLEAN]
    BY <1>3, ZenonT(60) DEF ThreadStep, CheckStop, SliceEnds, ReceiveHeader, ReceiveBody, At,
                Dispatch, SendReply, SendEnds, SignalShutdown, NotifyShutdown, CloseConnection, Leave,
                NotifyLive, Shapes
  <2>4. unsent' \in [Clients -> BOOLEAN]
    BY <1>3, ZenonT(60) DEF ThreadStep, CheckStop, SliceEnds, ReceiveHeader, ReceiveBody,
                Dispatch, SendReply, SendEnds, SignalShutdown, NotifyShutdown, CloseConnection, Leave,
                NotifyLive, wireVars, Shapes
  <2> QED
    BY <2>1, <2>2, <2>3, <2>4, Zenon DEF Shapes
<1> QED
  BY <1>2, <1>3

\* The steps of the clients keep the shapes: a client asks no more than its requests.
LEMMA ClientShapes ==
    ASSUME Inv, Replies, Shapes, NEW c \in Clients,
           \/ Connect(c) \/ (\E kind \in Kinds : Ask(c, kind)) \/ SendBody(c)
           \/ Receive(c) \/ EndOfStream(c) \/ Stall(c) \/ Hangup(c)
    PROVE  Shapes'
<1>1. UNCHANGED serverVars
  BY ZenonT(60) DEF Connect, Ask, SendBody, Receive, EndOfStream, Stall, Hangup
<1>2. client' \in [Clients -> ClientPlaces]
  BY ZenonT(60) DEF Connect, Ask, SendBody, Receive, EndOfStream, Stall, Hangup, Shapes, ClientPlaces
<1>3. unsent' \in [Clients -> BOOLEAN]
  BY ZenonT(60) DEF Connect, Ask, SendBody, Receive, EndOfStream, Stall, Hangup, Shapes
<1>4. ASSUME NEW d \in Clients PROVE request'[d].id <= MaxRequests
  <2>1. request \in [Clients -> Request(RequestKind \cup {"Hello", "none"})]
    BY Zenon DEF Replies, Asked
  <2>2. request[d].id \in Nat /\ request[d].id <= MaxRequests /\ MaxRequests \in Nat
    BY <2>1, IpcAssumption DEF Request, Shapes
  <2>3. CASE Connect(c)
    BY <2>1, <2>2, <2>3 DEF Connect
  <2>4. ASSUME NEW kind \in Kinds, Ask(c, kind) PROVE request'[d].id <= MaxRequests
    <3>1. request[c].id < MaxRequests
      BY <2>4 DEF Ask
    <3>2. d # c => request'[d] = request[d]
      BY <2>1, <2>4, Zenon DEF Ask
    <3>3. d = c => request'[d].id = request[c].id + 1
      BY <2>1, <2>4, Zenon DEF Ask
    <3>4. CASE d # c
      BY <2>2, <3>2, <3>4, Zenon
    <3>5. CASE d = c
      <4>1. request[d].id \in Nat /\ request[d].id < MaxRequests /\ MaxRequests \in Nat
        BY <2>2, <3>1, <3>5, Zenon
      <4>2. request'[d].id = request[d].id + 1
        BY <3>3, <3>5, Zenon
      <4> QED
        BY <4>1, <4>2, Successor, Zenon
    <3> QED
      BY <3>4, <3>5, Zenon
  <2>5. CASE SendBody(c) \/ Receive(c) \/ EndOfStream(c) \/ Stall(c) \/ Hangup(c)
    BY <2>2, <2>5, Zenon DEF SendBody, Receive, EndOfStream, Stall, Hangup
  <2> QED
    BY <2>3, <2>4, <2>5, Zenon
<1> QED
  BY <1>1, <1>2, <1>3, <1>4, ZenonT(60)
     DEF serverVars, callerVars, flagVars, acceptVars, threadVars, Shapes

\* Every variable keeps its type, and no more than max_connections connections are served
\* at once, whatever the acceptor, the threads and Stop do in between.
THEOREM TypesHold == Spec => []TypeOK
<1>1. Init => Shapes
  <2> SUFFICES ASSUME Init PROVE Shapes
    OBVIOUS
  <2>1. /\ stopping \in BOOLEAN /\ stop_flag \in BOOLEAN /\ shutdown_requested \in BOOLEAN
        /\ woken \in BOOLEAN /\ joined \in BOOLEAN
    BY Zenon DEF Init
  <2>2. /\ live_connections <= MaxConnections
        /\ \A c \in Clients : request[c].id <= MaxRequests
    BY IpcAssumption DEF Init, NoFrame
  <2>3. /\ armed \in [Clients -> BOOLEAN] /\ client \in [Clients -> ClientPlaces]
        /\ unsent \in [Clients -> BOOLEAN]
        /\ accepted \in Clients \cup {Nobody}
    BY DEF Init, ClientPlaces
  <2> QED
    BY <2>1, <2>2, <2>3, Zenon DEF Shapes
<1>2. Inv /\ Replies /\ Shapes /\ [Next]_vars => Shapes'
  <2> SUFFICES ASSUME Inv, Replies, Shapes, [Next]_vars PROVE Shapes'
    OBVIOUS
  <2>1. CASE UNCHANGED vars
    BY <2>1, Zenon
       DEF vars, callerVars, flagVars, acceptVars, threadVars, wireVars, clientVars, Shapes
  <2>2. ASSUME NEW t \in DOMAIN caller,
               \/ CallerStep(t) \/ CloseListener(t)
               \/ /\ CallStop(t)
                  /\ UNCHANGED <<acceptVars, threadVars, backlog, wireVars, clientVars, applied>>
        PROVE  Shapes'
    <3>1. UNCHANGED <<acceptVars, threadVars, unsent, clientVars>>
      BY <2>2 DEF CallerStep, CloseListener, wireVars
    <3>2. /\ UNCHANGED <<live_connections, shutdown_requested>>
          /\ stopping' \in BOOLEAN /\ stop_flag' \in BOOLEAN /\ woken' \in BOOLEAN
          /\ joined' \in BOOLEAN
      BY <2>2, ZenonT(60)
         DEF CallerStep, CloseListener, CallStop, CheckShutdown, BeginStop, RaiseFlag,
                  NotifyWaiters, WakeAcceptor, Join, Joined, CheckLive, flagVars, Shapes
    <3> QED
      BY <3>1, <3>2, Zenon DEF acceptVars, threadVars, clientVars, Shapes
  <2> QED
    BY <2>1, <2>2, ServerShapes, ClientShapes DEF Next
<1>3. Inv /\ Replies /\ Shapes => TypeOK
  <2> SUFFICES ASSUME Inv, Replies, Shapes PROVE TypeOK
    OBVIOUS
  <2>1. live_connections \in 0 .. MaxConnections
    BY CountIsNumber DEF Shapes
  <2>2. \A c \in Clients : request[c].id \in 0 .. MaxRequests
    BY IpcAssumption DEF Replies, Asked, Request, Shapes
  <2> QED
    BY <2>1, <2>2, Zenon DEF TypeOK, Inv, Types, CallerPlaces, ThreadPlaces, ClientPlaces, Shapes
<1> QED
  BY <1>1, <1>2, <1>3, IpcInvariant, RepliesInvariant, PTL DEF Spec
=================================================================================
