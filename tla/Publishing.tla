-------------------------------- MODULE Publishing --------------------------------
(***************************************************************************)
(* A publisher, the transport and the durable registry together.  The      *)
(* publisher asserts a script of records in order over src/ipc/client.cpp, *)
(* one call at a time; when a call fails it connects again, reopens its    *)
(* session and repeats the record, and when it is restarted it comes back  *)
(* with the next incarnation and begins again.  The client library has no  *)
(* such loop: it is what its callers do.                                   *)
(*                                                                         *)
(* A connection carries one call and its reply.  One that breaks leaves a  *)
(* request that the server has not read yet: its thread may still serve it *)
(* long after the publisher repeated it on another connection.  How the    *)
(* threads and the frames get there is the subject of module Ipc.          *)
(***************************************************************************)
EXTENDS DurableRegistry

CONSTANTS
    Script,         \* the kinds and payloads the publisher asserts, in order
    Publisher,      \* its SourceId
    MaxIncarnation  \* bound: how often it starts

VARIABLES
    incarnation,    \* of the running publisher
    step,           \* how many records of the script it knows to be accepted
    phase,          \* what it does next
    conn,           \* the number of its connection
    broken,         \* that connection is lost
    requests,       \* the requests the server has not served
    reply           \* the reply on the wire, if there is one

publisherVars == <<incarnation, step, phase, conn, broken, requests, reply>>
allVars == <<vars, publisherVars>>

\* Generations count from 1 in every incarnation.
Record(n, i) ==
    [id |-> Len(Script) * n + i, source |-> Publisher, incarnation |-> n, generation |-> i,
     kind |-> Script[i].kind, payload |-> Script[i].payload]

Opening(n) == [source |-> Publisher, authority |-> 1, incarnation |-> n]

Records == {Record(n, i) : n \in 1 .. MaxIncarnation, i \in DOMAIN Script}

ASSUME PublishingAssumption ==
    /\ MaxIncarnation \in Nat \ {0}
    /\ Script \in Seq({Script[i] : i \in DOMAIN Script})
    /\ Evidence = Records /\ Openings = {Opening(n) : n \in 1 .. MaxIncarnation}

\* The registry was created and opened; the publisher has just started.
PublishingInit ==
    /\ up = TRUE /\ created = TRUE /\ state = EmptyState
    /\ id \in Ids /\ log = <<ImageRecord(EmptyState, id)>> /\ tail = << >>
    /\ faults = 0 /\ acked = {} /\ lifetime = {}
    /\ incarnation = 1 /\ step = 0 /\ phase = "connect"
    /\ conn = 0 /\ broken = TRUE /\ requests = {} /\ reply = {}

-----------------------------------------------------------------------------
(***************************************************************************)
(* The publisher.                                                          *)
(***************************************************************************)
\* Client::Connect; the greeting changes nothing.
Connect ==
    /\ phase = "connect" /\ up
    /\ conn' = conn + 1 /\ broken' = FALSE /\ phase' = "open"
    /\ UNCHANGED <<vars, incarnation, step, requests, reply>>

\* The first half of Client::request.
Send(from, to, call) ==
    /\ phase = from /\ ~broken
    /\ requests' = requests \cup {[conn |-> conn, call |-> call]}
    /\ phase' = to
    /\ UNCHANGED <<vars, incarnation, step, conn, broken, reply>>

CallOpenSession == Send("open", "opening", OpenRecord(Opening(incarnation)))

CallPublish ==
    /\ step < Len(Script)
    /\ Send("publish", "publishing", EvidenceRecord(Record(incarnation, step + 1)))

NextPhase(learnt) == IF learnt = Len(Script) THEN "done" ELSE "publish"

\* The second half of Client::request: the reply of an OpenSession.
SessionOpened ==
    /\ phase = "opening" /\ reply # {}
    /\ phase' = IF reply = {"accepted"} THEN NextPhase(step) ELSE "open"
    /\ reply' = {}
    /\ UNCHANGED <<vars, incarnation, step, conn, broken, requests>>

\* The reply of a Publish; a refused record is published again.
Published ==
    /\ phase = "publishing" /\ reply # {}
    /\ step' = IF reply = {"accepted"} THEN step + 1 ELSE step
    /\ phase' = NextPhase(step')
    /\ reply' = {}
    /\ UNCHANGED <<vars, incarnation, conn, broken, requests>>

\* Mutation: a publisher that waits for a reply does not notice.
CallFails_deaf ==
    /\ broken /\ phase \in {"open", "publish"}
    /\ phase' = "connect"
    /\ reply' = {}
    /\ UNCHANGED <<vars, incarnation, step, conn, broken, requests>>

\* send_all or receive_exact reports the lost connection.
CallFails ==
    /\ broken /\ phase \in {"open", "opening", "publish", "publishing"}
    /\ phase' = "connect"
    /\ reply' = {}
    /\ UNCHANGED <<vars, incarnation, step, conn, broken, requests>>

\* The publisher process dies and is started again.
Restart ==
    /\ incarnation < MaxIncarnation
    /\ incarnation' = incarnation + 1 /\ step' = 0 /\ phase' = "connect"
    /\ broken' = TRUE /\ reply' = {}
    /\ UNCHANGED <<vars, conn, requests>>

-----------------------------------------------------------------------------
(***************************************************************************)
(* The server and the network.                                             *)
(***************************************************************************)
\* Mutation: the answer does not wait for the append.
ReplyTo_eager(r, durable) ==
    IF r.kind = "SessionOpen" THEN durable
    ELSE is_accepted(ingest_locked(state, r.evidence, TRUE, TRUE).disposition)

\* Whether a call succeeds; durable tells whether an append it made did.
ReplyTo(r, durable) ==
    IF r.kind = "SessionOpen" THEN durable
    ELSE is_accepted(ingest_locked(state, r.evidence, TRUE, durable).disposition)

\* dispatch and the reply, which nobody reads when the connection is gone.
Serve(r) ==
    /\ requests' = requests \ {r}
    /\ \/ r.call.kind = "SessionOpen" /\ OpenSession(r.call.opening)
       \/ r.call.kind = "Evidence" /\ Ingest(r.call.evidence)
    /\ reply' = IF r.conn # conn \/ broken THEN reply
                ELSE {IF ReplyTo(r.call, log' # log) THEN "accepted" ELSE "refused"}
    /\ UNCHANGED <<incarnation, step, phase, conn, broken>>

\* The connection breaks; a reply on the wire may still be read.
Disconnect ==
    /\ ~broken /\ Fault
    /\ broken' = TRUE
    /\ UNCHANGED <<up, state, id, created, log, tail, acked, lifetime>>
    /\ UNCHANGED <<incarnation, step, phase, conn, requests, reply>>

\* The server finds a lost connection before it has read the request.
Discard(r) ==
    /\ r.conn # conn \/ broken
    /\ requests' = requests \ {r}
    /\ UNCHANGED <<vars, incarnation, step, phase, conn, broken, reply>>

\* The server process dies, perhaps while it appends the record of some request.
Die ==
    /\ Crash
    /\ tail' = tail \/ \E r \in requests : tail' = <<r.call>>
    /\ requests' = {} /\ broken' = TRUE
    /\ UNCHANGED <<incarnation, step, phase, conn, reply>>

-----------------------------------------------------------------------------
PublisherStep ==
    Connect \/ CallOpenSession \/ CallPublish \/ SessionOpened \/ Published \/ CallFails

ServerStep == \E r \in requests : Serve(r)

Reopen == OpenExisting /\ UNCHANGED publisherVars

PublishingNext ==
    \/ PublisherStep \/ ServerStep \/ Reopen
    \/ Restart
    \/ Disconnect
    \/ \E r \in requests : Discard(r)
    \/ Die
    \/ Compact /\ UNCHANGED publisherVars

\* A thread that can run does, and somebody restarts the server.
PublishingSpec ==
    /\ PublishingInit /\ [][PublishingNext]_allVars
    /\ WF_allVars(PublisherStep) /\ WF_allVars(ServerStep) /\ WF_allVars(Reopen)

-----------------------------------------------------------------------------
(***************************************************************************)
(* Properties.                                                             *)
(***************************************************************************)
\* The publisher's state is well typed; a connection has one request; and a reply is only
\* ever on the wire to a publisher that waits for one.
PublisherTypeOK ==
    /\ incarnation \in 1 .. MaxIncarnation /\ step \in 0 .. Len(Script)
    /\ phase \in {"connect", "open", "opening", "publish", "publishing", "done"}
    /\ \A r, q \in requests : r.conn = q.conn => r = q
    /\ \A r \in requests : r.conn \in 1 .. conn
    /\ reply # {} => /\ reply \in {{"accepted"}, {"refused"}}
                     /\ phase \in {"opening", "publishing"}

\* What the publisher was told is accepted is recorded, through lost connections, failed
\* appends, crashes and compactions: the log alone says so.
LearntIsRecorded ==
    \A replayed \in {Replay(log)}, i \in 1 .. step :
        /\ KnownSession(replayed, Record(incarnation, i))
        /\ decide(replayed, Record(incarnation, i)).writes = {}

\* Where the side is after the first i records of the script, as far as they tell.
PlacedAt(i) ==
    LET placing == {j \in 1 .. i : Script[j].kind \in {"Attach", "Move"}}
        p == Script[Max(placing)].payload
    IN  IF placing = {} THEN {}
        ELSE IF Script[Max(placing)].kind = "Move" THEN {p.to} ELSE {p.port}

\* The graph follows the publisher: once its session is open, the side is where the last
\* record it knows to be accepted put it, or where the record after that does.  Neither a
\* repeated request served late, nor one of the incarnation before, nor a restart of the
\* registry moves it back; the ports agree with the side.
GraphFollowsPublisher ==
    (up /\ <<Publisher, incarnation>> \in DOMAIN state.sessions) =>
        LET sides == Named(state, "subject")
            placed == UNION {derive_subject(state, s, "IncludeAll").ports : s \in sides}
        IN  /\ placed \in {PlacedAt(step), PlacedAt(Min({step + 1, Len(Script)}))}
            /\ placed = {p \in PortsWithRecords(state) :
                            derive_port_view(state, p, "IncludeAll").edges # {}}

\* Some record of a log, or the image it begins with, has something the source incarnation
\* said at this generation.
SaidBefore(records, w, generation) ==
    \E x \in DOMAIN records :
        \/ records[x] = EvidenceRecord(Record(w[2], generation))
        \/ /\ records[x].kind = "StateSnapshot"
           /\ \E k \in DOMAIN records[x].image.claims :
                 k.owner = w /\ records[x].image.claims[k].generation = generation

\* A record among these that repeats an earlier one was overtaken by a later record of the
\* same stream before it came again.  Excepted is a replacement that came too late.
Overtaken(records) ==
    \A m, n \in DOMAIN records :
        (/\ m < n /\ records[m] = records[n] /\ records[n].kind = "Evidence"
         /\ records[n].evidence.kind # "ReincarnateObject") =>
            \E newer \in records[n].evidence.generation + 1 .. Len(Script) :
                SaidBefore(SubSeq(records, 1, n - 1), OwnerOf(records[n].evidence), newer)

\* The records of the log that repeat an earlier one say nothing new: they were overtaken
\* by a later record of the same stream before they came again, which the log holds or the
\* image it begins with.  Excepted is a replacement that came too late: it is appended
\* every time it comes.
RepeatsWereOvertaken == Overtaken(log)

\* Every record is learnt to be accepted in the end, as long as faults end.
ScriptCompleted == <>[](phase = "done")
==================================================================================
