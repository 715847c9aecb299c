----------------------------------- MODULE Ipc -----------------------------------
(***************************************************************************)
(* The loopback transport (src/ipc/server.cpp, src/ipc/client.cpp over     *)
(* src/ipc/socket.cpp): the acceptor thread, one detached thread per       *)
(* connection, the threads that wait for a shutdown request or call Stop,  *)
(* and the clients, each with one connection and one call at a time.       *)
(*                                                                         *)
(* A block under Impl::mutex is one step; stop_flag is atomic and is read  *)
(* outside the mutex; a notify_all outside the mutex is a step of its own, *)
(* and a thread asleep on a condition variable runs again only when it is  *)
(* notified.  A connection carries frames in order; what a request means   *)
(* is reduced to what the transport tells apart (its kind).                *)
(***************************************************************************)
EXTENDS Integers, Sequences, FiniteSets

CONSTANTS
    Clients,
    Waiters,        \* threads that call wait_for_shutdown_request
    Stoppers,       \* threads that call Stop, after waiting if they are Waiters too
    Kinds,          \* the kinds of request the clients make
    MaxConnections, \* ServerOptions::max_connections
    ListenBacklog,  \* ServerOptions::listen_backlog
    AllowShutdown,  \* ServerOptions::allow_shutdown
    MaxRequests,    \* bound: requests of one client
    CallsFail       \* whether accept and starting a thread can fail

\* Call, Batch and Shutdown are answered.  Huge does not fit the server's frame limit, the
\* answer to Wide does not fit the client's, the answer to Big not the server's own.  The
\* answer to Bulk does not fit the buffers of the socket, nor need the answer to Wide.
RequestKind == {"Call", "Batch", "Shutdown", "Huge", "Wide", "Big", "Bulk"}

ASSUME IpcAssumption ==
    /\ Kinds \subseteq RequestKind /\ IsFiniteSet(Clients)
    /\ MaxConnections \in Nat \ {0} /\ ListenBacklog \in Nat \ {0} /\ MaxRequests \in Nat
    /\ AllowShutdown \in BOOLEAN /\ CallsFail \in BOOLEAN

VARIABLES
    caller,             \* where each Waiter and Stopper is
    stopping, stop_flag, shutdown_requested, live_connections,
    woken,              \* the wakeup socket is readable
    joined,             \* the acceptor thread is no longer joinable
    acceptor, accepted, \* where the acceptor is, and the connection in its hands
    thread,             \* where each connection's thread is
    armed,              \* the thread found stop_flag clear and waits for readiness
    frame,              \* the request, then the reply, the thread works on
    backlog,            \* connections the listener has not accepted
    severed,            \* the server closed its end
    client,             \* where each client is
    request,            \* its last request: identifier and kind
    upstream,           \* requests on the wire, unread
    unsent,             \* the body of the last of them is not on the wire yet
    downstream,         \* replies on the wire
    result,             \* what its last call returned
    applied             \* history: the batches the registry ingested

callerVars == <<caller, joined>>
flagVars == <<stopping, stop_flag, shutdown_requested, live_connections, woken>>
acceptVars == <<acceptor, accepted>>
threadVars == <<thread, armed, frame>>
wireVars == <<severed, upstream, unsent, downstream>>
clientVars == <<client, request, result>>
vars == <<callerVars, flagVars, acceptVars, threadVars, backlog, wireVars, clientVars, applied>>

Nobody == "nobody"
NoFrame == [id |-> 0, kind |-> "none"]
NoResult == [outcome |-> "none", asked |-> 0, answer |-> 0]

\* Server::Start: listening, the acceptor thread running.
Init ==
    /\ caller = [t \in Waiters \cup Stoppers |-> IF t \in Waiters THEN "wait" ELSE "idle"]
    /\ stopping = FALSE /\ stop_flag = FALSE /\ shutdown_requested = FALSE
    /\ live_connections = 0 /\ woken = FALSE /\ joined = FALSE
    /\ acceptor = "select" /\ accepted = Nobody
    /\ thread = [c \in Clients |-> "none"]
    /\ armed = [c \in Clients |-> FALSE]
    /\ frame = [c \in Clients |-> NoFrame]
    /\ backlog = << >>
    /\ severed = [c \in Clients |-> FALSE]
    /\ client = [c \in Clients |-> "new"]
    /\ request = [c \in Clients |-> NoFrame]
    /\ upstream = [c \in Clients |-> << >>]
    /\ unsent = [c \in Clients |-> FALSE]
    /\ downstream = [c \in Clients |-> << >>]
    /\ result = [c \in Clients |-> NoResult]
    /\ applied = {}

-----------------------------------------------------------------------------
(***************************************************************************)
(* The threads that own the server.                                        *)
(***************************************************************************)
\* notify_all on a condition variable: the threads asleep on it look again.
Notified(asleep, awake) ==
    [t \in DOMAIN caller |-> IF caller[t] = asleep THEN awake ELSE caller[t]]

Goto(t, from, to) == caller[t] = from /\ caller' = [caller EXCEPT ![t] = to]

\* The predicate loop of wait_for_shutdown_request.
CheckShutdown(t) ==
    /\ caller[t] = "wait"
    /\ caller' = [caller EXCEPT ![t] =
                    IF ~(shutdown_requested \/ stopping) THEN "waiting"
                    ELSE IF t \in Stoppers THEN "stop" ELSE "done"]
    /\ UNCHANGED <<joined, flagVars>>

\* Some thread decides to stop the server.
CallStop(t) == Goto(t, "idle", "stop") /\ UNCHANGED <<joined, flagVars>>

BeginStop(t) ==
    /\ Goto(t, "stop", "flag")
    /\ stopping' = TRUE
    /\ UNCHANGED <<joined, stop_flag, shutdown_requested, live_connections, woken>>

RaiseFlag(t) ==
    /\ Goto(t, "flag", "notify")
    /\ stop_flag' = TRUE
    /\ UNCHANGED <<joined, stopping, shutdown_requested, live_connections, woken>>

NotifyWaiters(t) ==
    /\ caller[t] = "notify"
    /\ caller' = [Notified("waiting", "wait") EXCEPT ![t] = "wake"]
    /\ UNCHANGED <<joined, flagVars>>

WakeAcceptor(t) ==
    /\ Goto(t, "wake", "join")
    /\ woken' = TRUE
    /\ UNCHANGED <<joined, stopping, stop_flag, shutdown_requested, live_connections>>

\* Mutation: the acceptor is woken but not joined.
Join_skipped(t) == Goto(t, "join", "drain") /\ UNCHANGED <<joined, flagVars>>

\* joinable, then join.
Join(t) ==
    /\ caller[t] = "join"
    /\ caller' = [caller EXCEPT ![t] = IF joined THEN "drain" ELSE "joining"]
    /\ UNCHANGED <<joined, flagVars>>

Joined(t) ==
    /\ Goto(t, "joining", "drain")
    /\ acceptor = "ended"
    /\ joined' = TRUE
    /\ UNCHANGED flagVars

\* The predicate loop on live_cv.
CheckLive(t) ==
    /\ caller[t] = "drain"
    /\ caller' = [caller EXCEPT ![t] = IF live_connections = 0 THEN "close" ELSE "draining"]
    /\ UNCHANGED <<joined, flagVars>>

\* The owner's own steps, between a call and its return.
CallerStep(t) ==
    /\ \/ CheckShutdown(t) \/ BeginStop(t) \/ RaiseFlag(t) \/ NotifyWaiters(t)
       \/ WakeAcceptor(t) \/ Join(t) \/ Joined(t) \/ CheckLive(t)
    /\ UNCHANGED <<acceptVars, threadVars, backlog, wireVars, clientVars, applied>>

\* Closing the listener resets what it had not accepted; then Stop returns.
CloseListener(t) ==
    /\ Goto(t, "close", "stopped")
    /\ severed' = [c \in Clients |-> severed[c] \/ \E n \in DOMAIN backlog : backlog[n] = c]
    /\ backlog' = << >>
    /\ UNCHANGED <<joined, flagVars, acceptVars, threadVars, upstream, unsent, downstream,
                   clientVars, applied>>

-----------------------------------------------------------------------------
(***************************************************************************)
(* The acceptor.                                                           *)
(***************************************************************************)
\* select over the listener and the wakeup socket; the listener is looked at first.
WaitReadable ==
    /\ acceptor = "select" /\ (backlog # << >> \/ woken)
    /\ acceptor' = IF backlog # << >> THEN "accept" ELSE "ended"
    /\ UNCHANGED <<accepted, flagVars, threadVars, backlog, severed>>

Accept ==
    /\ acceptor = "accept"
    /\ \/ /\ accepted' = Head(backlog) /\ backlog' = Tail(backlog)
          /\ acceptor' = "admit"
       \/ CallsFail /\ acceptor' = "ended" /\ UNCHANGED <<accepted, backlog>>
    /\ UNCHANGED <<flagVars, threadVars, severed>>

Counted(n) ==
    /\ live_connections' = live_connections + n
    /\ UNCHANGED <<stopping, stop_flag, shutdown_requested, woken>>

\* Mutation: the bound on connections is not looked at.
Admit_unbounded ==
    /\ acceptor = "admit"
    /\ acceptor' = "spawn" /\ Counted(1)
    /\ UNCHANGED <<accepted, severed, threadVars, backlog>>

\* Under the mutex: refuse and close, or count the connection.
Admit ==
    /\ acceptor = "admit"
    /\ IF stopping \/ live_connections >= MaxConnections
       THEN /\ acceptor' = "select" /\ accepted' = Nobody
            /\ severed' = [severed EXCEPT ![accepted] = TRUE]
            /\ UNCHANGED flagVars
       ELSE /\ acceptor' = "spawn" /\ Counted(1)
            /\ UNCHANGED <<accepted, severed>>
    /\ UNCHANGED <<threadVars, backlog>>

\* Mutation: a connection whose thread did not start stays counted.
Spawn_leaking ==
    /\ acceptor = "spawn"
    /\ acceptor' = "select" /\ accepted' = Nobody
    /\ \/ thread' = [thread EXCEPT ![accepted] = "head"] /\ UNCHANGED severed
       \/ /\ CallsFail
          /\ severed' = [severed EXCEPT ![accepted] = TRUE]
          /\ UNCHANGED thread
    /\ UNCHANGED <<flagVars, armed, frame, backlog>>

\* Start the thread; if that fails, take the count back and close.
Spawn ==
    /\ acceptor = "spawn"
    /\ acceptor' = "select" /\ accepted' = Nobody
    /\ \/ thread' = [thread EXCEPT ![accepted] = "head"] /\ UNCHANGED <<flagVars, severed>>
       \/ /\ CallsFail
          /\ Counted(-1)
          /\ severed' = [severed EXCEPT ![accepted] = TRUE]
          /\ UNCHANGED thread
    /\ UNCHANGED <<armed, frame, backlog>>

AcceptorStep ==
    /\ WaitReadable \/ Accept \/ Admit \/ Spawn
    /\ UNCHANGED <<callerVars, upstream, unsent, downstream, clientVars, applied>>

-----------------------------------------------------------------------------
(***************************************************************************)
(* A connection's thread.                                                  *)
(***************************************************************************)
At(c, from, to) ==
    /\ thread[c] = from /\ thread' = [thread EXCEPT ![c] = to]
    /\ armed' = [armed EXCEPT ![c] = FALSE]

\* A failed send is ignored; only these two replies end the conversation.
AfterReply(c) ==
    CASE frame[c].kind = "ShutdownAck" -> "signal"
      [] frame[c].kind = "Rejected" -> "close"
      [] OTHER -> "head"

\* The top of every send and receive slice, and of the serving loop.
CheckStop(c) ==
    /\ thread[c] \in {"head", "body", "reply"} /\ ~armed[c]
    /\ IF ~stop_flag THEN armed' = [armed EXCEPT ![c] = TRUE] /\ UNCHANGED thread
       ELSE At(c, thread[c], IF thread[c] = "reply" THEN AfterReply(c) ELSE "close")
    /\ UNCHANGED <<callerVars, flagVars, frame, wireVars, applied>>

\* The request whose header was read has its body on the wire.
BodyArrived(c) == Len(upstream[c]) > 1 \/ ~unsent[c]

\* What leaves no room in the buffers of the socket: Flood is an answer to Wide, lump the
\* unread payload of one.
Oversize == {"Bulk", "Flood", "lump"}

\* What the client has not taken fills the buffers.
Jammed(c) == \E n \in DOMAIN downstream[c] : downstream[c][n].kind \in Oversize

Writable(c) == client[c] = "closed" \/ ~Jammed(c)

\* wait_ready gives up after kPollMs: nothing to read, or no room to write.
SliceEnds(c) ==
    /\ armed[c]
    /\ \/ thread[c] = "head" /\ upstream[c] = << >> /\ client[c] # "closed"
       \/ thread[c] = "body" /\ ~BodyArrived(c) /\ client[c] # "closed"
       \/ thread[c] = "reply" /\ ~Writable(c)
    /\ armed' = [armed EXCEPT ![c] = FALSE]
    /\ UNCHANGED <<callerVars, flagVars, thread, frame, wireVars, applied>>

\* A header the limits refuse is answered under identifier zero; the body is not read.
ReceiveHeader(c) ==
    /\ armed[c]
    /\ IF upstream[c] = << >>
       THEN client[c] = "closed" /\ At(c, "head", "close") /\ UNCHANGED frame
       ELSE IF Head(upstream[c]).kind = "Huge"
            THEN /\ At(c, "head", "reply")
                 /\ frame' = [frame EXCEPT ![c] = [id |-> 0, kind |-> "Rejected",
                                                   about |-> Head(upstream[c]).id]]
            ELSE At(c, "head", "body") /\ frame' = [frame EXCEPT ![c] = Head(upstream[c])]
    /\ UNCHANGED <<callerVars, flagVars, wireVars, applied>>

ReceiveBody(c) ==
    /\ armed[c]
    /\ IF BodyArrived(c)
       THEN At(c, "body", "dispatch") /\ upstream' = [upstream EXCEPT ![c] = Tail(@)]
       ELSE client[c] = "closed" /\ At(c, "body", "close") /\ UNCHANGED upstream
    /\ UNCHANGED <<callerVars, flagVars, frame, severed, unsent, downstream, applied>>

\* The replies dispatch can produce.  The registry's own refusals are Failure frames.
ReplyKinds(kind) ==
    CASE kind = "Hello" -> {"HelloAck"}
      [] kind = "Batch" -> {"Ack"}
      [] kind = "Call" -> {"Ack", "Failure"}
      [] kind = "Shutdown" -> {IF AllowShutdown THEN "ShutdownAck" ELSE "Failure"}
      [] kind = "Wide" -> {"Wide", "Flood"}
      [] kind = "Bulk" -> {"Bulk"}
      [] kind = "Big" -> {"Unframed"}

Dispatch(c) ==
    /\ At(c, "dispatch", "reply")
    /\ \E kind \in ReplyKinds(frame[c].kind) :
          frame' = [frame EXCEPT ![c] = [id |-> @.id, kind |-> kind, about |-> @.id]]
    /\ applied' = IF frame[c].kind = "Batch" THEN applied \cup {<<c, frame[c].id>>} ELSE applied
    /\ UNCHANGED <<callerVars, flagVars, wireVars>>

\* send_frame; encode_frame makes nothing of a reply that exceeds the limit.  The slices
\* end when the socket takes some bytes; ::send is then given the whole frame and returns
\* when the socket has taken all of it.
SendReply(c) ==
    /\ IF frame[c].kind = "Unframed"
       THEN At(c, "reply", AfterReply(c)) /\ UNCHANGED downstream
       ELSE /\ armed[c] /\ Writable(c)
            /\ At(c, "reply", IF frame[c].kind \in Oversize THEN "sending" ELSE AfterReply(c))
            /\ downstream' = [downstream EXCEPT ![c] = Append(@, frame[c])]
    /\ UNCHANGED <<callerVars, flagVars, frame, severed, upstream, unsent, applied>>

\* ::send returns: the client made room, or is gone.  It does not look at stop_flag.
SendEnds(c) ==
    /\ At(c, "sending", AfterReply(c))
    /\ Writable(c)
    /\ UNCHANGED <<callerVars, flagVars, frame, wireVars, applied>>

SignalShutdown(c) ==
    /\ At(c, "signal", "notify")
    /\ shutdown_requested' = TRUE
    /\ UNCHANGED <<callerVars, stopping, stop_flag, live_connections, woken, frame, wireVars,
                   applied>>

\* Mutation: the request is recorded and nobody is told.
NotifyShutdown_silent(c) ==
    /\ At(c, "notify", "close")
    /\ UNCHANGED <<callerVars, flagVars, frame, wireVars, applied>>

NotifyShutdown(c) ==
    /\ At(c, "notify", "close")
    /\ caller' = Notified("waiting", "wait")
    /\ UNCHANGED <<joined, flagVars, frame, wireVars, applied>>

\* Mutation: the thread ends without closing its socket.
CloseConnection_open(c) ==
    /\ At(c, "close", "leave")
    /\ UNCHANGED <<callerVars, flagVars, frame, wireVars, applied>>

\* Closing with unread input resets the connection: replies on the way may be lost.
CloseConnection(c) ==
    /\ At(c, "close", "leave")
    /\ severed' = [severed EXCEPT ![c] = TRUE]
    /\ \/ UNCHANGED downstream
       \/ upstream[c] # << >> /\ downstream' = [downstream EXCEPT ![c] = << >>]
    /\ UNCHANGED <<callerVars, flagVars, frame, upstream, unsent, applied>>

\* Under the mutex.
Leave(c) ==
    /\ At(c, "leave", "notify_live")
    /\ Counted(-1)
    /\ UNCHANGED <<callerVars, frame, wireVars, applied>>

\* Mutation: nobody is told that a connection ended.
NotifyLive_silent(c) ==
    /\ At(c, "notify_live", "gone")
    /\ UNCHANGED <<callerVars, flagVars, frame, wireVars, applied>>

NotifyLive(c) ==
    /\ At(c, "notify_live", "gone")
    /\ caller' = Notified("draining", "drain")
    /\ UNCHANGED <<joined, flagVars, frame, wireVars, applied>>

ThreadStep(c) ==
    /\ \/ CheckStop(c) \/ SliceEnds(c) \/ ReceiveHeader(c) \/ ReceiveBody(c) \/ Dispatch(c)
       \/ SendReply(c) \/ SendEnds(c) \/ SignalShutdown(c) \/ NotifyShutdown(c)
       \/ CloseConnection(c) \/ Leave(c) \/ NotifyLive(c)
    /\ UNCHANGED <<acceptVars, backlog, clientVars>>

-----------------------------------------------------------------------------
(***************************************************************************)
(* A client.  Its calls block without a deadline; its process can be       *)
(* suspended in one, and can die at any point.                             *)
(***************************************************************************)
serverVars == <<callerVars, flagVars, acceptVars, threadVars, severed, applied>>

ListenerOpen == \A t \in DOMAIN caller : caller[t] # "stopped"

\* connect and the greeting, which is sent at once.
Connect(c) ==
    /\ client[c] = "new" /\ ListenerOpen /\ Len(backlog) < ListenBacklog
    /\ backlog' = Append(backlog, c)
    /\ client' = [client EXCEPT ![c] = "greeting"]
    /\ request' = [request EXCEPT ![c] = [id |-> 0, kind |-> "Hello"]]
    /\ upstream' = [upstream EXCEPT ![c] = <<[id |-> 0, kind |-> "Hello"]>>]
    /\ UNCHANGED <<serverVars, unsent, downstream, result>>

\* next_request_id starts at one and grows with every call.
Ask(c, kind) ==
    /\ client[c] = "ready" /\ request[c].id < MaxRequests
    /\ client' = [client EXCEPT ![c] = "sending"]
    /\ LET asked == [id |-> request[c].id + 1, kind |-> kind]
       IN  /\ request' = [request EXCEPT ![c] = asked]
           /\ upstream' = [upstream EXCEPT ![c] = Append(@, asked)]
    /\ unsent' = [unsent EXCEPT ![c] = TRUE]
    /\ UNCHANGED <<serverVars, backlog, downstream, result>>

SendBody(c) ==
    /\ client[c] = "sending"
    /\ client' = [client EXCEPT ![c] = "awaiting"]
    /\ unsent' = [unsent EXCEPT ![c] = FALSE]
    /\ UNCHANGED <<serverVars, backlog, upstream, downstream, request, result>>

\* What a call returns.  PublishBatch has no error to return and calls it a refusal.
Returned(c, outcome, answer) ==
    [outcome |-> IF outcome # "answer" /\ request[c].kind = "Batch" THEN "RefusedInvalid"
                 ELSE outcome,
     asked |-> request[c].id, answer |-> answer]

\* Headers the client refuses: too large a payload, or not a header at all.
Garbled == {"junk", "scrap", "lump", "Wide", "Flood"}

\* Mutation: any reply is an answer.
Verdict_unmatched(c, r) ==
    CASE r.kind \in Garbled -> Returned(c, "error", 0)
      [] r.kind \in {"Failure", "Rejected"} -> Returned(c, "failure", 0)
      [] OTHER -> Returned(c, "answer", r.about)

\* Client::request on the frame at the head of the stream.
Verdict(c, r) ==
    CASE r.kind \in Garbled -> Returned(c, "error", 0)
      [] r.kind \notin Garbled /\ r.id # request[c].id -> Returned(c, "error", 0)
      [] r.kind \in {"Failure", "Rejected"} /\ r.id = request[c].id -> Returned(c, "failure", 0)
      [] OTHER -> Returned(c, "answer", r.about)

\* What a header that was refused, or was none, can leave of its payload: at least the
\* length of one header (junk), as much as fills the buffers (lump), or less than a header
\* (scrap), and then the next read runs into the following reply.
Leftover(kind) ==
    {[id |-> 0, kind |-> k] :
        k \in {"junk", "scrap"} \cup {x \in {"lump"} : kind \in Oversize \cup {"Wide"}}}

\* What reading one header leaves on the stream; nothing when there is none to read.
Consumed(c) ==
    LET stream == downstream[c]
        next == Head(stream).kind
        Leaving(kind, rest) == {<<x>> \o rest : x \in Leftover(kind)}
    IN  IF stream = << >> \/ (next = "scrap" /\ Len(stream) = 1) THEN {}
        ELSE CASE next \in {"Wide", "Flood", "lump"} -> Leaving(next, Tail(stream))
               [] next = "junk" -> {Tail(stream)} \cup Leaving(next, Tail(stream))
               [] next = "scrap" -> Leaving(stream[2].kind, Tail(Tail(stream)))
               [] OTHER -> {Tail(stream)}

Receive(c) ==
    /\ client[c] \in {"greeting", "awaiting"}
    /\ \E rest \in Consumed(c) : downstream' = [downstream EXCEPT ![c] = rest]
    /\ IF client[c] = "greeting" THEN UNCHANGED result
       ELSE result' = [result EXCEPT ![c] = Verdict(c, Head(downstream[c]))]
    /\ client' = [client EXCEPT ![c] = "ready"]
    /\ UNCHANGED <<serverVars, backlog, upstream, unsent, request>>

\* The peer closed.  A client that could not be greeted is destroyed; one that could
\* stays usable, though every later call ends here too.
EndOfStream(c) ==
    /\ client[c] \in {"greeting", "awaiting"} /\ severed[c]
    /\ Consumed(c) = {}
    /\ client' = [client EXCEPT ![c] = IF @ = "greeting" THEN "closed" ELSE "ready"]
    /\ result' = IF client[c] = "greeting" THEN result
                 ELSE [result EXCEPT ![c] = Returned(c, "error", 0)]
    /\ UNCHANGED <<serverVars, backlog, upstream, unsent, downstream, request>>

\* The process is suspended in a call and reads nothing more.
Stall(c) ==
    /\ client[c] \in {"greeting", "awaiting"}
    /\ client' = [client EXCEPT ![c] = "stalled"]
    /\ UNCHANGED <<serverVars, backlog, upstream, unsent, downstream, request, result>>

\* Close, or the death of the process.
Hangup(c) ==
    /\ client[c] \notin {"new", "closed"}
    /\ client' = [client EXCEPT ![c] = "closed"]
    /\ UNCHANGED <<serverVars, backlog, upstream, unsent, downstream, request, result>>

ClientReads(c) == Receive(c) \/ EndOfStream(c)

Next ==
    \/ \E t \in DOMAIN caller :
          \/ CallerStep(t)
          \/ CloseListener(t)
          \/ /\ CallStop(t)
             /\ UNCHANGED <<acceptVars, threadVars, backlog, wireVars, clientVars, applied>>
    \/ AcceptorStep
    \/ \E c \in Clients :
          \/ ThreadStep(c)
          \/ Connect(c)
          \/ \E kind \in Kinds : Ask(c, kind)
          \/ SendBody(c)
          \/ Receive(c)
          \/ EndOfStream(c)
          \/ Stall(c)
          \/ Hangup(c)

\* Every thread of the server is scheduled, and a client in a receive call reads what
\* arrives.  No client has to ask, to finish a frame it began, or to stay.
Fairness ==
    /\ \A t \in Waiters \cup Stoppers : WF_vars(CallerStep(t)) /\ WF_vars(CloseListener(t))
    /\ WF_vars(AcceptorStep)
    /\ \A c \in Clients : WF_vars(ThreadStep(c)) /\ WF_vars(ClientReads(c))

Spec == Init /\ [][Next]_vars /\ Fairness

-----------------------------------------------------------------------------
(***************************************************************************)
(* Properties.                                                             *)
(***************************************************************************)
Stopped == \E t \in DOMAIN caller : caller[t] = "stopped"

\* Every variable has its type, and the bound on served connections holds.
TypeOK ==
    /\ caller \in [Waiters \cup Stoppers ->
          {"idle", "wait", "waiting", "stop", "flag", "notify", "wake", "join", "joining",
           "drain", "draining", "close", "stopped", "done"}]
    /\ {stopping, stop_flag, shutdown_requested, woken, joined} \subseteq BOOLEAN
    /\ live_connections \in 0 .. MaxConnections
    /\ acceptor \in {"select", "accept", "admit", "spawn", "ended"}
    /\ accepted \in Clients \cup {Nobody}
    /\ thread \in [Clients -> {"none", "head", "body", "dispatch", "reply", "sending", "signal",
                               "notify", "close", "leave", "notify_live", "gone"}]
    /\ armed \in [Clients -> BOOLEAN] /\ severed \in [Clients -> BOOLEAN]
    /\ unsent \in [Clients -> BOOLEAN]
    /\ client \in [Clients -> {"new", "greeting", "ready", "sending", "awaiting", "stalled",
                               "closed"}]
    /\ \A c \in Clients : request[c].id \in 0 .. MaxRequests

\* live_connections counts exactly the connections that were admitted and have not
\* left, over refusals, failed thread starts and connections that end in any way.
ConnectionsCounted ==
    live_connections = Cardinality({c \in Clients : thread[c] \notin {"none", "notify_live", "gone"}})
                       + (IF acceptor = "spawn" THEN 1 ELSE 0)

\* When Stop has returned no request reaches the registry any more: the acceptor ended,
\* no thread is serving, and every connection is closed.  The daemon closes the registry
\* next.
QuietAfterStop ==
    Stopped =>
        /\ acceptor = "ended"
        /\ \A c \in Clients : /\ thread[c] \in {"none", "notify_live", "gone"}
                              /\ client[c] # "new" => severed[c] \/ client[c] = "closed"

\* README: "a stale or reordered reply is refused rather than handed back as the answer
\* to a different question", also on a stream that lost its framing.
AnswerIsForRequest ==
    \A c \in Clients : result[c].outcome = "answer" => result[c].answer = result[c].asked

\* The thread is inside ::send with a reply its client does not take.
HeldUp(c) == thread[c] = "sending" /\ ~Writable(c)

\* Stop "joins the acceptor, and waits for the live connection count to reach zero": it
\* returns whatever the clients do, idle, stalled in the middle of a frame or suspended,
\* unless one of them leaves a reply that has begun and fills the buffers unread for good.
StopReturns ==
    (\A c \in Clients : []<>~HeldUp(c)) =>
        \A t \in Stoppers : caller[t] = "stop" ~> caller[t] = "stopped"

\* Once a shutdown request was recorded, every thread in wait_for_shutdown_request gets
\* out of it.
ShutdownHonoured ==
    \A t \in Waiters : shutdown_requested ~> caller[t] \notin {"wait", "waiting"}

\* A call of c is in a receive without a deadline.
Waiting(c) == client[c] \in {"greeting", "awaiting"}

\* The server runs on without serving c: its acceptor ended at a failed accept, or the
\* reply to c could not be framed.
Deserted(c) == ~stopping /\ (acceptor = "ended" \/ frame[c].kind = "Unframed")

\* "The client observes the closure as a failed call rather than a hang": every call of a
\* client returns, over refusals, rejected frames, refused replies and Stop, unless the
\* server deserts the client or Stop is held up, for good.
NobodyLeftWaiting ==
    \A c \in Clients :
        ([]<>~Deserted(c) /\ \A d \in Clients : []<>~HeldUp(d)) =>
            (Waiting(c) ~> ~Waiting(c))

-----------------------------------------------------------------------------
(***************************************************************************)
(* Statements of the documentation that the code does not meet.            *)
(***************************************************************************)
\* "Connection threads never block indefinitely inside the operating system".
ThreadsNeverBlock == \A c \in Clients : HeldUp(c) ~> ~HeldUp(c)

\* "Failures travel as typed Failure frames and never as an empty success": every call
\* gets something to return.
CallsReturn == \A c \in Clients : Waiting(c) ~> ~Waiting(c)

\* "No connection outlives the server": when Stop has returned, and its owner may
\* destroy it, no connection thread has a step left that uses it.
NoConnectionOutlivesServer == Stopped => \A c \in Clients : thread[c] \in {"none", "gone"}

\* Stop is "idempotent and safe to call from any thread other than a connection handler":
\* the acceptor is joined by one thread.
AcceptorJoinedOnce == Cardinality({t \in Stoppers : caller[t] = "joining"}) <= 1

\* RefusedInvalid is "malformed payload, nil identity, or a bound violation": a batch
\* reported so was not applied.
RefusedMeansNotApplied ==
    \A c \in Clients : result[c].outcome = "RefusedInvalid" => <<c, result[c].asked>> \notin applied
==================================================================================
