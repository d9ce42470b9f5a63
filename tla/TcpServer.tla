----------------------------- MODULE TcpServer -----------------------------
(***************************************************************************)
(* The connection server of src/src/dcl/tcp_server.cpp: one I/O thread    *)
(* (io_process, the "reactor") and a fixed set of worker threads          *)
(* (working_process) sharing the active list a_reqs and the ready queue   *)
(* reqs under the mutex _lock, with the condition _event.                 *)
(*                                                                         *)
(* The protocol callback (process_data_handler) is a user collaborator:   *)
(* each invocation returns keep/close, may append output to the write     *)
(* buffer and, when ThrowPossible, may throw a dbp::exception.  Clients   *)
(* are the remote peers: they connect, send chunks, half-close or reset.  *)
(* Byte contents are abstracted to counts of chunks.                      *)
(***************************************************************************)
EXTENDS Naturals, Sequences, FiniteSets

CONSTANTS
    Workers,        \* worker thread ids (wkt)
    Clients,        \* remote peers; each may open one connection
    QueueSize,      \* tcp_server::_queue_size
    MaxChunks,      \* bound: chunks a client sends on its connection
    MaxOut,         \* bound: unwritten output units in a write buffer
    MaxRuns,        \* bound: number of start() calls
    ThrowPossible,  \* whether the protocol callback may throw
    NoConn          \* model value: no connection

ASSUME /\ Workers # {} /\ Clients # {}
       /\ QueueSize \in Nat /\ MaxChunks \in Nat \ {0} /\ MaxOut \in Nat \ {0}
       /\ MaxRuns \in Nat \ {0} /\ ThrowPossible \in BOOLEAN
       /\ NoConn \notin Clients

VARIABLES
    is_stopped,   \* tcp_server::is_stopped
    runs,         \* start() calls so far
    stopping,     \* progress of stop(): "no", "raise" (flag set, raise
                  \*   pending), "join" (waiting for the threads)
    client,       \* client[c]: "off", "pending" (in the backlog), "open",
                  \*   "closed" (peer sent FIN), "reset", "refused"
    sent,         \* chunks client c has sent
    inbox,        \* chunks sent to c's socket and not yet read by the server
    aReqs,        \* a_reqs: the set of active connections
    reqs,         \* reqs: the FIFO of connections ready for processing
    gone,         \* connections deleted by disconnect_client
    cur,          \* request::cur_state of each connection
    wlen,         \* unwritten output units in write_buffer
    weof,         \* write_buffer.eof()
    wbad,         \* write_buffer has badbit set
    rpc,          \* program counter of the I/O thread
    rsub, wsub,   \* connections put into rfds / wfds by the last build
    rready,       \* connections select() reported readable
    wready,       \* connections select() reported writable
    lready,       \* select() reported the listening socket readable
    visit,        \* connections of a_reqs not yet visited by the event loop
    rcb,          \* connection whose callback the I/O thread is running
    wpc,          \* program counter of each worker
    wconn,        \* connection a worker has taken from reqs
    handled       \* handled[c]: actors currently inside c's callback

reactorVars == <<rpc, rsub, wsub, rready, wready, lready, visit, rcb>>
connVars == <<cur, wlen, weof, wbad>>
netVars == <<client, sent, inbox>>
vars == <<is_stopped, runs, stopping, netVars, aReqs, reqs, gone, connVars,
          reactorVars, wpc, wconn, handled>>

Reactor == "reactor"
Actors == Workers \cup {Reactor}
States == {"WAIT_DATA", "CLOSING"}

-----------------------------------------------------------------------------
(* Helpers.                                                                *)

Queued == {reqs[i] : i \in DOMAIN reqs}
Taken == {wconn[w] : w \in Workers} \ {NoConn}
Owned == aReqs \cup Queued \cup Taken

\* select() reports a socket readable when data is buffered, at end of
\* stream and after a reset.
Readable(c) == inbox[c] > 0 \/ client[c] \in {"closed", "reset"}

\* The lock _lock is held by the I/O thread across its event loop.
LockFree == rpc # "active"

\* _event.raise(): pthread_cond_broadcast wakes every waiting worker.
Raise == [w \in Workers |-> IF wpc[w] = "wait" THEN "take" ELSE wpc[w]]

\* The outcome of one callback invocation.
Outcomes == [keep : BOOLEAN, out : 0..1, throw : IF ThrowPossible
                                                   THEN BOOLEAN ELSE {FALSE}]

\* Mutant: the read may report one chunk more than the socket holds.
ReadSizesMut(c) == 1..(inbox[c] + 1)

\* connection_read: one socket::read into a fixed buffer returns some of
\* the buffered chunks, at least one.
ReadSizes(c) == 1..inbox[c]

-----------------------------------------------------------------------------
(* Clients.                                                                *)

\* The listening socket exists from start() until stop() clears it.
Listening == runs > 0 /\ (~is_stopped \/ stopping # "no")

Connect(c) ==
    /\ client[c] = "off" /\ Listening
    /\ client' = [client EXCEPT ![c] = "pending"]
    /\ UNCHANGED <<sent, inbox, is_stopped, runs, stopping, aReqs, reqs, gone,
                   connVars, reactorVars, wpc, wconn, handled>>

Send(c) ==
    /\ client[c] \in {"pending", "open"} /\ sent[c] < MaxChunks
    /\ sent' = [sent EXCEPT ![c] = @ + 1]
    /\ inbox' = [inbox EXCEPT ![c] = @ + 1]
    /\ UNCHANGED <<client, is_stopped, runs, stopping, aReqs, reqs, gone,
                   connVars, reactorVars, wpc, wconn, handled>>

HalfClose(c) ==
    /\ client[c] = "open"
    /\ client' = [client EXCEPT ![c] = "closed"]
    /\ UNCHANGED <<sent, inbox, is_stopped, runs, stopping, aReqs, reqs, gone,
                   connVars, reactorVars, wpc, wconn, handled>>

Reset(c) ==
    /\ client[c] \in {"open", "closed"}
    /\ client' = [client EXCEPT ![c] = "reset"]
    /\ UNCHANGED <<sent, inbox, is_stopped, runs, stopping, aReqs, reqs, gone,
                   connVars, reactorVars, wpc, wconn, handled>>

-----------------------------------------------------------------------------
(* The I/O thread: io_process.                                            *)

\* Top of the loop: leave when the stop flag is set.
ReactorCheck ==
    /\ rpc = "check"
    /\ rpc' = IF is_stopped THEN "done" ELSE "build"
    /\ UNCHANGED <<is_stopped, runs, stopping, netVars, aReqs, reqs, gone,
                   connVars, rsub, wsub, rready, wready, lready, visit, rcb,
                   wpc, wconn, handled>>

\* Mutant: only connections with pending output are subscribed for reading.
ReactorBuildMut ==
    LET closing == {c \in aReqs : cur[c] = "CLOSING" /\ weof[c]}
        kept == aReqs \ closing
    IN /\ rpc = "build"
       /\ aReqs' = kept
       /\ gone' = gone \cup closing
       /\ rsub' = {c \in kept : ~weof[c]}
       /\ wsub' = {c \in kept : ~weof[c]}
       /\ rpc' = "select"
       /\ UNCHANGED <<is_stopped, runs, stopping, netVars, reqs, connVars,
                      rready, wready, lready, visit, rcb, wpc, wconn, handled>>

\* Under _lock: delete the CLOSING connections whose write buffer is at eof
\* (disconnect_client), subscribe the others for reading, and for writing
\* when their write buffer is not at eof.
ReactorBuild ==
    LET closing == {c \in aReqs : cur[c] = "CLOSING" /\ weof[c]}
        kept == aReqs \ closing
    IN /\ rpc = "build"
       /\ aReqs' = kept
       /\ gone' = gone \cup closing
       /\ rsub' = kept
       /\ wsub' = {c \in kept : ~weof[c]}
       /\ rpc' = "select"
       /\ UNCHANGED <<is_stopped, runs, stopping, netVars, reqs, connVars,
                      rready, wready, lready, visit, rcb, wpc, wconn, handled>>

\* select() with a 10 ms timeout.  A socket is writable whenever there is
\* room in its send buffer, which the small outputs here always find.
ReactorSelect ==
    LET rr == {c \in rsub : Readable(c)}
        lr == \E c \in Clients : client[c] = "pending"
    IN /\ rpc = "select"
       \* fd_set is a local of the loop: only the ready bits live on
       /\ IF rr = {} /\ wsub = {} /\ ~lr
          THEN rpc' = "check" /\ UNCHANGED <<rready, wready, lready>>
          ELSE rpc' = "accept" /\ rready' = rr /\ wready' = wsub /\ lready' = lr
       /\ rsub' = {} /\ wsub' = {}
       /\ UNCHANGED <<is_stopped, runs, stopping, netVars, aReqs, reqs, gone,
                      connVars, visit, rcb, wpc, wconn, handled>>

\* connection_accept on the ready listening socket, then the event loop
\* over a_reqs begins under _lock.  The accept is deferred while a_reqs
\* holds more than _queue_size connections.
ReactorAccept ==
    /\ rpc = "accept"
    /\ \/ /\ lready /\ Cardinality(aReqs) <= QueueSize
          /\ \E c \in Clients :
                /\ client[c] = "pending"
                /\ client' = [client EXCEPT ![c] = "open"]
                /\ aReqs' = aReqs \cup {c}
                /\ cur' = [cur EXCEPT ![c] = "WAIT_DATA"]
                /\ weof' = [weof EXCEPT ![c] = TRUE]
                /\ UNCHANGED <<wlen, wbad>>
       \/ /\ ~lready \/ Cardinality(aReqs) > QueueSize
          /\ UNCHANGED <<client, aReqs, connVars>>
    /\ visit' = (rready \cup wready) \cap aReqs
    /\ rpc' = "active"
    /\ UNCHANGED <<is_stopped, runs, stopping, sent, inbox, reqs, gone, rsub,
                   wsub, rready, wready, lready, rcb, wpc, wconn, handled>>

\* Mutant: an empty write buffer is never marked eof.
WriteOutcomesMut(c) ==
    IF weof[c] THEN {[len |-> wlen[c], eof |-> TRUE, bad |-> wbad[c]]}
    ELSE IF wbad[c] \/ wlen[c] = 0
         THEN {[len |-> wlen[c], eof |-> FALSE, bad |-> wbad[c]]}
    ELSE IF client[c] = "reset"
         THEN {[len |-> wlen[c], eof |-> FALSE, bad |-> TRUE]}
    ELSE {[len |-> wlen[c] - n, eof |-> FALSE, bad |-> FALSE] : n \in 1..wlen[c]}

\* connection_write: the write buffer after one write event.
WriteOutcomes(c) ==
    IF weof[c] THEN {[len |-> wlen[c], eof |-> TRUE, bad |-> wbad[c]]}
    ELSE IF wbad[c] \/ wlen[c] = 0
         \* tellg() fails or nothing is left: size is 0, eofbit is set
         THEN {[len |-> wlen[c], eof |-> TRUE, bad |-> wbad[c]]}
    ELSE IF client[c] = "reset"
         THEN {[len |-> wlen[c], eof |-> FALSE, bad |-> TRUE]}
    ELSE {[len |-> wlen[c] - n, eof |-> FALSE, bad |-> FALSE] : n \in 1..wlen[c]}

\* Mutant: the workers are not woken.
DispatchMut(c, state) ==
    IF state # "CLOSING"
    THEN /\ aReqs' = aReqs \ {c}
         /\ reqs' = Append(reqs, c)
         /\ UNCHANGED wpc
    ELSE UNCHANGED <<aReqs, reqs, wpc>>

\* Moving a serviced connection that is not CLOSING to the queue and
\* waking the workers, or leaving it in a_reqs.
Dispatch(c, state) ==
    IF state # "CLOSING"
    THEN /\ aReqs' = aReqs \ {c}
         /\ reqs' = Append(reqs, c)
         /\ wpc' = Raise
    ELSE UNCHANGED <<aReqs, reqs, wpc>>

\* One connection of the event loop: connection_write on a write event,
\* then connection_read on a read event.  A read of data clears the flags
\* of both buffers and starts the callback (finished by ReactorCallback);
\* a read error marks the connection CLOSING; end of stream does nothing.
ReactorEvent(c) ==
    /\ rpc = "active" /\ rcb = NoConn /\ c \in visit
    /\ \E w \in IF c \in wready THEN WriteOutcomes(c)
                ELSE {[len |-> wlen[c], eof |-> weof[c], bad |-> wbad[c]]} :
        LET reading == c \in rready
            err == reading /\ client[c] = "reset"
            data == reading /\ ~err /\ inbox[c] > 0
            state == IF err THEN "CLOSING" ELSE cur[c]
        IN /\ cur' = [cur EXCEPT ![c] = state]
           /\ wlen' = [wlen EXCEPT ![c] = w.len]
           /\ weof' = [weof EXCEPT ![c] = IF data THEN FALSE ELSE w.eof]
           /\ wbad' = [wbad EXCEPT ![c] = IF data THEN FALSE ELSE w.bad]
           /\ IF data
              THEN /\ \E k \in ReadSizes(c) : inbox' = [inbox EXCEPT ![c] = @ - k]
                   /\ rcb' = c
                   /\ handled' = [handled EXCEPT ![c] = @ \cup {Reactor}]
                   /\ visit' = visit
                   /\ UNCHANGED <<aReqs, reqs, wpc>>
              ELSE /\ visit' = visit \ {c}
                   /\ Dispatch(c, state)
                   /\ UNCHANGED <<inbox, rcb, handled>>
    /\ UNCHANGED <<is_stopped, runs, stopping, client, sent, gone, rpc, rsub,
                   wsub, rready, wready, lready, wconn>>

\* Output of a callback reaches the write buffer only while the stream is
\* good: with eofbit or badbit set the ostream sentry drops it.
Output(c, o) ==
    IF weof[c] \/ wbad[c] THEN wlen[c] ELSE wlen[c] + o.out

\* The callback started by ReactorEvent returns.  A thrown exception
\* leaves the event loop (the guard releases _lock) and, the exception
\* handler being registered, the loop starts over.
ReactorCallback ==
    /\ rpc = "active" /\ rcb # NoConn
    /\ \E o \in Outcomes :
         LET c == rcb
             state == IF o.keep THEN cur[c] ELSE "CLOSING"
         IN /\ Output(c, o) <= MaxOut
            /\ handled' = [handled EXCEPT ![c] = @ \ {Reactor}]
            /\ rcb' = NoConn
            /\ IF o.throw
               THEN /\ rpc' = "check"
                    /\ visit' = {}
                    /\ rready' = {} /\ wready' = {} /\ lready' = FALSE
                    /\ UNCHANGED <<aReqs, reqs, wpc, connVars>>
               ELSE /\ cur' = [cur EXCEPT ![c] = state]
                    /\ wlen' = [wlen EXCEPT ![c] = Output(c, o)]
                    /\ visit' = visit \ {c}
                    /\ rpc' = rpc
                    /\ Dispatch(c, state)
                    /\ UNCHANGED <<weof, wbad, rready, wready, lready>>
    /\ UNCHANGED <<is_stopped, runs, stopping, netVars, gone, rsub, wsub,
                   wconn>>

\* End of the event loop: _lock is released.
ReactorLoopEnd ==
    /\ rpc = "active" /\ rcb = NoConn /\ visit = {}
    /\ rpc' = "check"
    /\ rready' = {} /\ wready' = {} /\ lready' = FALSE
    /\ UNCHANGED <<is_stopped, runs, stopping, netVars, aReqs, reqs, gone,
                   connVars, rsub, wsub, visit, rcb, wpc, wconn, handled>>

-----------------------------------------------------------------------------
(* The worker threads: working_process.                                   *)

\* Mutant: the head of the queue is read but not popped.
WorkerTakeMut(w) ==
    /\ wpc[w] = "take" /\ LockFree
    /\ \/ /\ reqs = <<>> /\ ~is_stopped
          /\ wpc' = [wpc EXCEPT ![w] = "wait"]
          /\ UNCHANGED <<reqs, wconn, handled>>
       \/ /\ is_stopped
          /\ wpc' = [wpc EXCEPT ![w] = "done"]
          /\ UNCHANGED <<reqs, wconn, handled>>
       \/ /\ reqs # <<>> /\ ~is_stopped
          /\ wconn' = [wconn EXCEPT ![w] = Head(reqs)]
          /\ UNCHANGED reqs
          /\ handled' = [handled EXCEPT ![Head(reqs)] = @ \cup {w}]
          /\ wpc' = [wpc EXCEPT ![w] = "process"]
    /\ UNCHANGED <<is_stopped, runs, stopping, netVars, aReqs, gone, connVars,
                   reactorVars>>

\* Under _lock: wait on _event while the queue is empty and the server
\* runs; leave on the stop flag; otherwise pop the queue's head.
WorkerTake(w) ==
    /\ wpc[w] = "take" /\ LockFree
    /\ \/ /\ reqs = <<>> /\ ~is_stopped
          /\ wpc' = [wpc EXCEPT ![w] = "wait"]
          /\ UNCHANGED <<reqs, wconn, handled>>
       \/ /\ is_stopped
          /\ wpc' = [wpc EXCEPT ![w] = "done"]
          /\ UNCHANGED <<reqs, wconn, handled>>
       \/ /\ reqs # <<>> /\ ~is_stopped
          /\ wconn' = [wconn EXCEPT ![w] = Head(reqs)]
          /\ reqs' = Tail(reqs)
          /\ handled' = [handled EXCEPT ![Head(reqs)] = @ \cup {w}]
          /\ wpc' = [wpc EXCEPT ![w] = "process"]
    /\ UNCHANGED <<is_stopped, runs, stopping, netVars, aReqs, gone, connVars,
                   reactorVars>>

\* The callback, outside _lock.  A false result marks the connection
\* CLOSING.  A thrown exception goes to the exception handler and the
\* worker loops without returning the connection to a_reqs.
WorkerProcess(w) ==
    /\ wpc[w] = "process"
    /\ \E o \in Outcomes :
         LET c == wconn[w]
         IN /\ Output(c, o) <= MaxOut
            /\ handled' = [handled EXCEPT ![c] = @ \ {w}]
            /\ IF o.throw
               THEN /\ wpc' = [wpc EXCEPT ![w] = "take"]
                    /\ wconn' = [wconn EXCEPT ![w] = NoConn]
                    /\ UNCHANGED connVars
               ELSE /\ cur' = [cur EXCEPT ![c] = IF o.keep THEN @ ELSE "CLOSING"]
                    /\ wlen' = [wlen EXCEPT ![c] = Output(c, o)]
                    /\ wpc' = [wpc EXCEPT ![w] = "return"]
                    /\ UNCHANGED <<wconn, weof, wbad>>
    /\ UNCHANGED <<is_stopped, runs, stopping, netVars, aReqs, reqs, gone,
                   reactorVars>>

\* Under _lock: the connection goes back to a_reqs.
WorkerReturn(w) ==
    /\ wpc[w] = "return" /\ LockFree
    /\ aReqs' = aReqs \cup {wconn[w]}
    /\ wconn' = [wconn EXCEPT ![w] = NoConn]
    /\ wpc' = [wpc EXCEPT ![w] = "take"]
    /\ UNCHANGED <<is_stopped, runs, stopping, netVars, reqs, gone, connVars,
                   reactorVars, handled>>

-----------------------------------------------------------------------------
(* start() and stop(), called by the host.                                *)

\* start(): a no-op unless stopped; binds, then starts the workers and the
\* I/O thread.  The last allowed run is never stopped.
Start ==
    /\ is_stopped /\ stopping = "no" /\ runs < MaxRuns
    /\ is_stopped' = FALSE
    /\ runs' = runs + 1
    /\ rpc' = "check"
    /\ wpc' = [w \in Workers |-> "take"]
    /\ UNCHANGED <<stopping, netVars, aReqs, reqs, gone, connVars, rsub, wsub,
                   rready, wready, lready, visit, rcb, wconn, handled>>

\* stop(), first step: under _lock, set the stop flag.
StopSetFlag ==
    /\ ~is_stopped /\ LockFree /\ runs < MaxRuns
    /\ is_stopped' = TRUE
    /\ stopping' = "raise"
    /\ UNCHANGED <<runs, netVars, aReqs, reqs, gone, connVars, reactorVars,
                   wpc, wconn, handled>>

\* Mutant: stop() does not raise the event.
StopRaiseMut ==
    /\ stopping = "raise"
    /\ stopping' = "join"
    /\ UNCHANGED <<is_stopped, runs, netVars, aReqs, reqs, gone, connVars,
                   reactorVars, wpc, wconn, handled>>

\* stop(), second step: _event.raise().
StopRaise ==
    /\ stopping = "raise"
    /\ wpc' = Raise
    /\ stopping' = "join"
    /\ UNCHANGED <<is_stopped, runs, netVars, aReqs, reqs, gone, connVars,
                   reactorVars, wconn, handled>>

\* stop(), last step: the joins return once every thread has left its
\* loop; listen_sockets.clear() closes the listening socket, refusing the
\* clients still in its backlog.
StopJoin ==
    /\ stopping = "join"
    /\ rpc = "done" /\ \A w \in Workers : wpc[w] = "done"
    /\ stopping' = "no"
    /\ client' = [c \in Clients |->
                    IF client[c] = "pending" THEN "refused" ELSE client[c]]
    /\ UNCHANGED <<is_stopped, runs, sent, inbox, aReqs, reqs, gone, connVars,
                   reactorVars, wpc, wconn, handled>>

-----------------------------------------------------------------------------

\* The constructed server: stopped, no thread started.
Init ==
    /\ is_stopped = TRUE
    /\ runs = 0
    /\ stopping = "no"
    /\ client = [c \in Clients |-> "off"]
    /\ sent = [c \in Clients |-> 0]
    /\ inbox = [c \in Clients |-> 0]
    /\ aReqs = {}
    /\ reqs = <<>>
    /\ gone = {}
    /\ cur = [c \in Clients |-> "WAIT_DATA"]
    /\ wlen = [c \in Clients |-> 0]
    /\ weof = [c \in Clients |-> TRUE]
    /\ wbad = [c \in Clients |-> FALSE]
    /\ rpc = "done"
    /\ rsub = {} /\ wsub = {} /\ rready = {} /\ wready = {}
    /\ lready = FALSE
    /\ visit = {}
    /\ rcb = NoConn
    /\ wpc = [w \in Workers |-> "done"]
    /\ wconn = [w \in Workers |-> NoConn]
    /\ handled = [c \in Clients |-> {}]

Next ==
    \/ \E c \in Clients : Connect(c) \/ Send(c) \/ HalfClose(c) \/ Reset(c)
    \/ ReactorCheck \/ ReactorBuild \/ ReactorSelect \/ ReactorAccept
    \/ \E c \in Clients : ReactorEvent(c)
    \/ ReactorCallback \/ ReactorLoopEnd
    \/ \E w \in Workers : WorkerTake(w) \/ WorkerProcess(w) \/ WorkerReturn(w)
    \/ Start \/ StopSetFlag \/ StopRaise \/ StopJoin

\* The I/O thread and the workers are OS threads, and a thread in stop()
\* runs to the end: each of their steps is weakly fair.  A worker's steps
\* that acquire _lock are strongly fair: the I/O thread releases _lock for
\* every 10 ms select(), so a blocked worker is not starved of it forever.
\* The clients and the host's decision to call start() or stop() are not.
Fairness ==
    /\ WF_vars(ReactorCheck) /\ WF_vars(ReactorBuild) /\ WF_vars(ReactorSelect)
    /\ WF_vars(ReactorAccept) /\ WF_vars(ReactorCallback)
    /\ WF_vars(ReactorLoopEnd) /\ WF_vars(\E c \in Clients : ReactorEvent(c))
    /\ \A w \in Workers : SF_vars(WorkerTake(w)) /\ WF_vars(WorkerProcess(w))
                          /\ SF_vars(WorkerReturn(w))
    /\ WF_vars(StopRaise) /\ WF_vars(StopJoin)

Spec == Init /\ [][Next]_vars /\ Fairness

-----------------------------------------------------------------------------
(* Properties.                                                             *)

TypeOK ==
    /\ is_stopped \in BOOLEAN /\ runs \in 0..MaxRuns
    /\ stopping \in {"no", "raise", "join"}
    /\ client \in [Clients -> {"off", "pending", "open", "closed", "reset",
                               "refused"}]
    /\ sent \in [Clients -> 0..MaxChunks] /\ inbox \in [Clients -> 0..MaxChunks]
    /\ aReqs \subseteq Clients /\ reqs \in Seq(Clients) /\ gone \subseteq Clients
    /\ cur \in [Clients -> States] /\ wlen \in [Clients -> 0..MaxOut]
    /\ weof \in [Clients -> BOOLEAN] /\ wbad \in [Clients -> BOOLEAN]
    /\ rpc \in {"check", "build", "select", "accept", "active", "done"}
    /\ {rsub, wsub, rready, wready, visit} \subseteq SUBSET Clients
    /\ lready \in BOOLEAN /\ rcb \in Clients \cup {NoConn}
    /\ wpc \in [Workers -> {"take", "wait", "process", "return", "done"}]
    /\ wconn \in [Workers -> Clients \cup {NoConn}]
    /\ handled \in [Clients -> SUBSET Actors]

\* A connection the server accepted.
Accepted == {c \in Clients : client[c] \in {"open", "closed", "reset"}}

\* The ownership discipline of tcp_server (a_reqs -> reqs -> one worker ->
\* a_reqs, transfers under _lock): every accepted connection is, at every
\* instant, either deleted or in exactly one of a_reqs, the queue (once),
\* or the hands of one worker; and no two threads run the protocol
\* callback on the same connection's buffers at once.
ConnectionOwnership ==
    /\ \A c \in Accepted :
         Cardinality({c} \cap gone) + Cardinality({c} \cap aReqs)
           + Cardinality({i \in DOMAIN reqs : reqs[i] = c})
           + Cardinality({w \in Workers : wconn[w] = c}) = 1
    /\ \A c \in Clients : Cardinality(handled[c]) <= 1

\* Data a client sent on an accepted connection is eventually read by the
\* I/O thread (io_process, connection_read), however the connection
\* cycles through the queue and the workers, unless the server is
\* stopped.
DataConsumed ==
    \A c \in Clients :
        (c \in Owned /\ inbox[c] > 0) ~> (inbox[c] = 0 \/ c \in gone \/ is_stopped)

\* A connection the I/O thread put in the queue is eventually taken by a
\* worker, processed and returned to a_reqs (or deleted), unless the
\* server is stopped: the _event broadcast never leaves a worker asleep
\* while the queue is non-empty.
QueuedServiced ==
    \A c \in Clients : (c \in Queued) ~> (c \in aReqs \/ c \in gone \/ is_stopped)

\* A connection marked CLOSING (by a false callback result or a read
\* error) has its write buffer drained and is eventually deleted by
\* disconnect_client, unless the server is stopped first.
ClosingReleased ==
    \A c \in Clients :
        (c \in Owned /\ cur[c] = "CLOSING") ~> (c \in gone \/ is_stopped)

\* stop() returns: once the flag is set, the I/O thread and every worker,
\* even one blocked on _event, leave their loops and the joins complete.
ShutdownCompletes == stopping = "raise" ~> stopping = "no"

\* A connection whose client has closed its end is eventually deleted,
\* unless the server is stopped (spec 4.1, 5: end of stream and idle
\* connections are torn down).  connection_read ignores a read of 0 bytes
\* and the idle timeout of working_process is commented out.
PeerCloseReleased ==
    \A c \in Clients :
        (c \in Owned /\ client[c] = "closed") ~> (c \in gone \/ is_stopped)

=============================================================================
