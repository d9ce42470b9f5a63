----------------------------- MODULE HttpServer -----------------------------
(***************************************************************************)
(* dbp::http_server (http_server.cpp) on top of tcp_server, seen from one *)
(* socket descriptor over the successive connections that reuse it.       *)
(*                                                                         *)
(* tcp_server hands a connection to one actor at a time (ConnectionOwner- *)
(* ship, checked in TcpServer), so the events of one connection form a    *)
(* sequence: an I/O event (connection_write, then connection_read, which  *)
(* runs process_data on the I/O thread) and, when the connection is not   *)
(* CLOSING, a second call of process_data by a worker on the same buffers. *)
(* process_data is one step: its loop over the request state machine is   *)
(* the RECURSIVE operator Loop.  The map from descriptor to request       *)
(* record (http_server::reqs) outlives the connections: variable entry.   *)
(*                                                                         *)
(* The client of each connection sends a script of requests.  A request   *)
(* is the line "M" (request line), the header lines "H" (Host), "K"       *)
(* (Connection: keep-alive) and "L" (Content-Length: BodyLen), a blank    *)
(* line and, with "L", BodyLen body bytes "b".  TCP delivers the bytes in *)
(* segments that end where Splits allows.                                 *)
(***************************************************************************)
EXTENDS Naturals, Sequences, SequencesExt, FiniteSets, TLC, HttpHeader

CONSTANTS
    Shapes,         \* request shapes a client sends: [ka, len : BOOLEAN]
    BodyLen,        \* the Content-Length of a request with a body
    MaxReqs,        \* bound: requests in a client's script
    MaxConns,       \* bound: connections accepted on the descriptor
    Splits,         \* where a segment may end inside a request: a subset
                    \*   of {"midline", "eol", "body"}
    Pipelined,      \* whether a client sends a request before the answer
                    \*   to the previous one
    ResetPossible,  \* whether a client may reset its connection
    SizeBits,       \* width of size_t in the model
    NoReq           \* model value: no request record for the descriptor

ASSUME /\ Shapes \subseteq [ka : BOOLEAN, len : BOOLEAN] /\ Shapes # {}
       /\ BodyLen \in Nat \ {0} /\ MaxReqs \in Nat \ {0}
       /\ MaxConns \in Nat \ {0} /\ Splits \subseteq {"midline", "eol", "body"}
       /\ Pipelined \in BOOLEAN /\ ResetPossible \in BOOLEAN
       /\ SizeBits \in Nat \ {0}

VARIABLES
    gen,        \* connections accepted so far; the current one's number
    script,     \* the requests the current client sends
    sentB,      \* bytes of the script the client has sent
    readB,      \* bytes of the script the server has read
    client,     \* "open", "reset" (connection reset), "closed"
    recv,       \* responses the client has received
    handled,    \* requests given to request_handler, as the handler sees them
    conn,       \* "none", "active" (in a_reqs), "queued" (for a worker)
    cur,        \* tcp_server request::cur_state
    rs,         \* the read buffer, a StringStream stream
    wlen,       \* responses in the write buffer not yet sent
    weof, wbad, \* state bits of the write buffer
    entry       \* http_server::reqs[fd]: a request record or NoReq

vars == <<gen, script, sentB, readB, client, recv, handled, conn, cur, rs,
          wlen, weof, wbad, entry>>

SizeMod == 2 ^ SizeBits

-----------------------------------------------------------------------------
(* The client's bytes.                                                     *)

Encode(r) ==
    <<"M", NL, "H", NL>> \o (IF r.ka THEN <<"K", NL>> ELSE <<>>)
      \o (IF r.len THEN <<"L", NL>> ELSE <<>>) \o <<NL>>
      \o [i \in 1..(IF r.len THEN BodyLen ELSE 0) |-> "b"]

\* The request as request_handler should see it: the request line of
\* connection g, its headers and its body.
View(r, g) ==
    [cmd |-> g,
     hdrs |-> {"H"} \cup (IF r.ka THEN {"K"} ELSE {}) \cup (IF r.len THEN {"L"} ELSE {}),
     body |-> IF r.len THEN BodyLen ELSE 0]

Scripts == UNION {[1..n -> Shapes] : n \in 1..MaxReqs}

Bytes == FlattenSeq([i \in 1..Len(script) |-> Encode(script[i])])

\* The offset at which the i-th request ends.
End(i) == Len(FlattenSeq([j \in 1..i |-> Encode(script[j])]))

\* What a segment ending after byte k cuts: a line before its newline,
\* the header block after a newline, or the body.
Kind(k) ==
    LET a == Bytes[k]
        b == Bytes[k + 1]
    IN IF b = "b" THEN "body"
       ELSE IF a # NL /\ b = NL THEN "midline"
       ELSE IF a = NL THEN "eol" ELSE "other"

SegmentEnd(k) ==
    \/ \E i \in 1..Len(script) : k = End(i)
    \/ k < Len(Bytes) /\ Kind(k) \in Splits

\* A client that does not pipeline sends a request after the answer to the
\* previous one.
Limit ==
    IF Pipelined THEN Len(Bytes)
    ELSE End(IF recv < Len(script) THEN recv + 1 ELSE Len(script))

-----------------------------------------------------------------------------
(* http_server::process_data.                                              *)

FreshReq == [state |-> "WAIT_COMMAND", cmd |-> 0, hdrs |-> {}, size |-> 0,
             readed |-> 0, content |-> NoContent]

\* set_header(trim(line)): a "Name: value" line sets a header; the request
\* line and body bytes contain no ':'.
HeaderOf(line) == IF line \in {<<"H">>, <<"K">>, <<"L">>} THEN {line[1]} ELSE {}

\* The request line parsed on connection g: whose request line it was.
CommandOf(line, g) == IF line = <<"M">> THEN g ELSE 0

\* A state of the loop: stream, request record, write buffer (len, and ok
\* while good), the requests handled, the result ("run" while looping) and
\* the map entry after the call.
\* Mutant: the eof path returns without seekg(pos), so a partial request
\* line is consumed.
WaitCommandMut(c) ==
    LET r == GetLine(AfterTellG(c.st))
    IN IF r.st.eof
       THEN [c EXCEPT !.st = r.st, !.ret = "keep", !.entry = c.req]
       ELSE [c EXCEPT !.st = r.st, !.req.cmd = CommandOf(r.line, c.gen),
                      !.req.state = "WAIT_HEADER"]

WaitCommand(c) ==
    LET pos == TellG(c.st)
        r == GetLine(AfterTellG(c.st))
    IN IF r.st.eof
       THEN [c EXCEPT !.st = SeekG(r.st, pos), !.ret = "keep", !.entry = c.req]
       ELSE [c EXCEPT !.st = r.st, !.req.cmd = CommandOf(r.line, c.gen),
                      !.req.state = "WAIT_HEADER"]

WaitHeader(c) ==
    LET pos == TellG(c.st)
        r == GetLine(AfterTellG(c.st))
        hdrs == c.req.hdrs \cup HeaderOf(r.line)
        blank == r.line = <<>>
    IN IF r.st.eof
       THEN [c EXCEPT !.st = SeekG(r.st, pos), !.ret = "keep", !.entry = c.req]
       ELSE [c EXCEPT !.st = r.st, !.req.hdrs = hdrs,
                      !.req.size = IF blank /\ "L" \in hdrs THEN BodyLen ELSE @,
                      !.req.state = IF blank THEN "RECEIVING_DATA" ELSE @]

\* data_readed += tellg() - pos, in size_t arithmetic.
ReceivingData(c) ==
    IF c.req.size = 0 THEN [c EXCEPT !.req.state = "PROCESS_REQUEST"]
    ELSE IF c.st.eof THEN [c EXCEPT !.ret = "keep", !.entry = c.req]
    ELSE LET pos == TellG(c.st)
             a == AddContent(c.req.content, AfterTellG(c.st))
             readed == (c.req.readed + TellG(a.st) - pos) % SizeMod
         IN [c EXCEPT !.st = AfterTellG(a.st), !.req.content = a.c,
                      !.req.readed = readed,
                      !.req.state = IF readed >= c.req.size THEN "PROCESS_REQUEST" ELSE @]

\* request_handler runs; its response reaches the write buffer while the
\* buffer is good (the ostream sentry drops it otherwise).
ProcessRequest(c) ==
    [c EXCEPT !.views = Append(@, [cmd |-> c.req.cmd, hdrs |-> c.req.hdrs,
                                   body |-> ContentSize(c.req.content)]),
              !.out.len = IF c.out.ok THEN @ + 1 ELSE @,
              !.req.state = "CLOSING"]

\* The record is deleted and erased from the map; the connection is kept
\* on "Connection: keep-alive".
\* The record is deleted and erased from the map; the connection is kept
\* on "Connection: keep-alive".
\* Mutant: the record is deleted but not erased from the map.
ClosingMut(c) == [c EXCEPT !.ret = IF "K" \in c.req.hdrs THEN "keep" ELSE "close"]

Closing(c) == [c EXCEPT !.ret = IF "K" \in c.req.hdrs THEN "keep" ELSE "close",
                        !.entry = NoReq]

Step(c) ==
    CASE c.req.state = "WAIT_COMMAND"    -> WaitCommand(c)
      [] c.req.state = "WAIT_HEADER"     -> WaitHeader(c)
      [] c.req.state = "RECEIVING_DATA"  -> ReceivingData(c)
      [] c.req.state = "PROCESS_REQUEST" -> ProcessRequest(c)
      [] c.req.state = "CLOSING"         -> Closing(c)

RECURSIVE Loop(_, _)
Loop(c, n) ==
    IF c.ret # "run" THEN c
    ELSE IF n = 0 THEN [c EXCEPT !.ret = "stuck"]
    ELSE Loop(Step(c), n - 1)

\* One call of process_data on the read buffer st and the write buffer out.
ProcessData(st, out) ==
    LET c == Loop([st |-> st, req |-> IF entry = NoReq THEN FreshReq ELSE entry,
                   out |-> out, views |-> <<>>, ret |-> "run", entry |-> entry,
                   gen |-> gen],
                  4 * Len(st.buf) + 8)
    IN IF c.ret = "stuck" THEN Assert(FALSE, "process_data does not return")
       ELSE c

-----------------------------------------------------------------------------
(* The connection, driven by tcp_server.                                   *)

\* After connection_read has run process_data: the read buffer is reset
\* when tellg() == tellp().  With eofbit alone set, tellg() sets failbit,
\* and whether tellp() is evaluated before or after it is unspecified.
DiscardOutcomes(s) ==
    IF Good(s) THEN {IF s.g = Len(s.buf) THEN StrEmpty(s) ELSE s}
    ELSE IF s.fail THEN {StrEmpty(s)}
    ELSE {StrEmpty([s EXCEPT !.fail = TRUE]), [s EXCEPT !.fail = TRUE]}

\* Mutant: the buffer's size is taken one past its end.
WriteOutcomesMut ==
    IF wbad \/ wlen = 0 THEN {[len |-> wlen, eof |-> TRUE, bad |-> wbad, sent |-> 0]}
    ELSE IF client = "reset" THEN {[len |-> wlen, eof |-> FALSE, bad |-> TRUE, sent |-> 0]}
    ELSE {[len |-> wlen - n, eof |-> FALSE, bad |-> FALSE, sent |-> n] : n \in 1..(wlen + 1)}

\* connection_write: the write buffer after one write event, and the
\* responses it delivered.
WriteOutcomes ==
    IF wbad \/ wlen = 0 THEN {[len |-> wlen, eof |-> TRUE, bad |-> wbad, sent |-> 0]}
    ELSE IF client = "reset" THEN {[len |-> wlen, eof |-> FALSE, bad |-> TRUE, sent |-> 0]}
    ELSE {[len |-> wlen - n, eof |-> FALSE, bad |-> FALSE, sent |-> n] : n \in 1..wlen}

\* connection_accept on the reused descriptor: a new request with both
\* buffers at eof; the http_server map is left as it is.
Connect ==
    /\ conn = "none" /\ gen < MaxConns
    /\ \E sc \in Scripts : script' = sc
    /\ gen' = gen + 1
    /\ sentB' = 0 /\ readB' = 0 /\ recv' = 0 /\ handled' = <<>>
    /\ client' = "open" /\ conn' = "active" /\ cur' = "WAIT_DATA"
    /\ rs' = [EmptyStream EXCEPT !.eof = TRUE]
    /\ wlen' = 0 /\ weof' = TRUE /\ wbad' = FALSE
    /\ UNCHANGED entry

\* The client sends the next segment.
Send ==
    /\ client = "open" /\ conn # "none"
    /\ \E k \in (sentB + 1)..Limit : SegmentEnd(k) /\ sentB' = k
    /\ UNCHANGED <<gen, script, readB, client, recv, handled, conn, cur, rs,
                   wlen, weof, wbad, entry>>

Reset ==
    /\ ResetPossible /\ client = "open" /\ conn # "none"
    /\ client' = "reset"
    /\ UNCHANGED <<gen, script, sentB, readB, recv, handled, conn, cur, rs,
                   wlen, weof, wbad, entry>>

\* One pass of io_process over the connection in a_reqs: the socket is
\* writable while the write buffer is not at eof, readable when bytes are
\* pending or after a reset.  connection_write, then connection_read
\* (process_data on the I/O thread for data, CLOSING on a read error); a
\* connection that is not CLOSING goes to the worker queue.
\* Mutant: the connection is not subscribed to 'ready to write'.
IoReadyMut ==
    /\ conn = "active" /\ ~(cur = "CLOSING" /\ weof)
    /\ sentB > readB \/ client = "reset"

IoReady ==
    /\ conn = "active" /\ ~(cur = "CLOSING" /\ weof)
    /\ ~weof \/ sentB > readB \/ client = "reset"

IoEvent ==
    /\ IoReady
    /\ LET w == ~weof
           r == sentB > readB \/ client = "reset"
       IN /\ \E o \in IF w THEN WriteOutcomes
                      ELSE {[len |-> wlen, eof |-> weof, bad |-> wbad, sent |-> 0]} :
               /\ recv' = recv + o.sent
               /\ IF r /\ client # "reset"
                  THEN LET c == ProcessData(Write(Clear(rs), SubSeq(Bytes, readB + 1, sentB)),
                                            [len |-> o.len, ok |-> TRUE])
                       IN /\ \E s2 \in DiscardOutcomes(c.st) : rs' = s2
                          /\ cur' = IF c.ret = "close" THEN "CLOSING" ELSE cur
                          /\ entry' = c.entry
                          /\ handled' = handled \o c.views
                          /\ wlen' = c.out.len /\ weof' = FALSE /\ wbad' = FALSE
                          /\ readB' = sentB
                  ELSE /\ cur' = IF r THEN "CLOSING" ELSE cur
                       /\ wlen' = o.len /\ weof' = o.eof /\ wbad' = o.bad
                       /\ UNCHANGED <<rs, entry, handled, readB>>
    /\ conn' = IF cur' = "CLOSING" THEN "active" ELSE "queued"
    /\ UNCHANGED <<gen, script, sentB, client>>

\* working_process: process_data again, on the buffers as the I/O thread
\* left them; the connection goes back to a_reqs.
WorkerCall ==
    /\ conn = "queued"
    /\ LET c == ProcessData(rs, [len |-> wlen, ok |-> ~weof /\ ~wbad])
       IN /\ rs' = c.st /\ entry' = c.entry
          /\ handled' = handled \o c.views
          /\ wlen' = c.out.len
          /\ cur' = IF c.ret = "close" THEN "CLOSING" ELSE cur
    /\ conn' = "active"
    /\ UNCHANGED <<gen, script, sentB, readB, client, recv, weof, wbad>>

\* Mutant: a CLOSING connection is disconnected only once its write
\* buffer has been drained.
DisconnectMut ==
    /\ conn = "active" /\ cur = "CLOSING" /\ weof /\ wlen = 0
    /\ conn' = "none"
    /\ client' = IF client = "open" THEN "closed" ELSE client
    /\ UNCHANGED <<gen, script, sentB, readB, recv, handled, cur, rs, wlen,
                   weof, wbad, entry>>

\* disconnect_client, when io_process rebuilds its fd sets.
Disconnect ==
    /\ conn = "active" /\ cur = "CLOSING" /\ weof
    /\ conn' = "none"
    /\ client' = IF client = "open" THEN "closed" ELSE client
    /\ UNCHANGED <<gen, script, sentB, readB, recv, handled, cur, rs, wlen,
                   weof, wbad, entry>>

Init ==
    /\ gen = 0 /\ script = <<>> /\ sentB = 0 /\ readB = 0
    /\ client = "closed" /\ recv = 0 /\ handled = <<>>
    /\ conn = "none" /\ cur = "WAIT_DATA" /\ rs = EmptyStream
    /\ wlen = 0 /\ weof = TRUE /\ wbad = FALSE /\ entry = NoReq

Next == Connect \/ Send \/ Reset \/ IoEvent \/ WorkerCall \/ Disconnect

\* Weak fairness of IoEvent and WorkerCall, written out: WF_vars(A) is
\* []<>~ENABLED <<A>>_vars \/ []<><<A>>_vars, and ENABLED is replaced by
\* the action's guard.  IoEvent and
\* WorkerCall are enabled exactly when their guards hold (process_data
\* always returns, Assert in ProcessData, and each step changes conn,
\* weof, wlen, wbad or readB), and TLC evaluates ENABLED of the recursive
\* loop without caching its arguments.
IoFair == []<>~IoReady \/ []<><<IoEvent>>_vars
WorkerFair == []<>(conn # "queued") \/ []<><<WorkerCall>>_vars

\* The I/O thread visits every ready connection on each 10 ms pass, and a
\* queued connection is taken by a worker (TcpServer: DataConsumed,
\* QueuedServiced); clients are not obliged to do anything.
Spec == /\ Init /\ [][Next]_vars
        /\ IoFair /\ WorkerFair
        /\ WF_vars(Disconnect)

-----------------------------------------------------------------------------
(* Properties.                                                             *)

Streams == [buf : Seq({"M", "H", "K", "L", "b", NL}), g : Nat,
            eof : BOOLEAN, fail : BOOLEAN]

TypeOK ==
    /\ gen \in 0..MaxConns /\ script \in Seq(Shapes)
    /\ sentB \in 0..Len(Bytes) /\ readB \in 0..sentB
    /\ client \in {"open", "reset", "closed"} /\ recv \in Nat
    /\ conn \in {"none", "active", "queued"} /\ cur \in {"WAIT_DATA", "CLOSING"}
    /\ rs \in Streams /\ rs.g <= Len(rs.buf)
    /\ wlen \in Nat /\ weof \in BOOLEAN /\ wbad \in BOOLEAN

\* Spec P1 and section 4.4: the requests request_handler is given on a
\* connection are the client's requests, in order, each once, with the
\* client's request line, headers and body, however TCP cut them into
\* segments and whatever the I/O thread and the worker did in between.
RequestsFramed ==
    IsPrefix(handled, [i \in 1..Len(script) |-> View(script[i], gen)])

\* Once a connection is gone, http_server keeps no request record for its
\* descriptor: the next connection that gets the descriptor starts clean.
FdStateReleased == conn = "none" => entry = NoReq

\* Every request the client has sent in full is answered on its
\* connection, unless the client resets it.
RequestsAnswered ==
    \A g \in 1..MaxConns, i \in 1..MaxReqs :
        (gen = g /\ client = "open" /\ i <= Len(script) /\ sentB >= End(i))
          ~> (gen = g /\ (recv >= i \/ client = "reset"))

\* A connection the client reset is eventually disconnected: the read
\* error marks it CLOSING and the failed write brings its write buffer to
\* eof.
ResetReleased == client = "reset" ~> conn = "none"

=============================================================================
