---------------------------- MODULE StringStream ----------------------------
(***************************************************************************)
(* The std::stringstream operations that tcp_server and http_server apply  *)
(* to a connection's read buffer, as libstdc++ (C++11) implements them.   *)
(* A stream is a record: buf, the characters written so far; g, the get   *)
(* position (0-based); eof and fail, its state bits.  The put position is *)
(* always the end of buf: the code only appends, or resets with str("").  *)
(*                                                                         *)
(* The rules that matter here:                                             *)
(*  - an input function first builds a sentry; on a stream that is not    *)
(*    good() the sentry sets failbit and the function does nothing;       *)
(*  - getline sets eofbit when it reaches the end, and failbit as well    *)
(*    when it extracted no character;                                     *)
(*  - tellg builds a sentry, so on a stream with eofbit it sets failbit;  *)
(*    it returns -1 on a failed stream;                                    *)
(*  - seekg first clears eofbit (N3168), then does nothing on a failed    *)
(*    stream; a position outside the buffer sets failbit;                  *)
(*  - tellp returns -1 on a failed stream and the put position otherwise. *)
(* The text is abstract: "N" is the newline character, any other value    *)
(* is some other character.                                               *)
(***************************************************************************)
EXTENDS Naturals, Sequences, SequencesExt

NL == "N"

\* A stream constructed empty.
EmptyStream == [buf |-> <<>>, g |-> 0, eof |-> FALSE, fail |-> FALSE]

Good(s) == ~s.eof /\ ~s.fail

\* clear(): every state bit reset.
Clear(s) == [s EXCEPT !.eof = FALSE, !.fail = FALSE]

\* write(data): appended at the put position, unless the stream is bad
\* (the callers always clear() first).
Write(s, data) == [s EXCEPT !.buf = @ \o data]

\* The value tellg() returns, and the stream after the call.
TellG(s) == IF Good(s) THEN s.g ELSE -1
AfterTellG(s) == IF Good(s) THEN s ELSE [s EXCEPT !.fail = TRUE]

\* The value tellp() returns.
TellP(s) == IF s.fail THEN -1 ELSE Len(s.buf)

\* seekg(pos) to an absolute position.
SeekG(s, pos) ==
    LET s1 == [s EXCEPT !.eof = FALSE]
    IN IF s1.fail THEN s1
       ELSE IF pos \in 0..Len(s.buf) THEN [s1 EXCEPT !.g = pos]
       ELSE [s1 EXCEPT !.fail = TRUE]

\* The characters not yet extracted.
Rest(s) == SubSeq(s.buf, s.g + 1, Len(s.buf))

\* std::getline(s, line): the extracted line (without its newline) and
\* the stream after the call.
GetLine(s) ==
    LET rest == Rest(s)
        i == SelectInSeq(rest, LAMBDA ch : ch = NL)
    IN IF ~Good(s)
       THEN [line |-> <<>>, st |-> [s EXCEPT !.fail = TRUE]]
       ELSE IF i > 0
       THEN [line |-> SubSeq(rest, 1, i - 1), st |-> [s EXCEPT !.g = @ + i]]
       ELSE [line |-> rest,
             st |-> [s EXCEPT !.g = Len(s.buf), !.eof = TRUE,
                              !.fail = (rest = <<>>)]]

\* read(n) of exactly the n characters that remain: no state bit is set.
ReadAll(s) == [s EXCEPT !.g = Len(s.buf)]

\* str(string()): the buffer and both positions reset, state bits kept.
StrEmpty(s) == [s EXCEPT !.buf = <<>>, !.g = 0]

=============================================================================
