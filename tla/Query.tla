-------------------------------- MODULE Query --------------------------------
(***************************************************************************)
(* dbp::odbc::query (query.h, query.cpp) as a sequential object: parse,   *)
(* prepare, operator<< with the flush marker, and execute.  A query is a   *)
(* record of the statement text handed to the driver (q), the parameter   *)
(* vector, the operator<< counter _prmcnt, the field vector, and a log of *)
(* what each SQLExecute received.  The driver is abstracted: every call   *)
(* succeeds, and the columns a statement returns are given with the call  *)
(* that executes it.  A call that throws ends the program (err).          *)
(***************************************************************************)
EXTENDS Integers, Sequences, SequencesExt, StrUtils

\* isalnum in the C locale, or '_'.
NameChar(c) == Ord(c) \in (48..57) \cup (65..90) \cup (97..122) \/ c = "_"

\* The first position at or after i that does not continue a name.
RECURSIVE NameEnd(_, _)
NameEnd(s, i) == IF i <= Len(s) /\ NameChar(At(s, i)) THEN NameEnd(s, i + 1) ELSE i

\* The loop of query::parse from position i, with the two quote flags, the
\* text built so far and the parameter names found so far ("" for '?').
RECURSIVE ParseFrom(_, _, _, _, _, _)
ParseFrom(s, i, ssq, dsq, q, ps) ==
    IF i > Len(s) THEN [q |-> q, names |-> ps]
    ELSE LET c == At(s, i)
             out == ~ssq /\ ~dsq
         IN CASE c = "'"  -> ParseFrom(s, i + 1, ~ssq, dsq, q \o c, ps)
              [] c = "\"" -> ParseFrom(s, i + 1, ssq, ~dsq, q \o c, ps)
              [] c = "?"  -> ParseFrom(s, i + 1, ssq, dsq, q \o c,
                                       IF out THEN Append(ps, "") ELSE ps)
              [] c = ":" /\ out ->
                     LET e == NameEnd(s, i + 1)
                     IN ParseFrom(s, e, ssq, dsq, q \o "?", Append(ps, SubSeq(s, i + 1, e - 1)))
              [] OTHER -> ParseFrom(s, i + 1, ssq, dsq, q \o c, ps)

\* query::parse: ':name' outside quotes becomes '?'; every marker outside
\* quotes is a parameter, named or not.
QueryParse(s) == ParseFrom(s, 1, FALSE, FALSE, "", <<>>)

\* A query just constructed.
NewQuery == [q |-> "", params |-> <<>>, prmcnt |-> 0, fields |-> <<>>,
             log |-> <<>>, err |-> FALSE]

\* prepare(statement): _parameters is rebuilt by parse, values empty;
\* _prmcnt and _fields are left as they are.
Prepare(st, s) ==
    LET p == QueryParse(s)
    IN [st EXCEPT !.q = p.q,
                  !.params = [i \in 1..Len(p.names) |-> [name |-> p.names[i], value |-> ""]]]

\* execute(): each parameter is bound, an empty value as NULL, then
\* SQLExecute; retrieve_metadata appends the result's columns to _fields.
Execute(st, cols) ==
    [st EXCEPT !.log = Append(@, [stmt |-> st.q,
                                  values |-> [i \in DOMAIN st.params |->
                                      IF st.params[i].value = "" THEN "NULL"
                                      ELSE st.params[i].value]]),
               !.fields = @ \o cols]

\* set_parameter(num, string): _parameters.at(num) throws out_of_range
\* for a position past the end (or a negative one).
SetParameter(st, num, v) ==
    IF num \in 0..(Len(st.params) - 1)
    THEN [st EXCEPT !.params[num + 1].value = v]
    ELSE [st EXCEPT !.err = TRUE]

\* Mutant: set_parameter(flush) resets the counter to 0, not -1.
ShlFlushMut(st, cols) ==
    LET s2 == [Execute(st, cols) EXCEPT !.prmcnt = 0] IN [s2 EXCEPT !.prmcnt = @ + 1]

\* operator<<(flush()): set_parameter(flush) executes and sets _prmcnt to
\* -1, then operator<< increments it to 0.
ShlFlush(st, cols) ==
    LET s2 == [Execute(st, cols) EXCEPT !.prmcnt = -1] IN [s2 EXCEPT !.prmcnt = @ + 1]

\* operator<<(value): set_parameter(_prmcnt, value), then _prmcnt++; an
\* int goes through to_string<int>.  A throw skips the increment.
ShlValue(st, v) ==
    LET s2 == SetParameter(st, st.prmcnt, v)
    IN IF s2.err THEN s2 ELSE [s2 EXCEPT !.prmcnt = @ + 1]
ShlInt(st, n) == ShlValue(st, ToDecimal(n))

\* One call of a program: prepare, << of a string or an int, << flush(),
\* or execute(); a throw ends the program.
Call(st, c) ==
    IF st.err THEN st
    ELSE CASE c.op = "prepare" -> Prepare(st, c.arg)
           [] c.op = "str"     -> ShlValue(st, c.arg)
           [] c.op = "int"     -> ShlInt(st, c.arg)
           [] c.op = "flush"   -> ShlFlush(st, c.arg)
           [] OTHER            -> Execute(st, c.arg)
=============================================================================
