----------------------------- MODULE HttpHeader -----------------------------
(***************************************************************************)
(* The content buffer of dbp::http_header (http_header.h, .cpp): a        *)
(* std::vector<char> kept with a trailing 0, and the Content-Length       *)
(* header that the content mutators rewrite.  The bytes themselves are     *)
(* abstracted away: a buffer is its size, its capacity and the value of   *)
(* Content-Length (clSet is FALSE before the first mutation).  The capacity     *)
(* follows libstdc++'s growth rule (_M_check_len: a reallocation for n    *)
(* more elements grows to size + max(size, n)), so that a write past the  *)
(* end can be told apart as landing in spare capacity ("slack") or beyond *)
(* the allocation ("heap").                                                *)
(***************************************************************************)
EXTENDS Naturals, StringStream

\* A freshly constructed header: empty content, no Content-Length.
NoContent == [size |-> 0, cap |-> 0, clSet |-> FALSE, cl |-> 0, oob |-> "none"]

LOCAL Larger(a, b) == IF a >= b THEN a ELSE b

\* Room for n more elements: the capacity after the reallocation, if any.
Grown(c, n) == IF c.size + n <= c.cap THEN c.cap ELSE c.size + Larger(c.size, n)

\* reserve(m).
Reserve(c, m) == [c EXCEPT !.cap = Larger(@, m)]

\* push_back(0), insert(begin, n elements), resize(m) with m >= size.
PushBack(c) == [c EXCEPT !.cap = Grown(c, 1), !.size = @ + 1]
InsertFront(c, n) == [c EXCEPT !.cap = Grown(c, n), !.size = @ + n]
Resize(c, m) == [c EXCEPT !.cap = Grown(c, m - c.size), !.size = m]

\* A store at index i: where it lands.  The worst one is remembered.
Store(c, i) ==
    LET where == IF i < c.size THEN "none" ELSE IF i < c.cap THEN "slack" ELSE "heap"
    IN [c EXCEPT !.oob = IF @ = "heap" \/ where = "none" THEN @ ELSE where]

\* get_content_size(): the size without the trailing 0.
ContentSize(c) == IF c.size = 0 THEN 0 ELSE c.size - 1

\* set_content(value_size, value): the value is inserted in front of the
\* current content, a 0 appended and Content-Length set to value_size.
SetContent(c, n) ==
    LET c1 == IF n > 0 THEN InsertFront(Reserve(c, n + 1), n) ELSE c
    IN [PushBack(c1) EXCEPT !.clSet = TRUE, !.cl = n]

\* Mutant: Content-Length counts the trailing 0.
AddContentNMut(c, n) ==
    LET c0 == IF c.size = 0 THEN PushBack(c) ELSE c
        old == c0.size
        c1 == Resize(c0, old + n)
    IN IF n > 0
       THEN [Store(c1, old + n) EXCEPT !.clSet = TRUE, !.cl = old + n]
       ELSE [c0 EXCEPT !.clSet = TRUE, !.cl = 0]

\* Mutant: the bytes are stored without resize(), past the vector's size.
AddContentNoResize(c, n) ==
    LET c0 == IF c.size = 0 THEN PushBack(c) ELSE c
        old == c0.size
        c1 == [c0 EXCEPT !.size = old + n]
    IN IF n > 0
       THEN [Store(c1, old + n) EXCEPT !.clSet = TRUE, !.cl = old + n - 1]
       ELSE [c0 EXCEPT !.clSet = TRUE, !.cl = 0]

\* add_content(value_size, value): the new bytes overwrite the trailing 0
\* and run on; content[oldsize + value_size] = 0 is then stored at index
\* size, one past the end.
AddContentN(c, n) ==
    LET c0 == IF c.size = 0 THEN PushBack(c) ELSE c
        old == c0.size
        c1 == Resize(c0, old + n)
    IN IF n > 0
       THEN [Store(c1, old + n) EXCEPT !.clSet = TRUE, !.cl = old + n - 1]
       ELSE [c0 EXCEPT !.clSet = TRUE, !.cl = 0]

\* add_content(istream): the size of what remains is measured with
\* tellg/seekg; when nothing remains eofbit is set, otherwise all of it is
\* read into the content.  On a failed stream both tellg() calls return
\* -1 and the measured size is 0.
AddContent(c, s) ==
    IF Good(s) /\ Len(s.buf) > s.g
    THEN [c |-> AddContentN(c, Len(s.buf) - s.g), st |-> ReadAll(s)]
    ELSE [c |-> c, st |-> [s EXCEPT !.eof = TRUE]]

=============================================================================
