--------------------------------- MODULE Url ---------------------------------
(***************************************************************************)
(* dbp::url (url.h, url.cpp): a URL object whose public fields are set by  *)
(* parse (the constructors call it), copy_from and normalize, and read by  *)
(* get_full_path and str.  encode and decode are const methods, modelled  *)
(* as operators on byte sequences.                                         *)
(*                                                                         *)
(* Strings are TLA+ strings; TLC evaluates Len, SubSeq and \o on them.     *)
(* getservbyname is the constant function Services from a scheme to its    *)
(* port.  The WIN32 branches (backslash replacement) are not compiled on   *)
(* POSIX and are left out.                                                 *)
(***************************************************************************)
EXTENDS Naturals, Sequences, FiniteSets, StrUtils

CONSTANTS
    Services,   \* getservbyname(scheme, "tcp"): [known schemes -> port]
    Inputs,     \* strings passed to url(value)
    Reparses,   \* strings passed to parse or copy_from on a used object
    Bases,      \* base paths passed to normalize
    MaxOps,     \* bound: operations on the object after its construction
    Bytes,      \* byte values of the strings passed to encode
    MaxBytes    \* bound: length of those strings

VARIABLES
    u,          \* the url object's fields
    last,       \* the operation that produced u
    ops         \* operations applied since construction

vars == <<u, last, ops>>

-----------------------------------------------------------------------------
(* The url object.                                                         *)

EmptyUrl == [scheme |-> "", user |-> "", password |-> "", host |-> "",
             port |-> 0, path |-> "", query |-> "", fragment |-> "",
             parameters |-> ""]

\* Splits s at the first c: the part before it and the part after it.
Before(s, p) == SubSeq(s, 1, p - 1)
After(s, p) == SubSeq(s, p + 1, Len(s))

\* parse(), the scheme and host: a scheme is taken only when ':' is past
\* the third character and followed by "//"; the host runs to the first
\* '/'.  Fields parse does not reach keep the object's old values.
ParseScheme(o, v) ==
    LET p == Find(v, ":")
        has == p > 3 /\ Len(v) > p + 1 /\ At(v, p + 1) = "/" /\ At(v, p + 2) = "/"
        scheme == IF has THEN Before(v, p) ELSE ""
        t == IF has THEN SubSeq(v, p + 3, Len(v)) ELSE v
        sl == Find(t, "/")
    IN IF scheme = "" THEN [url |-> [o EXCEPT !.scheme = ""], rest |-> t]
       ELSE [url |-> [o EXCEPT !.scheme = scheme,
                               !.host = IF sl = 0 THEN t ELSE Before(t, sl)],
             rest |-> IF sl = 0 THEN "" ELSE SubSeq(t, sl, Len(t))]

\* parse(), for a scheme other than "file": the service port, then
\* user[:password]@ and :port split off the host.
ParseAuthority(o) ==
    LET port0 == IF o.scheme \in DOMAIN Services THEN Services[o.scheme] ELSE o.port
        a == Find(o.host, "@")
        info == Before(o.host, a)
        c == Find(info, ":")
        o1 == IF a = 0 THEN [o EXCEPT !.port = port0]
              ELSE [o EXCEPT !.port = port0, !.host = After(o.host, a),
                             !.user = IF c = 0 THEN info ELSE Before(info, c),
                             !.password = IF c = 0 THEN o.password ELSE After(info, c)]
        q == Find(o1.host, ":")
        num == After(o1.host, q)
    IN IF q = 0 THEN o1
       ELSE [o1 EXCEPT !.host = Before(o1.host, q),
                       !.port = IF Len(num) > 0 THEN StrToL(num) ELSE o1.port]

\* parse(), for a scheme other than "file": ";parameters", then
\* "#fragment", then "?query" are cut off the end of the rest.
ParseFullPath(o, t) ==
    LET s == Find(t, ";")
        t1 == IF s = 0 THEN t ELSE Before(t, s)
        h == Find(t1, "#")
        t2 == IF h = 0 THEN t1 ELSE Before(t1, h)
        q == Find(t2, "?")
    IN [url |-> [o EXCEPT !.parameters = IF s = 0 THEN @ ELSE After(t, s),
                          !.fragment = IF h = 0 THEN @ ELSE After(t1, h),
                          !.query = IF q = 0 THEN @ ELSE After(t2, q)],
        rest |-> IF q = 0 THEN t2 ELSE Before(t2, q)]

\* url::parse: what is left is the path, made to start with '/'.
ParseUrl(o, v) ==
    LET r1 == ParseScheme(o, v)
        net == r1.url.scheme \notin {"", "file"}
        r2 == IF net THEN ParseFullPath(ParseAuthority(r1.url), r1.rest) ELSE r1
    IN [r2.url EXCEPT !.path = IF r2.rest = "" \/ At(r2.rest, 1) # "/"
                               THEN "/" \o r2.rest ELSE r2.rest]

\* Mutant: the fragment is written before the query.
GetFullPathMut(o) ==
    o.path \o (IF o.fragment = "" THEN "" ELSE "#" \o o.fragment)
           \o (IF o.query = "" THEN "" ELSE "?" \o o.query)
           \o (IF o.parameters = "" THEN "" ELSE ";" \o o.parameters)

\* url::get_full_path.
GetFullPath(o) ==
    o.path \o (IF o.query = "" THEN "" ELSE "?" \o o.query)
           \o (IF o.fragment = "" THEN "" ELSE "#" \o o.fragment)
           \o (IF o.parameters = "" THEN "" ELSE ";" \o o.parameters)

\* url::str: the port is written only when the scheme has a service and
\* the port differs from it; an empty result is "/".
Str(o) ==
    LET s == (IF o.scheme = "" THEN "" ELSE o.scheme \o "://")
             \o (IF o.user = "" THEN ""
                 ELSE o.user \o (IF o.password = "" THEN ""
                                 ELSE ":" \o o.password \o "@"))
             \o (IF o.host = "" THEN ""
                 ELSE o.host \o (IF o.port > 0 /\ o.scheme \in DOMAIN Services
                                    /\ Services[o.scheme] # o.port
                                 THEN ":" \o ToDecimal(o.port) ELSE ""))
             \o GetFullPath(o)
    IN IF s = "" THEN "/" ELSE s

\* url::copy_from: every non-empty field (positive port) of w replaces
\* the object's.
CopyFromUrl(o, w) ==
    [f \in DOMAIN o |->
        IF (f = "port" /\ w.port > 0) \/ (f # "port" /\ w[f] # "") THEN w[f] ELSE o[f]]

\* url::normalize: the leading '/' of the path is dropped, the path is
\* appended to base, and the tokens are walked from the last: ".." skips
\* the next name, "." is dropped, an empty token (a '/' at the start, a
\* "//", a trailing '/') ends the walk.
NormalizePath(path, base) ==
    LET p == IF Len(path) > 0 /\ At(path, 1) \in {"/", "\\"}
             THEN SubSeq(path, 2, Len(path)) ELSE path
        v == Tokenize(base \o p, {"/"})
        RECURSIVE Walk(_, _, _)
        Walk(i, s, acc) ==
            IF i = 0 \/ v[i] = "" THEN acc
            ELSE IF v[i] = ".." THEN Walk(i - 1, s + 1, acc)
            ELSE IF v[i] = "." THEN Walk(i - 1, s, acc)
            ELSE IF s > 0 THEN Walk(i - 1, s - 1, acc)
            ELSE Walk(i - 1, s, "/" \o v[i] \o acc)
    IN Walk(Len(v), 0, "")

\* (EscapedMut: the range below '0' is not escaped.)
\* url::encode: every byte below '0', between ':' and 'A', between '['
\* and 'a', or above '{' becomes '%' and two upper-case hex digits.
EscapedMut(c) == (c > 58 /\ c < 65) \/ (c > 91 /\ c < 97) \/ c > 123
Escaped(c) == c < 48 \/ (c > 58 /\ c < 65) \/ (c > 91 /\ c < 97) \/ c > 123
HexChar(d) == IF d < 10 THEN 48 + d ELSE 55 + d

RECURSIVE Encode(_)
Encode(s) ==
    IF s = <<>> THEN <<>>
    ELSE (IF Escaped(Head(s))
          THEN <<37, HexChar(Head(s) \div 16), HexChar(Head(s) % 16)>>
          ELSE <<Head(s)>>) \o Encode(Tail(s))

\* url::decode: '%' followed by two hex digits (isxdigit) is the byte
\* strtol reads from them, '+' is a blank, any other byte is itself.
IsXDigit(c) == c \in (48..57) \cup (65..70) \cup (97..102)
XValue(c) == IF c <= 57 THEN c - 48 ELSE IF c <= 70 THEN c - 55 ELSE c - 87

RECURSIVE Decode(_)
Decode(s) ==
    IF s = <<>> THEN <<>>
    ELSE IF Head(s) = 37 /\ Len(s) > 2 /\ IsXDigit(s[2]) /\ IsXDigit(s[3])
    THEN <<16 * XValue(s[2]) + XValue(s[3])>> \o Decode(SubSeq(s, 4, Len(s)))
    ELSE <<IF Head(s) = 43 THEN 32 ELSE Head(s)>> \o Decode(Tail(s))

-----------------------------------------------------------------------------
(* Operations on one url object.                                           *)

Init == /\ u = EmptyUrl /\ last = "none" /\ ops = 0

\* url(value): the object is constructed from value.
Construct(v) ==
    /\ last = "none"
    /\ u' = ParseUrl(EmptyUrl, v)
    /\ last' = "construct" /\ ops' = 0

\* u.parse(value) on an object that already holds a URL.
Parse(v) ==
    /\ ops < MaxOps
    /\ u' = ParseUrl(u, v)
    /\ last' = "parse" /\ ops' = ops + 1

\* u.copy_from(url(value)).
CopyFrom(v) ==
    /\ ops < MaxOps
    /\ u' = CopyFromUrl(u, ParseUrl(EmptyUrl, v))
    /\ last' = "copy" /\ ops' = ops + 1

\* u.normalize(base).
Normalize(b) ==
    /\ ops < MaxOps
    /\ u' = [u EXCEPT !.path = NormalizePath(u.path, b)]
    /\ last' = "normalize" /\ ops' = ops + 1

Next ==
    \/ \E v \in Inputs : Construct(v)
    \/ \E v \in Reparses : Parse(v) \/ CopyFrom(v)
    \/ \E b \in Bases : Normalize(b)

Spec == Init /\ [][Next]_vars

-----------------------------------------------------------------------------
(* Properties.                                                             *)

\* The full path get_full_path writes is taken apart again by parse: for
\* a URL constructed with a network scheme, parsing scheme://host followed
\* by its get_full_path() gives the same path, query, fragment and
\* parameters.  get_full_path writes ?query#fragment;parameters and parse
\* cuts ';', then '#', then '?', so the two orders must agree.
FullPathRoundTrip ==
    last = "construct" /\ u.scheme \notin {"", "file"} =>
        LET w == ParseUrl(EmptyUrl, u.scheme \o "://" \o u.host \o GetFullPath(u))
        IN /\ w.path = u.path /\ w.query = u.query
           /\ w.fragment = u.fragment /\ w.parameters = u.parameters

\* decode undoes encode: every byte string, '%' and '+' among its bytes,
\* comes back from decode(encode(s)) unchanged (test_url checks one such
\* string).  encode and decode read no field of the object, so this is
\* evaluated once, in the initial state.
CodecRoundTrip ==
    last = "none" =>
    \A s \in UNION {[1..n -> Bytes] : n \in 0..MaxBytes} : Decode(Encode(s)) = s

\* url::str writes a URL parse reads back as the same object: str() of
\* a parsed URL follows the grammar of url.h,
\* scheme://[user[:password]@]host[:port]/full_path.
StrReparses ==
    last = "construct" => ParseUrl(EmptyUrl, Str(u)) = u
=============================================================================
