----------------------------- MODULE HttpHeaders -----------------------------
(***************************************************************************)
(* The headers, cookies and method names of dbp::http_header and its      *)
(* subclasses (http_header.h, http_header.cpp), as operators on a message *)
(* record [hdrs, cookies].  hdrs is the std::map under ci_less: a set of   *)
(* [key, value] entries no two of which are equivalent under ci_less.     *)
(* A cookie is an http_cookie without its expires field: the datetime     *)
(* conversions are not modelled, so "expires" attributes are parsed and  *)
(* dropped, and no cookie built by the model has an expiry.               *)
(***************************************************************************)
EXTENDS Naturals, Sequences, SequencesExt, StrUtils

\* Keys equivalent under ci_less: neither orders before the other.
CiEquiv(a, b) == ~CiLess(a, b) /\ ~CiLess(b, a)

NoHeaders == {}

\* headers[key] = value: the entry equivalent to key keeps its spelling
\* and takes the value; otherwise a new entry is inserted.
MapAssign(h, k, v) ==
    IF \E e \in h : CiEquiv(e.key, k)
    THEN {IF CiEquiv(e.key, k) THEN [e EXCEPT !.value = v] ELSE e : e \in h}
    ELSE h \cup {[key |-> k, value |-> v]}

\* get_header(key): the value of the equivalent entry, "" if none.
GetHeader(h, k) ==
    IF \E e \in h : CiEquiv(e.key, k)
    THEN (CHOOSE e \in h : CiEquiv(e.key, k)).value ELSE ""

\* http_cookie(): name, value, domain and path empty, both flags false.
NoCookie == [name |-> "", value |-> "", domain |-> "", path |-> "",
             secure |-> FALSE, httpOnly |-> FALSE]

\* One ';'-separated field of a cookie string, split at its first '='
\* (tokenize's non-greedy pair form) and trimmed.  The attribute names
\* are compared case-sensitively; any other field sets name and value.
CookieField(c, f) ==
    LET pr == SplitPair(f, FALSE, {"="})
        p == Trim(pr.left)
        v == Trim(pr.right)
    IN CASE p = "expires"  -> c
         [] p = "domain"   -> [c EXCEPT !.domain = v]
         [] p = "path"     -> [c EXCEPT !.path = v]
         [] p = "secure"   -> [c EXCEPT !.secure = TRUE]
         [] p = "HttpOnly" -> [c EXCEPT !.httpOnly = TRUE]
         [] OTHER          -> [c EXCEPT !.name = p, !.value = v]

\* http_cookie(const string &cookie).
ParseCookie(s) == FoldLeft(CookieField, NoCookie, Tokenize(s, {";"}))

\* http_cookie::str(): empty for a cookie without a name.
CookieStr(c) ==
    IF c.name = "" THEN ""
    ELSE c.name \o "=" \o c.value
         \o (IF c.domain # "" THEN "; domain=" \o c.domain ELSE "")
         \o (IF c.path # "" THEN "; path=" \o c.path ELSE "")
         \o (IF c.secure THEN "; secure" ELSE "")
         \o (IF c.httpOnly THEN "; HttpOnly" ELSE "")

EmptyMessage == [hdrs |-> NoHeaders, cookies |-> <<>>]

\* http_header::set_header(key, value): a Cookie header is a list of
\* cookies, a Set-Cookie header one cookie (both compared
\* case-insensitively); any other key is assigned in the map.
SetHeaderKV(m, k, v) ==
    CASE Compare(k, "Cookie") ->
             LET t == Tokenize(v, {";"})
             IN [m EXCEPT !.cookies = @ \o [i \in 1..Len(t) |-> ParseCookie(t[i])]]
      [] Compare(k, "Set-Cookie") -> [m EXCEPT !.cookies = Append(@, ParseCookie(v))]
      [] OTHER -> [m EXCEPT !.hdrs = MapAssign(@, k, v)]

\* Mutant: the line is split at its last ':'.
SetHeaderLineMut(m, line) ==
    LET p == FindLastOf(line, {":"})
    IN IF p = 0 THEN m
       ELSE SetHeaderKV(m, Trim(SubSeq(line, 1, p - 1)), Trim(SubSeq(line, p + 1, Len(line))))

\* http_header::set_header(header): split at the first ':' and trimmed; a
\* line without ':' is ignored.
SetHeaderLine(m, line) ==
    LET p == Find(line, ":")
    IN IF p = 0 THEN m
       ELSE SetHeaderKV(m, Trim(SubSeq(line, 1, p - 1)), Trim(SubSeq(line, p + 1, Len(line))))

-----------------------------------------------------------------------------
(* Writing and reading a message.                                         *)

CRLF == "\r\n"

RECURSIVE Concat(_)
Concat(ss) == IF ss = <<>> THEN "" ELSE Head(ss) \o Concat(Tail(ss))

\* The header lines of operator<<, in the map's ci_less order.
HeaderText(h) ==
    LET es == SetToSortSeq(h, LAMBDA a, b : CiLess(a.key, b.key))
    IN Concat([i \in 1..Len(es) |-> es[i].key \o ": " \o es[i].value \o CRLF])

\* operator<<(ostream, http_request): the headers, then one Cookie line
\* of name=value pairs joined by "; " when that string is not empty, then
\* the blank line.
RequestText(m) ==
    LET cs == m.cookies
        s == Concat([i \in 1..Len(cs) |->
                        cs[i].name \o "=" \o cs[i].value \o (IF i < Len(cs) THEN "; " ELSE "")])
    IN HeaderText(m.hdrs) \o (IF s # "" THEN "Cookie: " \o s \o CRLF ELSE "") \o CRLF

\* operator<<(ostream, http_response): the headers, a Set-Cookie line per
\* cookie, then the blank line.
ResponseText(m) ==
    HeaderText(m.hdrs)
    \o Concat([i \in 1..Len(m.cookies) |-> "Set-Cookie: " \o CookieStr(m.cookies[i]) \o CRLF])
    \o CRLF

\* http_server::process_data in WAIT_HEADER: getline up to '\n', then
\* set_header(trim(line)), until a line that trims to empty.
RECURSIVE ReadHeaders(_, _)
ReadHeaders(m, text) ==
    LET nl == Find(text, "\n")
        line == IF nl = 0 THEN text ELSE SubSeq(text, 1, nl - 1)
    IN IF nl = 0 \/ Trim(line) = "" THEN m
       ELSE ReadHeaders(SetHeaderLine(m, Trim(line)), SubSeq(text, nl + 1, Len(text)))

-----------------------------------------------------------------------------
(* Method names.  The enumerators are written as their lower-case names.   *)

\* http_method::convert, string to method: the table, unknown otherwise.
MethodOf ==
    [GET |-> "get", PUT |-> "put", POST |-> "post", DELETE |-> "del",
     CONNECT |-> "connect", OPTIONS |-> "options", TRACE |-> "trace",
     PATCH |-> "patch", PROPFIND |-> "propfind", PROPPATCH |-> "proppatch",
     MKCOL |-> "mkcol", COPY |-> "copy", MOVE |-> "move", LOCK |-> "lock",
     UNLOCK |-> "unlock", VERSION_CONTROL |-> "version_control",
     CHECKOUT |-> "checkout", UNCHECKOUT |-> "uncheckout",
     CHECKIN |-> "checkin", UPDATE |-> "update", LABEL |-> "label",
     REPORT |-> "report", MKWORKSPACE |-> "mkworkspace",
     MKACTIVITY |-> "mkactivity", BASELINE_CONTROL |-> "baseline_control",
     MERGE |-> "merge", HEAD |-> "head"]
StrToMethod(s) == IF s \in DOMAIN MethodOf THEN MethodOf[s] ELSE "unknown"

\* http_method::convert, method to string: the second table, "" for
\* unknown.
NameOf ==
    [get |-> "GET", put |-> "PUT", post |-> "POST", del |-> "DELETE",
     connect |-> "CONNECT", options |-> "OPTIONS", trace |-> "TRACE",
     patch |-> "PATCH", propfind |-> "PROPFIND", proppatch |-> "PROPPATCH",
     mkcol |-> "MKCOL", copy |-> "COPY", move |-> "MOVE", lock |-> "LOCK",
     unlock |-> "UNLOCK", version_control |-> "VERSION_CONTROL",
     checkout |-> "CHECKOUT", uncheckout |-> "UNCHECKOUT",
     checkin |-> "CHECKIN", update |-> "UPDATE", label |-> "LABEL",
     report |-> "REPORT", mkworkspace |-> "MKWORKSPACE",
     mkactivity |-> "MKACTIVITY", baseline_control |-> "BASELINE_CONTROL",
     merge |-> "MERGE", head |-> "HEAD"]
MethodToStr(meth) == IF meth = "unknown" THEN "" ELSE NameOf[meth]

\* http_response::set_allow and get_allow.
SetAllow(m, meth) == [m EXCEPT !.hdrs = MapAssign(@, "Allow", MethodToStr(meth))]
GetAllow(m) ==
    IF \E e \in m.hdrs : CiEquiv(e.key, "Allow")
    THEN StrToMethod(GetHeader(m.hdrs, "Allow")) ELSE "unknown"
=============================================================================
