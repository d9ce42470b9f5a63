------------------------------- MODULE MC_Url -------------------------------
EXTENDS Url, Base64, Query, AppConfig, HttpContentParser, Connection, CgiApplication, Uuid, Relation

\* getservbyname: "http" has a service, "zzz" has none.
MCServices == [http |-> 80]

\* URLs put together from pieces that reach every branch of parse: a
\* known, an unknown and the "file" scheme, a drive letter and no scheme;
\* no user, a user, a user with a password; no, an empty, a decimal and an
\* octal port; paths with "..", "." and blanks; each of ?query, #fragment,
\* ;parameters, all three, and a fragment holding a '?'.
MCInputs ==
    {a \o b \o "h" \o c \o d \o e :
        a \in {"", "http://", "zzz://", "file://", "c:"},
        b \in {"", "u@", "u:p@"},
        c \in {"", ":", ":8", ":010"},
        d \in {"", "/", "/a/../b", "/./ a /"},
        e \in {"", "?q", "#f", ";p", "?q#f;p", "#f?q"}}

\* Strings parse and copy_from see on an object already in use.
MCReparses == {"http://h/b", "/c?x", "zzz://v:w@g:9/"}

\* Base paths: with and without a trailing '/', and none.
MCBases == {"/r/", "/r", ""}

\* Bytes: the ends of the ranges encode keeps (48, 58, 65, 91, 97, 123),
\* their neighbours, '%', '+', ' ', and bytes above 127.
MCBytes == {32, 37, 43, 47, 48, 58, 59, 65, 70, 91, 92, 97, 102, 123, 124, 213}

\* Byte strings for codec_base64: every length up to MCB64Len, over bytes
\* whose sextets reach both ends of the alphabet ('A', '/', '+' and '=').
MCB64Bytes == {0, 62, 191, 255}
MCB64Len == 7
MCB64Inputs == UNION {[1..n -> MCB64Bytes] : n \in 0..MCB64Len}

\* The base64 operators read no field of the url object: the properties
\* below are evaluated once, in the initial state.

\* codec_base64::decode reads back what encode wrote: every byte string
\* comes back unchanged, whatever its length modulo 3 and wherever the
\* line ends fall.
Base64RoundTrip ==
    last = "none" => \A s \in MCB64Inputs : Decode64(Encode64(s)) = s

\* Without its line ends, encode's output is the RFC 4648 base64 of the
\* input, computed from the bit string (RefBase64).
Base64MatchesRFC ==
    last = "none" => \A s \in MCB64Inputs : Unwrapped(Encode64(s)) = RefBase64(s)

\* encode writes full lines of 4 * LineBlocks characters, then a last
\* shorter, non-empty line, every line ended by a line end, and nothing
\* for an empty input: no empty line when the input fills the last line.
Base64Lines ==
    last = "none" =>
    \A s \in MCB64Inputs :
        LET o == Encode64(s)
            P == {i \in 1..Len(o) : o[i] = NL}
            prev(i) == CHOOSE j \in (P \cup {0}) \cap 0..(i - 1) :
                           \A j2 \in (P \cup {0}) \cap 0..(i - 1) : j2 <= j
        IN /\ (o = <<>>) = (s = <<>>)
           /\ o # <<>> => o[Len(o)] = NL
           /\ \A i \in P : i - prev(i) - 1 = 4 * LineBlocks
                           \/ (i = Len(o) /\ i - prev(i) - 1 \in 1..(4 * LineBlocks))

-----------------------------------------------------------------------------
(* odbc::query: a program of calls on a new query.                        *)

\* Statements in the form the tests write them: '?' markers, ':name'
\* markers, and ':' and '?' inside single- and double-quoted text; with
\* each, the text the driver must receive and its number of markers.
MCStatements ==
    {[text |-> "insert into t (a, b) values (?, ?)",
      sql |-> "insert into t (a, b) values (?, ?)", n |-> 2],
     [text |-> "insert into t values (:id, ?, :value)",
      sql |-> "insert into t values (?, ?, ?)", n |-> 3],
     [text |-> "update t set v = ':v?' where id = :i_d",
      sql |-> "update t set v = ':v?' where id = ?", n |-> 1],
     [text |-> "select \"a:b?\" from t where c = ?",
      sql |-> "select \"a:b?\" from t where c = ?", n |-> 1]}

\* Values given to operator<<: strings (the empty one bound as NULL) and
\* ints.
MCQueryArgs == {[op |-> "str", arg |-> "x"], [op |-> "str", arg |-> ""],
                [op |-> "int", arg |-> 12]}

\* What the driver receives for a value.
Bound(a) == CASE a.op = "int" -> ToDecimal(a.arg)
              [] a.arg = ""   -> "NULL"
              [] OTHER        -> a.arg

Flush == [op |-> "flush", arg |-> <<>>]

\* The query after a program of calls on a new query.
Run(prog) == FoldLeft(Call, NewQuery, prog)

\* The usage of query.h and test_odbc: prepare, then groups of one value
\* per parameter each ended by flush(), so SQLExecute runs once per group
\* on the statement with its named markers rewritten to '?', receiving
\* that group's values in the order they were given, whatever markers
\* and quotes the statement holds.
QueryFlushBinds ==
    last = "none" =>
    \A s \in MCStatements :
        LET n == s.n
        IN \A g1, g2 \in [1..n -> MCQueryArgs] :
              LET G == <<g1, g2>>
                  prog == <<[op |-> "prepare", arg |-> s.text]>>
                          \o g1 \o <<Flush>> \o g2 \o <<Flush>>
              IN Run(prog).log = [k \in 1..2 |-> [stmt |-> s.sql,
                                                  values |-> [i \in 1..n |-> Bound(G[k][i])]]]

-----------------------------------------------------------------------------
(* app_config: loading a main file and the files it includes.             *)

\* main.conf: comments, a section, an octal port, an include of every
\* .inc file in the middle of section db, a value holding '=', and a
\* header without its ']'.
MCMain == <<"# db settings", "[db]", "host = h", "port = 010",
            "@include = *.inc", "user = u=1", "  ; x", "[ misc ", "flag = on">>

\* The included files: one that reassigns db's host, one starting with a
\* line that is not an assignment and an empty header, one including
\* another, one including main.conf back (a cycle), and empty ones.
MCIncA == {<<"x = 1", "[db]", "host = a">>, <<"=bad", "[]", "x = 2", "k==v">>}
MCIncB == {<<"@include = a.inc", "port=0x1F", "x = 3">>, <<"@include = m*">>, <<>>}

MCConfigs == {("main.conf" :> MCMain) @@ ("a.inc" :> a) @@ ("b.inc" :> b) :
                 a \in MCIncA, b \in MCIncB}

\* Reference: the assignments of a file in reading order, an include
\* standing for the assignments of the files it names; each under the
\* header last seen before it in its own file, its key the text before
\* the first '=' past the first character.
RECURSIVE RefEntries(_, _, _)
RefEntries(fs, name, d) ==
    IF d > MaxDepth THEN <<>>
    ELSE
    LET ls == fs[name]
        t(i) == Trim(ls[i])
        assign(i) == t(i) # "" /\ At(t(i), 1) \notin {"#", ";", "["}
                     /\ \E j \in 2..Len(t(i)) : At(t(i), j) = "="
        eq(i) == CHOOSE j \in 2..Len(t(i)) :
                     At(t(i), j) = "=" /\ \A j2 \in 2..(j - 1) : At(t(i), j2) # "="
        key(i) == Trim(SubSeq(t(i), 1, eq(i) - 1))
        val(i) == Trim(SubSeq(t(i), eq(i) + 1, Len(t(i))))
        hdrs(i) == {j \in 1..(i - 1) : t(j) # "" /\ At(t(j), 1) = "["}
        sec(i) == IF hdrs(i) = {} THEN ""
                  ELSE SectionName(t(CHOOSE j \in hdrs(i) : \A j2 \in hdrs(i) : j2 <= j))
        one(i) ==
            IF ~assign(i) THEN <<>>
            ELSE IF key(i) = "@include"
            THEN LET ns == Glob(fs, val(i))
                 IN FlattenSeq([n \in 1..Len(ns) |-> RefEntries(fs, ns[n], d + 1)])
            ELSE <<[section |-> sec(i), key |-> key(i), value |-> val(i)]>>
    IN FlattenSeq([i \in 1..Len(ls) |-> one(i)])

\* The include graph has no cycle.
IncludesAcyclic(fs) ==
    LET F == DOMAIN fs
        inc(a, b) == \E i \in 1..Len(fs[a]) :
                        LET l == Trim(fs[a][i]) p == EqPos(l)
                        IN p > 0 /\ Trim(SubSeq(l, 1, p - 1)) = "@include"
                           /\ GlobMatch(Trim(SubSeq(l, p + 1, Len(l))), b)
        R == TransitiveClosure([x, y \in F |-> inc(x, y)], F)
    IN \A f \in F : ~R[f, f]

\* load_from_file of a configuration whose includes form no cycle ends,
\* and value() then gives, for every section and key, the last
\* assignment in reading order, an included file's assignments counted
\* where its @include line stands, each under the header last seen in
\* its own file: an include neither ends the section it stands in nor
\* leaks its own sections into the lines after it.
ConfigLastAssignmentWins ==
    last = "none" =>
    \A fs \in MCConfigs :
        IncludesAcyclic(fs) =>
        LET r == LoadFromFile(fs, "main.conf")
            E == RefEntries(fs, "main.conf", 0)
            lastOf(s, k) == E[CHOOSE i \in DOMAIN E :
                                /\ E[i].section = s /\ E[i].key = k
                                /\ \A j \in (i + 1)..Len(E) : E[j].section # s \/ E[j].key # k]
        IN /\ ~r.crash
           /\ {<<e.section, e.key>> : e \in r.opts} = {<<E[i].section, E[i].key>> : i \in DOMAIN E}
           /\ \A e \in r.opts : Value(r.opts, e.section, e.key, "") = lastOf(e.section, e.key).value

-----------------------------------------------------------------------------
(* http_content_parser.                                                    *)

\* The string of printable bytes.
BytesStr(b) == FoldLeft(LAMBDA acc, c : acc \o Chr(c), "", b)

\* Names and values of form fields: empty, plain, and holding the bytes
\* the body's syntax gives a meaning to (' ', '&', '=', '+', '%').
MCFormStrs == {<<>>, <<97>>, <<32, 38>>, <<61, 43>>, <<37>>}
MCForms == UNION {[1..n -> [name : MCFormStrs, value : MCFormStrs]] : n \in 0..2}

\* Content-Type values a form is sent with: the media type with a
\* parameter, as spelled by different clients.
MCFormTypes == {"application/x-www-form-urlencoded; charset=utf-8",
                "application/x-www-form-urlencoded ;charset=UTF-8"}

\* A request whose header line is "content-type: ct" (any key spelling
\* is found by get_content_type) and whose body is the form, each field
\* written as encode(name) '=' encode(value), fields joined by '&'.
FormBody(f) ==
    FoldLeft(LAMBDA acc, i : acc \o (IF i = 1 THEN "" ELSE "&")
                 \o BytesStr(Encode(f[i].name)) \o "=" \o BytesStr(Encode(f[i].value)),
             "", [i \in 1..Len(f) |-> i])
Request(m, body) ==
    [hdrs |-> m.hdrs, cookies |-> m.cookies, hasContent |-> TRUE, body |-> body]
FormRequest(ct, f) == Request(SetHeaderLine(EmptyMessage, "content-type: " \o ct), FormBody(f))

\* http_content_parser::parse of a url-encoded form gives back its fields,
\* in order, names and values decoded, whatever bytes they hold; and the
\* body of a request with another or no Content-Type is one "content"
\* element holding it.  (A form sent with a Content-Type without
\* parameters is the hazard at create_parser and is not among the
\* requests enumerated.)
ContentParsesForms ==
    last = "none" =>
    /\ \A ct \in MCFormTypes, f \in MCForms : ContentParse(FormRequest(ct, f)) = f
    /\ \A f \in MCForms \ {<<>>}, hs \in {EmptyMessage, SetHeaderLine(EmptyMessage, "Content-Type: text/html")} :
          ContentParse(Request(hs, FormBody(f)))
              = <<[name |-> StrBytes("content"), value |-> StrBytes(FormBody(f))]>>


-----------------------------------------------------------------------------
(* format.                                                                 *)

\* Templates of up to three pieces: text without brackets, or a marker
\* {n}; arguments given with %, strings holding brackets among them.
MCFormatPieces == {[marker |-> FALSE, v |-> "a "], [marker |-> FALSE, v |-> ""],
                   [marker |-> TRUE, v |-> 0], [marker |-> TRUE, v |-> 1]}
MCFormatArgs == {"x", "{0}", "}"}

Render(t) == FoldLeft(LAMBDA acc, p : acc \o (IF p.marker THEN "{" \o ToDecimal(p.v) \o "}" ELSE p.v),
                      "", t)
RefFormat(t, ps) == FoldLeft(LAMBDA acc, p : acc \o (IF p.marker THEN ps[p.v + 1] ELSE p.v), "", t)

\* format(template) % a % b .str() is the template with every {n} replaced
\* by the n-th argument (counted from 0) and the other text kept; an
\* argument's own brackets are output as they are, never read as markers.
FormatSubstitutes ==
    last = "none" =>
    \A n \in 0..3, a \in MCFormatArgs :
        \A t \in [1..n -> MCFormatPieces],
           ps \in {FormatArg(FormatArg(<<>>, a), b) : b \in MCFormatArgs} \cup {FormatIntArg(FormatArg(<<>>, a), 7)} :
            FormatStr(Render(t), ps) = [ok |-> TRUE, text |-> RefFormat(t, ps)]


-----------------------------------------------------------------------------
(* odbc::connection.                                                       *)

\* Every call with every outcome of its driver calls.
ConnCalls == {[op |-> o, a |-> x, b |-> y] :
                 o \in {"open", "close", "begin", "execute", "commit", "rollback"},
                 x \in BOOLEAN, y \in BOOLEAN}

\* A connection with the history the property needs: whether the last
\* begin_transaction() returned normally with no commit() or rollback()
\* since (txn), the statements executed since it (since), and whether
\* every call since it returned normally (clean).
ConnStep(w, c) ==
    LET s2 == ConnCall(w.st, c)
        began == c.op = "begin" /\ ~s2.thrown
        ended == c.op \in {"commit", "rollback"}
    IN [st |-> s2,
        txn |-> IF began THEN TRUE ELSE IF ended THEN FALSE ELSE w.txn,
        since |-> IF began THEN {} ELSE IF s2.nstmt > w.st.nstmt THEN w.since \cup {s2.nstmt} ELSE w.since,
        clean |-> IF began THEN TRUE ELSE w.clean /\ ~s2.thrown]

\* The histories reachable from a new connection by any sequence of calls.
RECURSIVE ConnReachFrom(_)
ConnReachFrom(S) ==
    LET T == S \cup {ConnStep(w, c) : w \in S, c \in ConnCalls}
    IN IF T = S THEN S ELSE ConnReachFrom(T)
ConnReachable ==
    ConnReachFrom({[st |-> NewConnection, txn |-> FALSE, since |-> {}, clean |-> TRUE]})

\* connection.h: commit() saves and rollback() cancels the changes made
\* since the last begin_transaction(), and either turns autocommit back
\* on.  Checked for every reachable connection, over transactions in
\* which every call returned normally (close() among them): when
\* commit() or rollback() then returns normally, the statements executed
\* since begin_transaction() are all durable after commit() and none of
\* them after rollback(), nothing is left pending, and statements that
\* follow are durable at once.
TransactionOutcome ==
    last = "none" =>
    \A w \in ConnReachable, c \in ConnCalls :
        LET s2 == ConnCall(w.st, c)
        IN w.txn /\ w.clean /\ c.op \in {"commit", "rollback"} /\ ~s2.thrown =>
              /\ IF c.op = "commit" THEN w.since \subseteq s2.durable
                 ELSE w.since \cap s2.durable = {}
              /\ s2.pend = {} /\ s2.ac


-----------------------------------------------------------------------------
(* cgi_application::get_request.                                           *)

\* Environment strings a host passes (CONTENT_LENGTH is added with the
\* body's length): a header variable whose name holds two '_', one whose
\* value holds '=', the cookie header, a CGI field, and a string with no
\* '=', and the server port.  Each string sets a field of its own, so
\* the order of a set of them matters only through the fold.
MCEnvLines == {"REQUEST_METHOD=POST",
               "CONTENT_TYPE=application/x-www-form-urlencoded; charset=utf-8",
               "HTTP_X_FORWARDED_FOR=a_b", "HTTP_ACCEPT=x=y",
               "HTTP_COOKIE=s=1; t=2", "QUERY_STRING=q=1", "SERVER_PORT=8080", "PATH"}
MCCgiForms == {<<>>, <<[name |-> <<97>>, value |-> <<32, 38>>]>>,
               <<[name |-> <<61, 43>>, value |-> <<>>], [name |-> <<97>>, value |-> <<37>>]>>}

\* Whether an environment has a string starting with prefix p.
Has(env, p) == \E i \in DOMAIN env : Len(env[i]) >= Len(p) /\ SubSeq(env[i], 1, Len(p)) = p

\* The environments of a form: each set of up to three strings, in two
\* orders.
MCCgiEnvs(f) ==
    UNION {{SetToSeq(S), Reverse(SetToSeq(S))} :
              S \in {T \in SUBSET (MCEnvLines \cup {"CONTENT_LENGTH=" \o ToDecimal(Len(FormBody(f)))}) :
                        Cardinality(T) <= 3}}

\* get_request builds the request the CGI host describes: the method
\* from REQUEST_METHOD, the port and the CGI fields as given, every
\* HTTP_ variable as the header whose name has '-' for '_' (found by
\* get_header under its usual spelling), HTTP_COOKIE as the cookies it
\* lists, and as content exactly CONTENT_LENGTH bytes of standard input
\* (which here holds more), so that a url-encoded form posted with
\* CONTENT_TYPE parses into its fields and a body without CONTENT_TYPE
\* is one content element.
CgiRequestBuilt ==
    last = "none" =>
    \A f \in MCCgiForms : \A e \in MCCgiEnvs(f) :
      \A r \in {GetRequest(e, FormBody(f) \o "&z=9")} :
           /\ Has(e, "REQUEST_METHOD") => r.method = "post"
           /\ Has(e, "SERVER_PORT") => r.port = 8080
           /\ r.fields["QUERY_STRING"] = IF Has(e, "QUERY_STRING") THEN "q=1" ELSE ""
           /\ Has(e, "HTTP_X_FORWARDED_FOR") => GetHeader(r.hdrs, "X-Forwarded-For") = "a_b"
           /\ Has(e, "HTTP_ACCEPT") => GetHeader(r.hdrs, "Accept") = "x=y"
           /\ [i \in DOMAIN r.cookies |-> <<r.cookies[i].name, r.cookies[i].value>>]
                 = IF Has(e, "HTTP_COOKIE") THEN <<<<"s", "1">>, <<"t", "2">>>> ELSE <<>>
           /\ Has(e, "CONTENT_LENGTH") /\ Len(FormBody(f)) > 0 =>
                 ContentParse(r) = IF Has(e, "CONTENT_TYPE") THEN f
                                   ELSE <<[name |-> StrBytes("content"), value |-> StrBytes(FormBody(f))]>>
           /\ ~Has(e, "CONTENT_LENGTH") => ContentParse(r) = <<>>


-----------------------------------------------------------------------------
(* uuid.                                                                   *)

\* Values whose first, tenth and last bytes range over the ends of a hex
\* digit pair and of the signed and unsigned byte ranges.
MCUuidBytes == {0, 10, 127, 128, 255}
MCUuids == {[i \in 1..UuidSize |-> IF i = 1 THEN x ELSE IF i = 10 THEN y ELSE IF i = 16 THEN z ELSE 0] :
               x \in MCUuidBytes, y \in MCUuidBytes, z \in MCUuidBytes}
UpperStr(s) == FoldLeft(LAMBDA acc, i : acc \o ToUpperC(At(s, i)), "", [i \in 1..Len(s) |-> i])

\* The text of a uuid stands for it: assign (uuid(string), operator>>)
\* reads back what str() (operator<<) writes, also upper-case and in
\* braces, and operator< orders uuids as their texts order as strings,
\* so a map keyed by uuid and one keyed by its text iterate alike.
UuidTextFaithful ==
    last = "none" =>
    \A a \in MCUuids :
        /\ UuidAssign(UuidStr(a)) = a
        /\ UuidAssign("{" \o UpperStr(UuidStr(a)) \o "}") = a
        /\ \A b \in MCUuids : UuidLess(a, b) <=> ByteLess(UuidStr(a), UuidStr(b))

=============================================================================
