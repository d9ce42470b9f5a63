--------------------------- MODULE CgiApplication ---------------------------
(***************************************************************************)
(* dbp::cgi_application::get_request (cgi_application.cpp): the request a *)
(* CGI program sees is built from its environment, PARAM=VALUE strings in *)
(* the order the host passes them, and from CONTENT_LENGTH bytes of its   *)
(* standard input.  A request is the message record of HttpHeaders (hdrs, *)
(* cookies) with the content of HttpContentParser (hasContent, body) and  *)
(* the http_request fields the CGI variables set.  http_request has no    *)
(* constructor: _method and _server_port are left uninitialized, here the *)
(* value "indeterminate", until a variable sets them.                     *)
(***************************************************************************)
EXTENDS Naturals, Sequences, SequencesExt, HttpContentParser

\* The CGI variables stored as they are, by their http_request setters
\* (set_auth_type ... set_server_software).
RequestFields == {"AUTH_TYPE", "GATEWAY_INTERFACE", "PATH_INFO", "PATH_TRANSLATED",
                  "QUERY_STRING", "REMOTE_ADDR", "REMOTE_HOST", "REMOTE_IDENT",
                  "REMOTE_USER", "SCRIPT_NAME", "SERVER_NAME", "SERVER_PROTOCOL",
                  "SERVER_SOFTWARE"}

\* http_request req: the string members empty, no headers, no cookies, no
\* content; _method and _server_port indeterminate.
NewRequest == [hdrs |-> NoHeaders, cookies |-> <<>>,
               fields |-> [f \in RequestFields |-> ""],
               method |-> "indeterminate", port |-> "indeterminate",
               hasContent |-> FALSE, body |-> ""]

\* set_<field>(value): the member is assigned.
SetField(r, f, v) == [r EXCEPT !.fields[f] = v]

\* set_content_type(value): headers["Content-Type"] = value.
SetContentType(r, v) == [r EXCEPT !.hdrs = MapAssign(@, "Content-Type", v)]

\* http_header::set_header(key, value) on the request's headers and cookies.
SetRequestHeader(r, k, v) ==
    LET m == SetHeaderKV([hdrs |-> r.hdrs, cookies |-> r.cookies], k, v)
    IN [r EXCEPT !.hdrs = m.hdrs, !.cookies = m.cookies]

\* Mutant: only the first '_' becomes '-'.
HeaderNameMut(s) ==
    LET p == Find(s, "_") IN IF p = 0 THEN s ELSE SubSeq(s, 1, p - 1) \o "-" \o SubSeq(s, p + 1, Len(s))

\* The header name of an HTTP_ variable: every '_' of the rest becomes '-'.
HeaderName(s) == FoldLeft(LAMBDA acc, i : acc \o (IF At(s, i) = "_" THEN "-" ELSE At(s, i)),
                          "", [i \in 1..Len(s) |-> i])

\* One environment string: split at its first '=' (the whole string is
\* the name when there is none), then dispatched on the name.  acc is
\* [req, clen].
EnvLine(acc, line) ==
    LET pos == Find(line, "=")
        left == IF pos = 0 THEN line ELSE SubSeq(line, 1, pos - 1)
        right == IF pos = 0 THEN "" ELSE SubSeq(line, pos + 1, Len(line))
        r == acc.req
    IN CASE left = "CONTENT_LENGTH"  -> [acc EXCEPT !.clen = StrToL(right)]
         [] left = "CONTENT_TYPE"    -> [acc EXCEPT !.req = SetContentType(r, right)]
         [] left = "REQUEST_METHOD"  -> [acc EXCEPT !.req.method = StrToMethod(right)]
         [] left = "SERVER_PORT"     -> [acc EXCEPT !.req.port = StrToL(right)]
         [] left \in RequestFields   -> [acc EXCEPT !.req = SetField(r, left, right)]
         [] Len(left) >= 5 /\ SubSeq(left, 1, 5) = "HTTP_" ->
                [acc EXCEPT !.req = SetRequestHeader(r, HeaderName(SubSeq(left, 6, Len(left))), right)]
         [] OTHER -> acc

\* get_request(env): the environment in order, then, for a positive
\* CONTENT_LENGTH, add_content(c_len, cin): the content is c_len bytes,
\* those stdin holds followed by zeros, so its C string is the first
\* c_len bytes of stdin.
GetRequest(env, stdin) ==
    LET a == FoldLeft(EnvLine, [req |-> NewRequest, clen |-> 0], env)
        n == IF a.clen < Len(stdin) THEN a.clen ELSE Len(stdin)
    IN IF a.clen > 0 THEN [a.req EXCEPT !.hasContent = TRUE, !.body = SubSeq(stdin, 1, n)]
       ELSE a.req
=============================================================================
