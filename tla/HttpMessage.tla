---------------------------- MODULE HttpMessage -----------------------------
(***************************************************************************)
(* The content of one dbp::http_header (a request or a response) under    *)
(* the sequence of content mutations its users make: set_content(size,    *)
(* value) and add_content(size, stream).  http_server::process_data calls *)
(* add_content once per segment of the body, cgi_application::get_request *)
(* once with CONTENT_LENGTH, and the applications set_content on their     *)
(* responses.  The buffer and its Content-Length header are HttpHeader's. *)
(* The same object's other headers and its cookies (HttpHeaders) change  *)
(* under set_header, the cookie setters and set_allow; the key            *)
(* Content-Length is left to the content mutators.                        *)
(***************************************************************************)
EXTENDS Naturals, HttpHeader, HttpHeaders

CONSTANTS
    Sizes,      \* the value sizes passed to them
    MaxCalls,   \* bound: content mutations of one message
    Keys,       \* keys passed to set_header(key, value)
    Values,     \* values passed to it
    Lines,      \* lines passed to set_header(header)
    CookieArgs, \* http_cookie objects passed to the cookie setters
    Methods,    \* methods passed to set_allow
    MaxHeaderOps \* bound: header and cookie mutations of one message

ASSUME Sizes \subseteq Nat /\ MaxCalls \in Nat /\ MaxHeaderOps \in Nat

VARIABLES
    content,    \* the content buffer and Content-Length
    calls,      \* content mutations so far
    kind,       \* "request" or "response"
    msg,        \* its headers and cookies
    hops        \* header and cookie mutations so far

vars == <<content, calls, kind, msg, hops>>

\* http_request(), or http_response(), whose constructor sets the status
\* and the Content-Type "text/plain; charset=utf-8".
Init ==
    /\ content = NoContent /\ calls = 0 /\ hops = 0
    /\ kind \in {"request", "response"}
    /\ msg = IF kind = "request" THEN EmptyMessage
             ELSE [EmptyMessage EXCEPT
                     !.hdrs = MapAssign(@, "Content-Type", "text/plain; charset=utf-8")]

\* http_header::set_content(value_size, value).  Every caller in the tree
\* (the applications' error paths, the examples, the tests) sets the
\* content of a message it has just constructed, once.
SetContentCall ==
    /\ calls = 0
    /\ \E n \in Sizes : content' = SetContent(content, n)
    /\ calls' = calls + 1
    /\ UNCHANGED <<kind, msg, hops>>

\* http_header::add_content(value_size, value), the stream holding at
\* least value_size bytes.
AddContentCall ==
    /\ calls < MaxCalls
    /\ \E n \in Sizes : content' = AddContentN(content, n)
    /\ calls' = calls + 1
    /\ UNCHANGED <<kind, msg, hops>>

\* A header or cookie mutation m2 of the message.
HeaderOp(m2) ==
    /\ hops < MaxHeaderOps
    /\ msg' = m2 /\ hops' = hops + 1
    /\ UNCHANGED <<content, calls, kind>>

\* http_header::set_header(key, value), as the applications call it.
SetHeaderCall == \E k \in Keys, v \in Values : HeaderOp(SetHeaderKV(msg, k, v))

\* http_header::set_header(header), as process_data calls it per line.
SetHeaderLineCall == \E l \in Lines : HeaderOp(SetHeaderLine(msg, l))

\* set_cookies(c): resize, then copy: the list becomes c.
SetCookiesCall ==
    \E c1, c2 \in CookieArgs : HeaderOp([msg EXCEPT !.cookies = <<c1, c2>>])

\* set_cookie(c): clear, then push_back.
SetCookieCall == \E c \in CookieArgs : HeaderOp([msg EXCEPT !.cookies = <<c>>])

\* add_cookie(c): push_back.
AddCookieCall == \E c \in CookieArgs : HeaderOp([msg EXCEPT !.cookies = Append(@, c)])

\* http_response::set_allow(method).
SetAllowCall ==
    /\ kind = "response"
    /\ \E meth \in Methods : HeaderOp(SetAllow(msg, meth))

Next ==
    \/ SetContentCall \/ AddContentCall
    \/ SetHeaderCall \/ SetHeaderLineCall
    \/ SetCookiesCall \/ SetCookieCall \/ AddCookieCall \/ SetAllowCall

Spec == Init /\ [][Next]_vars

-----------------------------------------------------------------------------
TypeOK ==
    /\ content \in [size : Nat, cap : Nat, clSet : BOOLEAN, cl : Nat,
                    oob : {"none", "slack", "heap"}]
    /\ content.size <= content.cap /\ calls \in 0..MaxCalls
    /\ kind \in {"request", "response"} /\ hops \in 0..MaxHeaderOps
    /\ \A e \in msg.hdrs : e \in [key : STRING, value : STRING]
    /\ \A i \in 1..Len(msg.cookies) : DOMAIN msg.cookies[i] = DOMAIN NoCookie

\* Spec section 3: once content has been set through a content mutator,
\* the Content-Length header equals get_content_size(), the size of the
\* buffer without its trailing 0; http_header's operator<< sends the
\* buffer after that header.
ContentLengthConsistent ==
    content.clSet => content.cl = ContentSize(content)

\* What operator<< writes for this message, read back line by line as
\* http_server::process_data reads a request's headers, gives the same
\* header map (keys as first spelled, values as last assigned); for a
\* request, the same cookie names and values in the same order; for a
\* response, the method get_allow() returns.
MessageRoundTrip ==
    LET text == IF kind = "request" THEN RequestText(msg) ELSE ResponseText(msg)
        back == ReadHeaders(EmptyMessage, text)
        pairs(cs) == [i \in 1..Len(cs) |-> <<cs[i].name, cs[i].value>>]
    IN /\ back.hdrs = msg.hdrs
       /\ kind = "request" => pairs(back.cookies) = pairs(msg.cookies)
       /\ kind = "response" => GetAllow(back) = GetAllow(msg)

\* No content mutator stores outside the vector: add_content's terminating
\* content[oldsize + value_size] = 0.
WritesInBounds == content.oob = "none"

=============================================================================
