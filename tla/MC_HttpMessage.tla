--------------------------- MODULE MC_HttpMessage ---------------------------
EXTENDS HttpMessage

\* Value sizes: empty, one byte, and two bytes.
MCSizes == 0..2

\* The sizes the in-tree callers pass: process_data and cgi_application
\* call add_content only with a non-zero size.
MCPositiveSizes == 1..2

\* Two spellings of one key, a key set_header turns into cookies, and
\* another key; a value holding ':' (as a Host header does), and one
\* holding a cookie string with an attribute and a '=' in a value.
MCKeys == {"Host", "host", "cookie"}
MCValues == {"h:8", "a=1; b=x=y; secure"}

\* Lines as a client sends them: padded, a Cookie list, a Set-Cookie with
\* attributes, and a line without ':'.
MCLines == {" HOST : g ", "Cookie: c=2", "Set-Cookie: s=1; path=/p; HttpOnly", "junk"}

\* Cookies an application builds: a plain one and one with attributes.
MCCookieArgs ==
    {[NoCookie EXCEPT !.name = "n", !.value = "v"],
     [NoCookie EXCEPT !.name = "t", !.value = "u=1", !.domain = "d", !.secure = TRUE]}

MCMethods == {"get", "version_control", "unknown"}
=============================================================================
