--------------------------- MODULE MC_HttpServer ---------------------------
EXTENDS HttpServer

\* Requests without keep-alive, with and without a body.
MCPlainShapes == {[ka |-> FALSE, len |-> FALSE], [ka |-> FALSE, len |-> TRUE]}

\* Requests without a body, with and without keep-alive.
MCKeepAliveShapes == {[ka |-> TRUE, len |-> FALSE], [ka |-> FALSE, len |-> FALSE]}

\* A request with a body.
MCBodyShapes == {[ka |-> FALSE, len |-> TRUE]}

\* A keep-alive request without a body and requests without keep-alive,
\* with and without a body.
MCSplitShapes == MCKeepAliveShapes \cup MCBodyShapes

\* A request without a body, without keep-alive.
MCSimpleShapes == {[ka |-> FALSE, len |-> FALSE]}
=============================================================================
