------------------------------ MODULE Connection ------------------------------
(***************************************************************************)
(* dbp::odbc::connection (connection.h, connection.cpp) as a sequential    *)
(* object over an ODBC driver.  The object's state is _is_open; the        *)
(* driver's is whether hdbc is connected, its autocommit attribute, and    *)
(* the statements executed on it: pend holds those of the open manual-    *)
(* commit transaction, durable those committed.  Statements are numbered  *)
(* 1..MaxStmts.  Every driver call that can fail is given its outcome by   *)
(* the caller of an operator (ok flags), except where the ODBC API         *)
(* specifies the result: SQLConnect on a connected handle fails (08002),  *)
(* SQLDisconnect with an incomplete transaction fails and leaves the       *)
(* connection open (25000), SQL_ATTR_TXN_ISOLATION cannot be set while a   *)
(* transaction is open (HY011), SQLEndTran needs a connection (08003),    *)
(* and SQLFreeHandle of a connected handle fails (HY010).  thrown records *)
(* whether the last call threw connection_exception.                      *)
(***************************************************************************)
EXTENDS Naturals, FiniteSets

CONSTANT MaxStmts

\* connection(): the handle is allocated, not connected; autocommit is
\* the ODBC default.
NewConnection == [isOpen |-> FALSE, conn |-> FALSE, ac |-> TRUE, pend |-> {},
                  durable |-> {}, nstmt |-> 0, thrown |-> FALSE, leaked |-> FALSE]

\* close(): SQLDisconnect only when _is_open, its result ignored;
\* _is_open is cleared either way.
Close(st) ==
    [st EXCEPT !.isOpen = FALSE, !.thrown = FALSE,
               !.conn = IF st.isOpen THEN st.pend # {} ELSE @]

\* open(dsn, user, password) and open(connect_string): close(), then
\* SQLConnect / SQLDriverConnect, which fails on a handle still connected;
\* a failure throws with _is_open false.
Open(st, ok) ==
    LET s1 == Close(st)
        up == ok /\ ~s1.conn
    IN [s1 EXCEPT !.isOpen = up, !.conn = @ \/ up, !.thrown = ~up]

\* Mutant: autocommit is never turned off.
BeginTransactionMut(st, okIso, okAc) ==
    LET iso == okIso /\ st.pend = {}
    IN [st EXCEPT !.thrown = ~(iso /\ okAc)]

\* begin_transaction(level): set the isolation level, then turn
\* autocommit off; the first call that fails throws.
BeginTransaction(st, okIso, okAc) ==
    LET iso == okIso /\ st.pend = {}
    IN [st EXCEPT !.ac = IF iso /\ okAc THEN FALSE ELSE @,
                  !.thrown = ~(iso /\ okAc)]

\* A statement executed by a query on this connection's handle: durable
\* at once in autocommit mode, part of the open transaction otherwise;
\* without a connection the query throws.  Statements past MaxStmts are
\* not executed (the bound of the model).
ExecuteOn(st) ==
    LET n == st.nstmt + 1
    IN IF n > MaxStmts THEN st
       ELSE IF ~st.conn THEN [st EXCEPT !.thrown = TRUE]
       ELSE IF st.ac THEN [st EXCEPT !.nstmt = n, !.durable = @ \cup {n}, !.thrown = FALSE]
       ELSE [st EXCEPT !.nstmt = n, !.pend = @ \cup {n}, !.thrown = FALSE]

\* commit() and rollback(): SQLEndTran, then autocommit back on; the
\* first call that fails throws.  Ending the transaction moves pend to
\* durable (commit) or drops it (rollback).
EndTran(st, commit, okEnd, okAc) ==
    LET e == okEnd /\ st.conn
        s1 == IF ~e THEN st
              ELSE [st EXCEPT !.pend = {},
                              !.durable = IF commit THEN @ \cup st.pend ELSE @]
    IN IF ~e THEN [s1 EXCEPT !.thrown = TRUE]
       ELSE [s1 EXCEPT !.ac = IF okAc THEN TRUE ELSE @, !.thrown = ~okAc]
Commit(st, okEnd, okAc) == EndTran(st, TRUE, okEnd, okAc)
Rollback(st, okEnd, okAc) == EndTran(st, FALSE, okEnd, okAc)

\* ~connection(): close(), then SQLFreeHandle, which fails on a handle
\* that is still connected: the handle and its transaction are leaked.
Destroy(st) == LET s1 == Close(st) IN [s1 EXCEPT !.leaked = s1.conn]

\* One call: c.op names it, c.a and c.b are the outcomes of its driver
\* calls.
ConnCall(st, c) ==
    CASE c.op = "open"     -> Open(st, c.a)
      [] c.op = "close"    -> Close(st)
      [] c.op = "begin"    -> BeginTransaction(st, c.a, c.b)
      [] c.op = "execute"  -> ExecuteOn(st)
      [] c.op = "commit"   -> Commit(st, c.a, c.b)
      [] OTHER             -> Rollback(st, c.a, c.b)
=============================================================================
