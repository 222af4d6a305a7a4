---------------------------- MODULE Transaction -----------------------------
(***************************************************************************)
(* XmrDb.transaction of db/XmrDb.py, the context manager around every      *)
(* statement of the program, and its callers execute, fetch_one and        *)
(* fetch_all: connect, yield, commit; rollback and raise on an exception;  *)
(* close in any case.  Every call of the connector may raise.  The         *)
(* transaction of a caller is the one that matters for what it is told:    *)
(* the one that writes, where there is one.                                *)
(***************************************************************************)
CONSTANT Callers     \* threads of control that use XmrDb

VARIABLES
    tx,        \* the transaction of each caller
    open,      \* callers with a connection that is not closed
    durable    \* callers whose write is in the database

tvars == <<tx, open, durable>>

\* `result` is the value or the exception on its way to the caller, which has
\* it at "over".
Tx == [pc : {"idle", "work", "commit", "rollback", "close", "over"},
       kind : {"none", "read", "write"},
       result : {"none", "value", "duplicate", "error"}]

NoTx == [pc |-> "idle", kind |-> "none", result |-> "none"]

TxInit ==
    /\ tx = [c \in Callers |-> NoTx]
    /\ open = {}
    /\ durable = [c \in Callers |-> FALSE]

Moves(c, pc, result) ==
    tx' = [tx EXCEPT ![c] = [pc |-> pc, kind |-> tx[c].kind, result |-> result]]

Connect(c, kind) ==
    /\ tx[c].pc = "idle"
    /\ tx' = [tx EXCEPT ![c] = [pc |-> "work", kind |-> kind, result |-> "none"]]
    /\ open' = open \cup {c}
    /\ UNCHANGED durable

\* The connector raises, before the try: there is nothing to close.
ConnectFails(c, kind) ==
    /\ tx[c].pc = "idle"
    /\ tx' = [tx EXCEPT ![c] = [pc |-> "over", kind |-> kind, result |-> "error"]]
    /\ UNCHANGED <<open, durable>>

\* The body of the with statement, and the value it will return.
Statement(c) ==
    /\ tx[c].pc = "work"
    /\ Moves(c, "commit", "none")
    /\ UNCHANGED <<open, durable>>

\* A statement raises, a write perhaps because of a unique key (errno 1062).
StatementFails(c) ==
    /\ tx[c].pc = "work"
    /\ \/ Moves(c, "rollback", "error")
       \/ tx[c].kind = "write" /\ Moves(c, "rollback", "duplicate")
    /\ UNCHANGED <<open, durable>>

Commit(c) ==
    /\ tx[c].pc = "commit"
    /\ Moves(c, "close", "value")
    /\ durable' = [durable EXCEPT ![c] = tx[c].kind = "write"]
    /\ UNCHANGED open

\* A slip that would break IsAtomic: the failure of a commit is taken for that
\* of its statement.
CommitFailsDuplicate(c) ==
    /\ tx[c].pc = "commit"
    /\ \E result \in {"error", "duplicate"} : Moves(c, "rollback", result)
    /\ \E applied \in BOOLEAN :
          durable' = [durable EXCEPT ![c] = applied /\ tx[c].kind = "write"]
    /\ UNCHANGED open

\* commit() raises: MariaDB has refused it, or has done it and the answer is lost.
CommitFails(c) ==
    /\ tx[c].pc = "commit"
    /\ Moves(c, "rollback", "error")
    /\ \E applied \in BOOLEAN :
          durable' = [durable EXCEPT ![c] = applied /\ tx[c].kind = "write"]
    /\ UNCHANGED open

\* A slip that would break ConnectionsEnd: close() is not in a finally clause.
RollbackLeaks(c) ==
    /\ tx[c].pc = "rollback"
    /\ Moves(c, "close", tx[c].result) \/ Moves(c, "over", "error")
    /\ UNCHANGED <<open, durable>>

\* The exception is raised again, unless rollback() raises another.
Rollback(c) ==
    /\ tx[c].pc = "rollback"
    /\ \E result \in {tx[c].result, "error"} : Moves(c, "close", result)
    /\ UNCHANGED <<open, durable>>

\* The finally clause; close() may raise too, and the value is lost with it.
Close(c) ==
    /\ tx[c].pc = "close"
    /\ \E result \in {tx[c].result, "error"} : Moves(c, "over", result)
    /\ open' = open \ {c}
    /\ UNCHANGED durable

\* The caller goes on.
Forget(c) ==
    /\ tx' = [tx EXCEPT ![c] = NoTx]
    /\ durable' = [durable EXCEPT ![c] = FALSE]
    /\ UNCHANGED open

TxStep(c) ==
    \/ Statement(c)
    \/ StatementFails(c)
    \/ Commit(c)
    \/ CommitFails(c)
    \/ Rollback(c)
    \/ Close(c)

TxNext ==
    \E c \in Callers :
        \/ \E kind \in {"read", "write"} : Connect(c, kind) \/ ConnectFails(c, kind)
        \/ TxStep(c)
        \/ tx[c].pc = "over" /\ Forget(c)

TxSpec == TxInit /\ [][TxNext]_tvars

-----------------------------------------------------------------------------
TxTypeOK ==
    /\ tx \in [Callers -> Tx]
    /\ open \subseteq Callers
    /\ durable \in [Callers -> BOOLEAN]

Atomic == INSTANCE AtomicCalls WITH
    asked <- [c \in Callers |-> tx[c].kind],
    result <- [c \in Callers |-> IF tx[c].pc = "over" THEN tx[c].result ELSE "none"],
    durable <- durable

\* Whatever raises, and wherever, execute, fetch_one and fetch_all are the
\* atomic calls of AtomicCalls to those who use them.
IsAtomic == Atomic!Spec
=============================================================================
