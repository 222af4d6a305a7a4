---------------------------- MODULE AtomicCalls -----------------------------
(***************************************************************************)
(* What the database owner db/XmrDb.py promises its callers: a call takes  *)
(* effect at most once and as a whole.  A value is returned only after the *)
(* effect, "duplicate" only without it; an error says nothing.             *)
(***************************************************************************)
CONSTANT Callers

VARIABLES
    asked,     \* what each caller is waiting for
    result,    \* what it was told
    durable    \* its write is in the database

avars == <<asked, result, durable>>

Init ==
    /\ asked = [c \in Callers |-> "none"]
    /\ result = [c \in Callers |-> "none"]
    /\ durable = [c \in Callers |-> FALSE]

Ask(c, kind) ==
    /\ asked[c] = "none"
    /\ asked' = [asked EXCEPT ![c] = kind]
    /\ UNCHANGED <<result, durable>>

Effect(c) ==
    /\ asked[c] = "write"
    /\ result[c] = "none"
    /\ durable' = [durable EXCEPT ![c] = TRUE]
    /\ UNCHANGED <<asked, result>>

Tell(c, r) ==
    /\ asked[c] # "none"
    /\ result[c] = "none"
    /\ r = "value" /\ asked[c] = "write" => durable[c]
    /\ r = "duplicate" => ~durable[c]
    /\ result' = [result EXCEPT ![c] = r]
    /\ UNCHANGED <<asked, durable>>

\* The caller goes on with what it was told.
Forget(c) ==
    /\ result[c] # "none"
    /\ asked' = [asked EXCEPT ![c] = "none"]
    /\ result' = [result EXCEPT ![c] = "none"]
    /\ durable' = [durable EXCEPT ![c] = FALSE]

\* The connection cannot be made: the call is asked and answered at once.
Refuse(c, kind) ==
    /\ asked[c] = "none"
    /\ asked' = [asked EXCEPT ![c] = kind]
    /\ result' = [result EXCEPT ![c] = "error"]
    /\ UNCHANGED durable

Next ==
    \E c \in Callers :
        \/ \E kind \in {"read", "write"} : Ask(c, kind) \/ Refuse(c, kind)
        \/ Effect(c)
        \/ \E r \in {"value", "duplicate", "error"} : Tell(c, r)
        \/ Forget(c)

Spec == Init /\ [][Next]_avars
=============================================================================
