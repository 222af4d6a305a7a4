------------------------- MODULE TransactionProofs --------------------------
(***************************************************************************)
(* Whatever raises, XmrDb.transaction is the atomic call of AtomicCalls,   *)
(* for any number of callers, and so it is inside the HTTP services.       *)
(***************************************************************************)
EXTENDS HttpServer, TLAPS

\* Where the write of a transaction t is (d), and what its result says of it.
ResultOK(t, d) ==
    /\ t.pc = "idle" => t = NoTx /\ ~d
    /\ t.pc # "idle" => t.kind # "none"
    /\ t.pc \in {"work", "commit"} => ~d /\ t.result = "none"
    /\ t.pc \in {"rollback", "close", "over"} => t.result # "none"
    /\ t.pc = "rollback" => t.result \in {"duplicate", "error"}
    /\ t.result = "value" /\ t.kind = "write" => d
    /\ t.result = "duplicate" => ~d
    /\ d => t.kind = "write"

TxIInv == TxTypeOK /\ \A c \in Callers : ResultOK(tx[c], durable[c])

-----------------------------------------------------------------------------
\* Nothing has been asked at the start.
LEMMA InitInv == TxInit => TxIInv
  BY DEF TxInit, TxIInv, TxTypeOK, ResultOK, Tx, NoTx

\* A step of one caller is seen in its own transaction alone.
LEMMA Local ==
  ASSUME TxIInv, NEW c \in Callers, NEW t \in Tx, NEW d \in BOOLEAN,
         tx' = [tx EXCEPT ![c] = t],
         durable' = [durable EXCEPT ![c] = d],
         open' \subseteq Callers,
         ResultOK(t, d)
  PROVE  TxIInv'
<1>1. TxTypeOK'
  BY DEF TxIInv, TxTypeOK
<1>2. ASSUME NEW e \in Callers PROVE ResultOK(tx'[e], durable'[e])
  <2>1. CASE e = c
    BY <2>1 DEF TxIInv, TxTypeOK
  <2>2. CASE e # c
    <3>1. tx'[e] = tx[e] /\ durable'[e] = durable[e]
      BY <2>2 DEF TxIInv, TxTypeOK
    <3> QED
      BY <3>1 DEF TxIInv
  <2> QED
    BY <2>1, <2>2
<1> QED
  BY <1>1, <1>2 DEF TxIInv

\* The same for a step that moves to pc with a result.
LEMMA Moved ==
  ASSUME TxIInv, NEW c \in Callers,
         NEW pc \in {"idle", "work", "commit", "rollback", "close", "over"},
         NEW result \in {"none", "value", "duplicate", "error"},
         NEW d \in BOOLEAN,
         Moves(c, pc, result),
         durable' = [durable EXCEPT ![c] = d],
         open' \subseteq Callers,
         ResultOK([pc |-> pc, kind |-> tx[c].kind, result |-> result], d)
  PROVE  TxIInv'
<1> DEFINE t == [pc |-> pc, kind |-> tx[c].kind, result |-> result]
<1>1. tx[c] \in Tx
  BY DEF TxIInv, TxTypeOK
<1>2. t \in Tx
  BY <1>1 DEF Tx
<1>3. tx' = [tx EXCEPT ![c] = t]
  BY DEF Moves
<1> HIDE DEF t
<1>4. ResultOK(t, d)
  BY DEF t
<1> QED
  BY <1>2, <1>3, <1>4, Local

\* Every statement of a transaction keeps what its result says of its write.
LEMMA StepInv ==
  ASSUME TxIInv, NEW c \in Callers,
         \/ \E kind \in {"read", "write"} : Connect(c, kind) \/ ConnectFails(c, kind)
         \/ TxStep(c)
         \/ tx[c].pc = "over" /\ Forget(c)
  PROVE  TxIInv'
<1>0. /\ tx[c] \in Tx /\ durable[c] \in BOOLEAN
      /\ durable = [durable EXCEPT ![c] = durable[c]]
      /\ open \subseteq Callers
      /\ ResultOK(tx[c], durable[c])
  BY DEF TxIInv, TxTypeOK
<1>1. ASSUME NEW kind \in {"read", "write"}, Connect(c, kind) PROVE TxIInv'
  <2> DEFINE t == [pc |-> "work", kind |-> kind, result |-> "none"]
  <2>1. t \in Tx /\ ResultOK(t, durable[c])
    BY <1>0, <1>1 DEF Connect, Tx, ResultOK
  <2>2. tx' = [tx EXCEPT ![c] = t] /\ open' \subseteq Callers /\ durable' = durable
    BY <1>0, <1>1 DEF Connect
  <2> HIDE DEF t
  <2> QED
    BY <1>0, <2>1, <2>2, Local
<1>2. ASSUME NEW kind \in {"read", "write"}, ConnectFails(c, kind) PROVE TxIInv'
  <2> DEFINE t == [pc |-> "over", kind |-> kind, result |-> "error"]
  <2>1. t \in Tx /\ ResultOK(t, durable[c])
    BY <1>0, <1>2 DEF ConnectFails, Tx, ResultOK
  <2>2. tx' = [tx EXCEPT ![c] = t] /\ open' \subseteq Callers /\ durable' = durable
    BY <1>0, <1>2 DEF ConnectFails
  <2> HIDE DEF t
  <2> QED
    BY <1>0, <2>1, <2>2, Local
<1>3. CASE Statement(c)
  <2>1. ResultOK([pc |-> "commit", kind |-> tx[c].kind, result |-> "none"], durable[c])
    BY <1>0, <1>3 DEF Statement, ResultOK, Tx
  <2> QED
    BY <1>0, <1>3, <2>1, Moved DEF Statement
<1>4. CASE StatementFails(c)
  <2>1. PICK result \in {"error", "duplicate"} : Moves(c, "rollback", result)
    BY <1>4 DEF StatementFails
  <2>2. ResultOK([pc |-> "rollback", kind |-> tx[c].kind, result |-> result], durable[c])
    BY <1>0, <1>4 DEF StatementFails, ResultOK, Tx
  <2> QED
    BY <1>0, <1>4, <2>1, <2>2, Moved DEF StatementFails
<1>5. CASE Commit(c)
  <2>1. ResultOK([pc |-> "close", kind |-> tx[c].kind, result |-> "value"],
                 tx[c].kind = "write")
    BY <1>0, <1>5 DEF Commit, ResultOK, Tx
  <2> QED
    BY <1>0, <1>5, <2>1, Moved DEF Commit
<1>6. CASE CommitFails(c)
  <2>1. PICK applied \in BOOLEAN :
            durable' = [durable EXCEPT ![c] = applied /\ tx[c].kind = "write"]
    BY <1>6 DEF CommitFails
  <2>2. ResultOK([pc |-> "rollback", kind |-> tx[c].kind, result |-> "error"],
                 applied /\ tx[c].kind = "write")
    BY <1>0, <1>6 DEF CommitFails, ResultOK, Tx
  <2> QED
    BY <1>0, <1>6, <2>1, <2>2, Moved DEF CommitFails
<1>7. CASE Rollback(c)
  <2>1. PICK result \in {tx[c].result, "error"} : Moves(c, "close", result)
    BY <1>7 DEF Rollback
  <2>2. ResultOK([pc |-> "close", kind |-> tx[c].kind, result |-> result], durable[c])
    BY <1>0, <1>7, <2>1 DEF Rollback, ResultOK, Tx
  <2>3. result \in {"none", "value", "duplicate", "error"}
    BY <1>0, <2>1 DEF Tx
  <2> QED
    BY <1>0, <1>7, <2>1, <2>2, <2>3, Moved DEF Rollback
<1>8. CASE Close(c)
  <2>1. PICK result \in {tx[c].result, "error"} : Moves(c, "over", result)
    BY <1>8 DEF Close
  <2>2. ResultOK([pc |-> "over", kind |-> tx[c].kind, result |-> result], durable[c])
    BY <1>0, <1>8, <2>1 DEF Close, ResultOK, Tx
  <2>3. result \in {"none", "value", "duplicate", "error"}
    BY <1>0, <2>1 DEF Tx
  <2>4. open' \subseteq Callers /\ durable' = durable
    BY <1>0, <1>8 DEF Close
  <2> QED
    BY <1>0, <2>1, <2>2, <2>3, <2>4, Moved
<1>9. CASE tx[c].pc = "over" /\ Forget(c)
  <2>1. NoTx \in Tx /\ ResultOK(NoTx, FALSE)
    BY DEF NoTx, Tx, ResultOK
  <2> QED
    BY <1>0, <1>9, <2>1, Local DEF Forget
<1> QED
  BY <1>1, <1>2, <1>3, <1>4, <1>5, <1>6, <1>7, <1>8, <1>9 DEF TxStep

\* Every step of a transaction keeps the invariant.
LEMMA NextInv == TxIInv /\ [TxNext]_tvars => TxIInv'
<1> SUFFICES ASSUME TxIInv, [TxNext]_tvars PROVE TxIInv'
  OBVIOUS
<1>1. CASE TxNext
  BY <1>1, StepInv DEF TxNext
<1>2. CASE UNCHANGED tvars
  BY <1>2 DEF tvars, TxIInv, TxTypeOK, ResultOK
<1> QED
  BY <1>1, <1>2

-----------------------------------------------------------------------------
Asked == [c \in Callers |-> tx[c].kind]
Told == [c \in Callers |-> IF tx[c].pc = "over" THEN tx[c].result ELSE "none"]

\* Between connect and close a caller has asked and has been told nothing.
LEMMA InitRefines == TxInit => Atomic!Init
  BY DEF TxInit, Atomic!Init, NoTx

\* A step of a transaction is a step of an atomic call, or is not to be seen.
LEMMA StepRefines ==
  ASSUME TxIInv, NEW c \in Callers,
         \/ \E kind \in {"read", "write"} : Connect(c, kind) \/ ConnectFails(c, kind)
         \/ TxStep(c)
         \/ tx[c].pc = "over" /\ Forget(c)
  PROVE  Atomic!Next \/ UNCHANGED Atomic!avars
<1>0. /\ tx[c] \in Tx /\ durable[c] \in BOOLEAN /\ durable \in [Callers -> BOOLEAN]
      /\ tx \in [Callers -> Tx]
      /\ ResultOK(tx[c], durable[c])
  BY DEF TxIInv, TxTypeOK
<1> USE DEF ResultOK, Tx, NoTx
<1> DEFINE A == Atomic!Next \/ UNCHANGED Atomic!avars
<1>1. ASSUME NEW kind \in {"read", "write"}, Connect(c, kind) PROVE A
  <2>1. tx[c].pc = "idle" /\ tx[c].kind = "none" /\ durable' = durable
    BY <1>0, <1>1 DEF Connect
  <2>3. tx' = [tx EXCEPT ![c] = [pc |-> "work", kind |-> kind, result |-> "none"]]
    BY <1>1 DEF Connect
  <2>4. Asked' = [Asked EXCEPT ![c] = kind]
    BY <1>0, <2>3 DEF Asked
  <2>5. Told' = Told
    BY <1>0, <2>1, <2>3 DEF Told
  <2>6. Atomic!Ask(c, kind)
    BY <2>1, <2>4, <2>5 DEF Atomic!Ask, Asked, Told
  <2> QED
    BY <2>6 DEF Atomic!Next
<1>2. ASSUME NEW kind \in {"read", "write"}, ConnectFails(c, kind) PROVE A
  <2>1. tx[c].pc = "idle" /\ tx[c].kind = "none" /\ durable' = durable
    BY <1>0, <1>2 DEF ConnectFails
  <2>2. tx' = [tx EXCEPT ![c] = [pc |-> "over", kind |-> kind, result |-> "error"]]
    BY <1>2 DEF ConnectFails
  <2>3. Asked' = [Asked EXCEPT ![c] = kind]
    BY <1>0, <2>2 DEF Asked
  <2>4. Told' = [Told EXCEPT ![c] = "error"]
    BY <1>0, <2>2 DEF Told
  <2>5. Atomic!Refuse(c, kind)
    BY <2>1, <2>3, <2>4 DEF Atomic!Refuse, Asked, Told
  <2> QED
    BY <2>5 DEF Atomic!Next
<1>3. CASE Statement(c) \/ StatementFails(c) \/ Rollback(c)
  BY <1>0, <1>3 DEF Statement, StatementFails, Rollback, Moves, Atomic!avars
<1>4. CASE Commit(c) \/ CommitFails(c)
  <2>1. Asked' = Asked /\ Told' = Told
    BY <1>0, <1>4 DEF Commit, CommitFails, Moves, Asked, Told
  <2>2. CASE durable'[c] = durable[c]
    <3>1. durable' = durable
      BY <1>0, <1>4, <2>2 DEF Commit, CommitFails
    <3> QED
      BY <2>1, <3>1 DEF Atomic!avars, Asked, Told
  <2>3. CASE durable'[c] # durable[c]
    <3>1. tx[c].kind = "write" /\ tx[c].pc = "commit" /\ durable' = [durable EXCEPT ![c] = TRUE]
      BY <1>0, <1>4, <2>3 DEF Commit, CommitFails
    <3>2. Atomic!Effect(c)
      BY <2>1, <3>1 DEF Atomic!Effect, Asked, Told
    <3> QED
      BY <3>2 DEF Atomic!Next
  <2> QED
    BY <2>2, <2>3
<1>5. CASE Close(c)
  <2>1. PICK r \in {"value", "duplicate", "error"} :
            (r = tx[c].result \/ r = "error") /\ Moves(c, "over", r)
    BY <1>0, <1>5 DEF Close
  <2>2. Atomic!Tell(c, r)
    BY <1>0, <1>5, <2>1 DEF Close, Moves, Atomic!Tell
  <2> QED
    BY <2>2 DEF Atomic!Next
<1>6. CASE tx[c].pc = "over" /\ Forget(c)
  <2>1. Atomic!Forget(c)
    BY <1>0, <1>6 DEF Forget, Atomic!Forget
  <2> QED
    BY <2>1 DEF Atomic!Next
<1> QED
  BY <1>1, <1>2, <1>3, <1>4, <1>5, <1>6 DEF TxStep

\* So is every step.
LEMMA NextRefines == TxIInv /\ [TxNext]_tvars => [Atomic!Next]_Atomic!avars
<1> SUFFICES ASSUME TxIInv, [TxNext]_tvars PROVE [Atomic!Next]_Atomic!avars
  OBVIOUS
<1>1. CASE TxNext
  BY <1>1, StepRefines DEF TxNext
<1>2. CASE UNCHANGED tvars
  BY <1>2 DEF tvars, Atomic!avars
<1> QED
  BY <1>1, <1>2

\* XmrDb.transaction implements the atomic calls its callers take it for: a
\* value is returned after the write only, "duplicate" without it only, and an
\* error whichever of connect, statement, commit, rollback and close raises.
THEOREM TransactionIsAtomic == TxSpec => IsAtomic
<1>1. TxSpec => []TxIInv
  BY InitInv, NextInv, PTL DEF TxSpec
<1> QED
  BY <1>1, InitRefines, NextRefines, PTL DEF TxSpec, IsAtomic, Atomic!Spec

-----------------------------------------------------------------------------
\* What the loop, the threads and the handlers do to a transaction is what
\* XmrDb.transaction lets its callers do.
LEMMA HttpUses == HttpNext => [TxNext]_tvars
<1> SUFFICES ASSUME HttpNext PROVE [TxNext]_tvars
  OBVIOUS
<1>1. CASE \E r \in Callers, route \in Routes, trusted, secret \in BOOLEAN :
              Arrive(r, route, trusted, secret)
  BY <1>1 DEF Arrive, Idle, tvars
<1>2. CASE \E r \in Callers : Leave(r) \/ Receive(r) \/ Spin(r)
  BY <1>2 DEF Leave, Receive, Spin, Idle, tvars
<1>3. CASE \E r \in Callers : LoopStep(r)
  BY <1>3 DEF LoopStep, CheckClient, AfterVerify, AfterWritable, Route, Handle,
              AfterResolve, AfterRun, AfterSign, Respond, Idle, tvars
<1>4. CASE \E r \in Callers : Take(r)
  BY <1>4 DEF Take, tvars
<1>5. ASSUME NEW r \in Callers, JobStep(r) PROVE [TxNext]_tvars
  <2>1. CASE Verify(r) \/ ReturnEarly(r)
    BY <2>1 DEF Verify, ReturnEarly
  <2>2. CASE Begin(r)
    BY <2>2 DEF Begin, TxNext
  <2>3. CASE DbStep(r)
    BY <2>3 DEF DbStep, TxNext
  <2>4. CASE Return(r)
    BY <2>4 DEF Return, TxNext
  <2> QED
    BY <1>5, <2>1, <2>2, <2>3, <2>4 DEF JobStep
<1> QED
  BY <1>1, <1>2, <1>3, <1>4, <1>5 DEF HttpNext

\* The services use the database through atomic calls only, whatever requests,
\* threads and the loop do in between.
THEOREM ServicesAreAtomic == HttpSpec => IsAtomic
<1>1. HttpInit => TxInit
  BY DEF HttpInit
<1>2. [HttpNext]_hvars => [TxNext]_tvars
  BY HttpUses DEF hvars, tvars
<1>3. HttpSpec => TxSpec
  BY <1>1, <1>2, PTL DEF HttpSpec, TxSpec
<1> QED
  BY <1>3, TransactionIsAtomic
=============================================================================
