--------------------------- MODULE ClusterProofs ----------------------------
(***************************************************************************)
(* Proofs about Cluster, for any set of writes and any number of rounds.   *)
(* Types hold whatever happens; the rest holds while `intact`: no node was *)
(* promoted over an open peer, and no machine came back that had to stay   *)
(* away, because a restart of MariaDB forgets read_only.                   *)
(***************************************************************************)
EXTENDS Cluster, TLAPS

\* Which statements belong to which command.
ScriptOK ==
    /\ script.pc # "idle" => script.node \in Nodes
    /\ script.pc \in {"healthy", "stop", "wait", "read-only"} =>
          script.cmd = "failover-to"
    /\ script.pc \in {"reset", "open", "start"} =>
          script.cmd \in {"failover-to", "promote"}
    /\ script.pc \in {"demote", "position", "close", "forget", "replicate",
                      "running"} =>
          script.cmd \in {"failover-to", "demote"}
    /\ script.pc \in {"close", "forget", "replicate"} =>
          script.position <= Len(binlog[Peer(Demoted)])

TInv == TypeOK /\ ScriptOK

\* Who is closed while a command is about to open or to replicate.
Closed ==
    /\ script.pc \in {"reset", "open"} => ~Open(Source)
    /\ script.pc = "open" => slave[Target] = "none"
    /\ script.pc = "close" => readOnly[Demoted] \/ readOnly[Peer(Demoted)]
    /\ script.pc \in {"forget", "replicate"} => readOnly[Demoted]

OneOpen == \A m, n \in Nodes : Open(m) /\ Open(n) => m = n

RInv == OneOpen /\ ColdIsReadOnly /\ Closed

\* Where each write can be missing, and by which explanation.
Own == \A n \in Nodes : Entries(binlog[n], 1, Len(binlog[n])) \subseteq data[n]

Replicated ==
    \A n \in Nodes : slave[n] # "none" =>
        Entries(binlog[Peer(n)], 1, done[n]) \subseteq data[n] \cup explained

Adopted ==
    script.pc \in {"close", "forget", "replicate"} =>
        Entries(binlog[Peer(Demoted)], 1, script.position)
            \subseteq data[Demoted] \cup explained

Promotable ==
    \/ script.cmd = "failover-to" /\ script.pc \in {"read-only", "reset", "open"}
    \/ script.cmd = "promote" /\ script.pc = "open"
    => Written \ data[Target] \subseteq explained

SourceStopped == script.pc \in {"wait", "read-only"} => ~app[Source]

\* The open database has every write, also when its machine is down, as long as no
\* other has been opened since.
OpenHasAll ==
    \A n \in Nodes :
        ~readOnly[n] /\ (up[n] \/ readOnly[Peer(n)]) =>
            Written \ data[n] \subseteq explained

AInv == Own /\ Replicated /\ Adopted /\ Promotable /\ SourceStopped /\ OpenHasAll

\* The inductive invariant: the statements of a command and, while `intact`, who is
\* closed while the command opens or replicates, and where each write is.
IInv == TInv /\ (intact => RInv /\ AInv)

-----------------------------------------------------------------------------
\* The pair: every node has one peer, and is its peer's.
LEMMA Pair ==
    ASSUME NEW n \in Nodes
    PROVE  /\ Peer(n) \in Nodes
           /\ Peer(n) # n
           /\ \A m \in Nodes : m = n \/ m = Peer(n)
           /\ Peer(Peer(n)) = n
BY PairAssumption DEF Peer

\* What a script that is under way acts on.
LEMMA Actors ==
    ASSUME script.node \in Nodes
    PROVE  /\ Target \in Nodes /\ Source \in Nodes /\ Demoted \in Nodes
           /\ Source # Target /\ Peer(Source) = Target /\ Peer(Target) = Source
BY Pair DEF Target, Source, Demoted

\* The initial states have the types.
LEMMA InitTypes == Init => TInv
BY Pair, PairAssumption, BoundAssumption
   DEF Init, TInv, TypeOK, ScriptOK, NoScript, Script

\* A stretch of a binlog is made of writes.
LEMMA EntriesAreWrites ==
    ASSUME NEW log \in Seq(Writes), NEW first \in Nat \ {0}, NEW last \in Nat,
           last <= Len(log)
    PROVE  Entries(log, first, last) \subseteq Writes
<1>1. ASSUME NEW i \in first..last PROVE log[i] \in Writes
    BY <1>1
<1> QED
    BY <1>1 DEF Entries

\* So is everything committed.
LEMMA WrittenAreWrites ==
    ASSUME TypeOK PROVE Written \subseteq Writes
<1>1. ASSUME NEW n \in Nodes
      PROVE  Entries(binlog[n], 1, Len(binlog[n])) \subseteq Writes
    <2>1. binlog[n] \in Seq(Writes) /\ Len(binlog[n]) \in Nat
        BY DEF TypeOK
    <2> QED
        BY <2>1, EntriesAreWrites
<1> QED
    BY <1>1 DEF Written

\* The statements a command may stand at.
Statements == {"idle", "healthy", "stop", "wait", "read-only", "reset", "open",
               "demote", "position", "close", "forget", "replicate", "running",
               "start"}

\* A command that goes on to another statement acts on the same nodes.
LEMMA ScriptGoes ==
    ASSUME script \in Script, NEW pc \in Statements, Goes(pc)
    PROVE  /\ script' \in Script
           /\ script'.pc = pc /\ script'.cmd = script.cmd
           /\ script'.node = script.node /\ script'.position = script.position
           /\ Target' = Target /\ Source' = Source /\ Demoted' = Demoted
<1>1. /\ script' \in Script
      /\ script'.pc = pc /\ script'.cmd = script.cmd
      /\ script'.node = script.node /\ script'.position = script.position
    BY DEF Script, Goes, Statements
<1> QED
    BY <1>1 DEF Target, Source, Demoted

\* No command.
LEMMA NoScriptFields ==
    NoScript \in Script /\ NoScript.pc = "idle" /\ NoScript.cmd = "none"
BY DEF NoScript, Script

\* The types of all but the command, its positions included.
StateOK ==
    /\ up \in [Nodes -> BOOLEAN]
    /\ app \in [Nodes -> BOOLEAN]
    /\ readOnly \in [Nodes -> BOOLEAN]
    /\ slave \in [Nodes -> {"none", "running", "stopped"}]
    /\ binlog \in [Nodes -> Seq(Writes)]
    /\ got \in [Nodes -> Nat]
    /\ done \in [Nodes -> Nat]
    /\ \A n \in Nodes : done[n] <= got[n] /\ got[n] <= Len(binlog[Peer(n)])
    /\ data \in [Nodes -> SUBSET Writes]
    /\ recent \subseteq Writes
    /\ crashes \in 0..MaxCrashes
    /\ intact \in BOOLEAN
    /\ explained \subseteq Writes

\* The types are those of the state and of the command, now and next.
LEMMA TypeParts ==
    /\ TypeOK <=> StateOK /\ script \in Script
    /\ TypeOK' <=> StateOK' /\ script' \in Script
BY DEF TypeOK, StateOK, Script

\* A statement of a command keeps the types of the state.
LEMMA ScriptStepState == TInv /\ ScriptStep => StateOK'
<1> SUFFICES ASSUME StateOK, script \in Script, ScriptOK, ScriptStep PROVE StateOK'
    BY TypeParts DEF TInv
<1> USE BoundAssumption, NoNodeAssumption DEF machines, replication, tables
<1> DEFINE under == script.pc # "idle"
<1>1. under => /\ Target \in Nodes /\ Source \in Nodes /\ Demoted \in Nodes
               /\ Peer(Target) = Source /\ Peer(Demoted) \in Nodes
    BY Actors, Pair DEF ScriptOK, Target, Source
<1> HIDE DEF under
<1>2. CASE CheckHealthy \/ Wait \/ DemoteRunning \/ CheckFails
    BY <1>2 DEF CheckHealthy, Wait, DemoteRunning, CheckFails, StateOK
<1>3. CASE StopSource \/ DemoteStop \/ StartTarget
    BY <1>3 DEF StopSource, DemoteStop, StartTarget, StateOK
<1>4. CASE SetReadOnly \/ PromoteOpen \/ DemoteClose
    BY <1>4 DEF SetReadOnly, PromoteOpen, DemoteClose, StateOK
<1>5. CASE WaitOver
    <2>1. under
        BY <1>5 DEF WaitOver, At, under
    <2>2. /\ binlog[Source] \in Seq(Writes) /\ Len(binlog[Source]) \in Nat
          /\ got[Target] \in Nat /\ done[Target] \in Nat
          /\ got[Target] <= Len(binlog[Source])
        BY <1>1, <2>1 DEF StateOK
    <2>3. Entries(binlog[Source], got[Target] + 1, Len(binlog[Source])) \subseteq Writes
        BY <2>2, EntriesAreWrites
    <2>4. Entries(binlog[Source], done[Target] + 1, got[Target]) \subseteq Writes
        BY <2>2, EntriesAreWrites
    <2> QED
        BY <1>5, <2>3, <2>4 DEF WaitOver, StateOK
<1>6. CASE PromoteReset
    <2>1. Target \in Nodes
        BY <1>1, <1>6 DEF PromoteReset, At, under
    <2>2. explained' \subseteq Writes
        BY <1>6, WrittenAreWrites, TypeParts DEF PromoteReset, StateOK
    <2> QED
        BY <1>6, <2>1, <2>2 DEF PromoteReset, StateOK
<1>7. CASE DemotePosition
    <2>1. Demoted \in Nodes /\ Peer(Demoted) \in Nodes
        BY <1>1, <1>7 DEF DemotePosition, At, under
    <2>2. binlog[Peer(Demoted)] \in Seq(Writes) /\ Len(binlog[Peer(Demoted)]) \in Nat
        BY <2>1 DEF StateOK
    <2>3. Entries(binlog[Peer(Demoted)], 1, Len(binlog[Peer(Demoted)])) \subseteq Writes
        BY <2>2, EntriesAreWrites
    <2> QED
        BY <1>7, <2>3 DEF DemotePosition, StateOK
<1>8. CASE DemoteForget
    <2>1. Demoted \in Nodes
        BY <1>1, <1>8 DEF DemoteForget, At, under
    <2> QED
        BY <1>8, <2>1 DEF DemoteForget, StateOK
<1>9. CASE DemoteReplicate
    <2>1. Demoted \in Nodes
        BY <1>1, <1>9 DEF DemoteReplicate, At, under
    <2>2. script.position \in Nat /\ script.position <= Len(binlog[Peer(Demoted)])
        BY <1>9 DEF DemoteReplicate, At, ScriptOK, Script
    <2> QED
        BY <1>9, <2>1, <2>2 DEF DemoteReplicate, StateOK
<1> QED
    BY <1>2, <1>3, <1>4, <1>5, <1>6, <1>7, <1>8, <1>9 DEF ScriptStep

\* It moves the command to a statement of the command's own.
LEMMA ScriptStepScript == TInv /\ ScriptStep => script' \in Script /\ ScriptOK'
<1> SUFFICES ASSUME StateOK, script \in Script, ScriptOK, ScriptStep
             PROVE  script' \in Script /\ ScriptOK'
    BY TypeParts DEF TInv
<1> USE NoNodeAssumption DEF At, ScriptOK, Statements
<1>1. CASE CheckHealthy
    BY <1>1, ScriptGoes DEF CheckHealthy
<1>2. CASE StopSource
    BY <1>2, ScriptGoes DEF StopSource
<1>3. CASE Wait
    <2>1. CASE script.tries < MaxTries
        <3>1. /\ script' \in Script
              /\ script'.pc = "wait" /\ script'.cmd = script.cmd
              /\ script'.node = script.node
            BY <1>3, <2>1 DEF Wait, Script
        <3> QED
            BY <1>3, <3>1 DEF Wait
    <2>2. CASE ~(script.tries < MaxTries)
        BY <1>3, <2>2, NoScriptFields DEF Wait
    <2> QED
        BY <2>1, <2>2
<1>4. CASE WaitOver
    BY <1>4, ScriptGoes DEF WaitOver
<1>5. CASE SetReadOnly
    BY <1>5, ScriptGoes DEF SetReadOnly
<1>6. CASE PromoteReset
    BY <1>6, ScriptGoes DEF PromoteReset
<1>7. CASE PromoteOpen
    <2>1. CASE script.cmd = "promote"
        BY <1>7, <2>1, ScriptGoes DEF PromoteOpen
    <2>2. CASE script.cmd = "failover-to"
        BY <1>7, <2>2, ScriptGoes DEF PromoteOpen
    <2> QED
        BY <1>7, <2>1, <2>2 DEF PromoteOpen
<1>8. CASE DemoteStop
    BY <1>8, ScriptGoes DEF DemoteStop
<1>9. CASE DemotePosition
    <2>1. Len(binlog[Peer(Demoted)]) \in Nat
        <3>1. Peer(Demoted) \in Nodes
            BY <1>9, Actors, Pair DEF DemotePosition
        <3> QED
            BY <3>1 DEF StateOK
    <2>2. /\ script' \in Script
          /\ script'.pc = "close" /\ script'.cmd = script.cmd
          /\ script'.node = script.node
          /\ script'.position = Len(binlog[Peer(Demoted)])
        BY <1>9, <2>1 DEF DemotePosition, Script
    <2>3. Demoted' = Demoted /\ binlog' = binlog
        BY <1>9, <2>2 DEF Demoted, Source, DemotePosition, tables
    <2> QED
        BY <1>9, <2>1, <2>2, <2>3 DEF DemotePosition
<1>10. CASE DemoteClose
    BY <1>10, ScriptGoes DEF DemoteClose, tables
<1>11. CASE DemoteForget
    BY <1>11, ScriptGoes DEF DemoteForget, tables
<1>12. CASE DemoteReplicate
    BY <1>12, ScriptGoes DEF DemoteReplicate
<1>13. CASE DemoteRunning
    <2>1. CASE script.cmd = "demote"
        BY <1>13, <2>1, NoScriptFields DEF DemoteRunning, Ends
    <2>2. CASE script.cmd # "demote"
        BY <1>13, <2>2, ScriptGoes DEF DemoteRunning
    <2> QED
        BY <2>1, <2>2
<1>14. CASE StartTarget \/ CheckFails
    BY <1>14, NoScriptFields DEF StartTarget, CheckFails, Ends
<1> QED
    BY <1>1, <1>2, <1>3, <1>4, <1>5, <1>6, <1>7, <1>8, <1>9, <1>10, <1>11, <1>12,
       <1>13, <1>14 DEF ScriptStep

\* A step that leaves the command alone, and does not shorten a binlog.
LEMMA SameScript ==
    ASSUME TInv, StateOK', UNCHANGED script,
           \A n \in Nodes : Len(binlog[n]) <= Len(binlog'[n])
    PROVE  TInv'
<1>1. Demoted' = Demoted
    BY DEF Demoted, Source
<1>2. ASSUME script.pc \in {"close", "forget", "replicate"}
      PROVE  script.position <= Len(binlog'[Peer(Demoted)])
    <2>1. Peer(Demoted) \in Nodes
        BY <1>2, Actors, Pair DEF TInv, ScriptOK
    <2>2. /\ script.position \in Nat
          /\ Len(binlog[Peer(Demoted)]) \in Nat /\ Len(binlog'[Peer(Demoted)]) \in Nat
        BY <2>1, TypeParts DEF TInv, StateOK, Script
    <2>3. script.position <= Len(binlog[Peer(Demoted)])
        BY <1>2 DEF TInv, ScriptOK
    <2> QED
        BY <2>1, <2>2, <2>3
<1> QED
    BY <1>1, <1>2, TypeParts DEF TInv, ScriptOK

\* A write on a node that accepts it.
LEMMA CommitTypes ==
    ASSUME TInv, NEW n \in Nodes, NEW tx \in Writes, NEW service \in {"xmr", "xmr-admin"},
           Commit(n, service, tx)
    PROVE  TInv'
<1> USE TypeParts DEF TInv
<1>1. /\ binlog' = [binlog EXCEPT ![n] = Append(@, tx)]
      /\ binlog' \in [Nodes -> Seq(Writes)]
    BY DEF Commit, StateOK
<1>2. ASSUME NEW m \in Nodes
      PROVE  Len(binlog[m]) \in Nat /\ Len(binlog'[m]) \in Nat
             /\ Len(binlog[m]) <= Len(binlog'[m])
    BY <1>1 DEF StateOK
<1>3. \A m \in Nodes : done[m] <= got[m] /\ got[m] <= Len(binlog'[Peer(m)])
    <2> TAKE m \in Nodes
    <2>1. /\ Peer(m) \in Nodes /\ got[m] \in Nat
          /\ done[m] <= got[m] /\ got[m] <= Len(binlog[Peer(m)])
        BY Pair DEF StateOK
    <2> QED
        BY <2>1, <1>2
<1>4. StateOK'
    BY <1>1, <1>3 DEF Commit, StateOK, machines, replication
<1> QED
    BY <1>2, <1>4, SameScript DEF Commit

\* Every step keeps the types.
LEMMA NextTypes == TInv /\ [Next]_vars => TInv'
<1> SUFFICES ASSUME TInv, [Next]_vars PROVE TInv'
    OBVIOUS
<1> USE BoundAssumption, TypeParts DEF TInv, machines, replication, tables
<1>0. \A n \in Nodes : Len(binlog[n]) \in Nat
    BY DEF StateOK
<1>1. CASE UNCHANGED vars
    <2>1. StateOK'
        BY <1>1 DEF vars, StateOK
    <2> QED
        BY <1>0, <1>1, <2>1, SameScript DEF vars
<1>2. CASE ScriptStep
    BY <1>2, ScriptStepState, ScriptStepScript
<1>3. CASE Dies
    <2>1. StateOK'
        BY <1>3 DEF Dies, StateOK
    <2> QED
        BY <1>3, <2>1, NoScriptFields DEF Dies, Ends, ScriptOK
<1>4. CASE Operator
    <2>1. PICK n \in Nodes : FailoverTo(n) \/ Promote(n) \/ Demote(n) \/ Restart(n)
        BY <1>4 DEF Operator
    <2>2. CASE Restart(n)
        <3>1. StateOK'
            BY <2>2 DEF Restart, StateOK
        <3> QED
            BY <1>0, <2>2, <3>1, SameScript DEF Restart
    <2>3. CASE FailoverTo(n) \/ Promote(n) \/ Demote(n)
        <3>1. StateOK'
            BY <2>3 DEF FailoverTo, Promote, Demote, StateOK
        <3>2. script' \in Script /\ script'.node = n
            <4>1. CASE FailoverTo(n)
                BY <4>1 DEF FailoverTo, NoScript, Script
            <4>2. CASE Promote(n)
                BY <4>2 DEF Promote, NoScript, Script
            <4>3. CASE Demote(n)
                BY <4>3 DEF Demote, NoScript, Script
            <4> QED
                BY <2>3, <4>1, <4>2, <4>3
        <3>3. \/ script'.pc = "healthy" /\ script'.cmd = "failover-to"
              \/ script'.pc = "reset" /\ script'.cmd = "promote"
              \/ script'.pc = "demote" /\ script'.cmd = "demote"
            BY <2>3 DEF FailoverTo, Promote, Demote, NoScript
        <3> QED
            BY <3>1, <3>2, <3>3 DEF ScriptOK
    <2> QED
        BY <2>1, <2>2, <2>3
<1>5. ASSUME NEW n \in Nodes, NEW tx \in Writes,
             Commit(n, "xmr", tx) \/ Commit(n, "xmr-admin", tx)
      PROVE  TInv'
    BY <1>5, CommitTypes
<1>6. ASSUME NEW n \in Nodes, Receive(n) PROVE TInv'
    <2>1. got[n] \in Nat /\ Len(binlog[Peer(n)]) \in Nat /\ Peer(n) \in Nodes
        BY <1>0, Pair DEF StateOK
    <2>2. got' = [got EXCEPT ![n] = @ + 1] /\ got \in [Nodes -> Nat]
        BY <1>6 DEF Receive, StateOK
    <2>3. /\ got' \in [Nodes -> Nat]
          /\ \A m \in Nodes : done[m] <= got'[m] /\ got'[m] <= Len(binlog[Peer(m)])
        <3>1. got'[n] = got[n] + 1 /\ \A m \in Nodes \ {n} : got'[m] = got[m]
            BY <2>2
        <3>2. got[n] < Len(binlog[Peer(n)]) /\ done[n] \in Nat /\ done[n] <= got[n]
            BY <1>6 DEF Receive, StateOK
        <3>3. \A m \in Nodes : done[m] <= got[m] /\ got[m] <= Len(binlog[Peer(m)])
            BY DEF StateOK
        <3> QED
            BY <2>1, <2>2, <3>1, <3>2, <3>3
    <2>4. StateOK'
        BY <1>6, <2>3 DEF Receive, StateOK
    <2> QED
        BY <1>0, <1>6, <2>4, SameScript DEF Receive
<1>7. ASSUME NEW n \in Nodes, Apply(n) PROVE TInv'
    <2>1. /\ got[n] \in Nat /\ done[n] \in Nat /\ Peer(n) \in Nodes
          /\ got[n] <= Len(binlog[Peer(n)]) /\ binlog[Peer(n)] \in Seq(Writes)
        BY Pair DEF StateOK
    <2>2. binlog[Peer(n)][done[n] + 1] \in Writes
        BY <1>7, <2>1 DEF Apply
    <2>3. StateOK'
        BY <1>7, <2>1, <2>2 DEF Apply, StateOK
    <2> QED
        BY <1>0, <1>7, <2>3, SameScript DEF Apply
<1>8. ASSUME NEW n \in Nodes, Breaks(n) PROVE TInv'
    <2>1. StateOK'
        BY <1>8 DEF Breaks, StateOK
    <2> QED
        BY <1>0, <1>8, <2>1, SameScript DEF Breaks
<1>9. CASE SecondPasses
    <2>1. StateOK'
        BY <1>9 DEF SecondPasses, StateOK
    <2> QED
        BY <1>0, <1>9, <2>1, SameScript DEF SecondPasses
<1>10. ASSUME NEW n \in Nodes, Crash(n) \/ Boot(n) PROVE TInv'
    <2>1. StateOK'
        <3>1. CASE Crash(n)
            BY <3>1 DEF Crash, StateOK
        <3>2. CASE Boot(n)
            <4>1. slave' \in [Nodes -> {"none", "running", "stopped"}]
                BY <3>2 DEF Boot, StateOK
            <4>2. /\ up' \in [Nodes -> BOOLEAN] /\ app' \in [Nodes -> BOOLEAN]
                  /\ readOnly' \in [Nodes -> BOOLEAN]
                BY <3>2, Zenon DEF Boot, StateOK
            <4> QED
                BY <3>2, <4>1, <4>2 DEF Boot, StateOK
        <3> QED
            BY <1>10, <3>1, <3>2
    <2> QED
        BY <1>0, <1>10, <2>1, SameScript DEF Crash, Boot
<1> QED
    BY <1>1, <1>2, <1>3, <1>4, <1>5, <1>6, <1>7, <1>8, <1>9, <1>10 DEF Next

\* The types hold on every run, with any number of crashes: a position never
\* passes the end of the binlog it points into.
THEOREM TypeCorrect == Spec => []TypeOK
<1>1. Init => TInv
    BY InitTypes
<1>2. TInv /\ [Next]_vars => TInv'
    BY NextTypes
<1>3. TInv => TypeOK
    BY DEF TInv
<1> QED
    BY <1>1, <1>2, <1>3, PTL DEF Spec

-----------------------------------------------------------------------------
(* While `intact`: who is closed.                                          *)

\* At the start the hot node is open and the cold one replicates, closed.
LEMMA InitReplicas == Init => RInv
<1> SUFFICES ASSUME Init PROVE RInv
    OBVIOUS
<1>1. OneOpen
    BY DEF Init, OneOpen, Open
<1>2. ColdIsReadOnly
    BY DEF Init, ColdIsReadOnly
<1>3. Closed
    BY DEF Init, Closed, NoScript
<1> QED
    BY <1>1, <1>2, <1>3 DEF RInv

\* A statement of a command keeps it so: only PromoteOpen opens a database, and
\* the other is closed by then; only DemoteReplicate starts a replica, which is
\* closed by then.
LEMMA ScriptStepReplicas == TInv /\ RInv /\ ScriptStep => RInv'
<1> SUFFICES ASSUME StateOK, script \in Script, ScriptOK, RInv, ScriptStep
             PROVE  RInv'
    BY TypeParts DEF TInv
<1> USE DEF RInv, OneOpen, Open, ColdIsReadOnly, Closed, At, machines, replication,
            tables, Statements
<1> DEFINE under == script.pc # "idle"
<1>1. under => /\ Target \in Nodes /\ Source \in Nodes /\ Demoted \in Nodes
               /\ Target # Source /\ \A m \in Nodes : m = Target \/ m = Source
    BY Actors, Pair DEF ScriptOK, Target, Source
<1> HIDE DEF under
<1>2. CASE CheckHealthy \/ StopSource \/ WaitOver \/ DemoteStop
    BY <1>2, ScriptGoes DEF CheckHealthy, StopSource, WaitOver, DemoteStop
<1>3. CASE Wait
    <2>1. script'.pc \in {"wait", "idle"}
        BY <1>3, NoScriptFields DEF Wait, Script
    <2> QED
        BY <1>3, <2>1 DEF Wait
<1>4. CASE SetReadOnly
    <2>1. script'.pc = "reset" /\ Source' = Source /\ Source \in Nodes
        BY <1>1, <1>4, ScriptGoes DEF SetReadOnly, under
    <2>2. readOnly' = [readOnly EXCEPT ![Source] = TRUE] /\ up' = up /\ slave' = slave
        BY <1>4 DEF SetReadOnly
    <2> QED
        BY <2>1, <2>2 DEF StateOK
<1>5. CASE PromoteReset
    <2>1. script'.pc = "open" /\ Source' = Source /\ Target' = Target
        BY <1>5, ScriptGoes DEF PromoteReset
    <2>2. Target \in Nodes
        BY <1>1, <1>5 DEF PromoteReset, under
    <2> QED
        BY <1>5, <2>1, <2>2 DEF PromoteReset, StateOK
<1>6. CASE PromoteOpen
    <2>1. script'.pc \in {"start", "demote"}
        BY <1>6, ScriptGoes DEF PromoteOpen
    <2>2. /\ Target \in Nodes /\ Target # Source
          /\ \A m \in Nodes : m = Target \/ m = Source
        BY <1>1, <1>6 DEF PromoteOpen, under
    <2>3. ~Open(Source) /\ slave[Target] = "none"
        BY <1>6 DEF PromoteOpen
    <2>4. readOnly' = [readOnly EXCEPT ![Target] = FALSE] /\ up' = up /\ slave' = slave
        BY <1>6 DEF PromoteOpen
    <2> QED
        BY <2>1, <2>2, <2>3, <2>4 DEF StateOK
<1>7. CASE DemotePosition
    <2>1. script'.pc = "close"
        BY <1>7 DEF DemotePosition, Script
    <2>2. /\ Demoted \in Nodes /\ Peer(Demoted) \in Nodes /\ Peer(Demoted) # Demoted
          /\ up[Demoted] /\ up[Peer(Demoted)] /\ UNCHANGED <<up, readOnly, slave>>
        BY <1>1, <1>7, Pair DEF DemotePosition, under
    <2>3. readOnly[Demoted] \/ readOnly[Peer(Demoted)]
        BY <2>2
    <2>4. Demoted' = Demoted
        BY <1>7 DEF DemotePosition, Script, Demoted, Source
    <2> QED
        BY <2>1, <2>2, <2>3, <2>4
<1>8. CASE DemoteClose
    <2>1. script'.pc = "forget" /\ Demoted' = Demoted /\ Demoted \in Nodes
        BY <1>1, <1>8, ScriptGoes DEF DemoteClose, under
    <2>2. readOnly' = [readOnly EXCEPT ![Demoted] = TRUE] /\ up' = up /\ slave' = slave
        BY <1>8 DEF DemoteClose
    <2> QED
        BY <2>1, <2>2 DEF StateOK
<1>9. CASE DemoteForget
    <2>1. script'.pc = "replicate" /\ Demoted' = Demoted /\ Demoted \in Nodes
        BY <1>1, <1>9, ScriptGoes DEF DemoteForget, under
    <2> QED
        BY <1>9, <2>1 DEF DemoteForget, StateOK
<1>10. CASE DemoteReplicate
    <2>1. script'.pc = "running" /\ Demoted \in Nodes
        BY <1>1, <1>10, ScriptGoes DEF DemoteReplicate, under
    <2> QED
        BY <1>10, <2>1 DEF DemoteReplicate, StateOK
<1>11. CASE DemoteRunning \/ StartTarget \/ CheckFails
    <2>1. script'.pc \in {"start", "idle"}
        BY <1>11, ScriptGoes, NoScriptFields
           DEF DemoteRunning, StartTarget, CheckFails, Ends
    <2>2. UNCHANGED <<up, readOnly, slave>>
        BY <1>11 DEF DemoteRunning, StartTarget, CheckFails
    <2> QED
        BY <2>1, <2>2
<1> QED
    BY <1>2, <1>3, <1>4, <1>5, <1>6, <1>7, <1>8, <1>9, <1>10, <1>11 DEF ScriptStep

\* Every step keeps it so, unless it brings back a machine that had to stay away.
LEMMA NextReplicas ==
    ASSUME TInv, RInv, [Next]_vars, intact' PROVE RInv'
<1>0. StateOK /\ script \in Script /\ ScriptOK
    BY TypeParts DEF TInv
<1> USE DEF RInv, OneOpen, Open, ColdIsReadOnly, Closed, At, machines, replication, tables
<1>1. ASSUME UNCHANGED <<up, readOnly, slave, script>> PROVE RInv'
    BY <1>1 DEF Target, Source, Demoted
<1>2. CASE ScriptStep
    BY <1>2, ScriptStepReplicas
<1>3. CASE Dies
    BY <1>3, NoScriptFields DEF Dies, Ends
<1>4. CASE Operator
    <2>1. PICK n \in Nodes : FailoverTo(n) \/ Promote(n) \/ Demote(n) \/ Restart(n)
        BY <1>4 DEF Operator
    <2>2. CASE Restart(n)
        BY <1>1, <2>2 DEF Restart
    <2>3. CASE FailoverTo(n) \/ Demote(n)
        <3>1. script'.pc \in {"healthy", "demote"}
            BY <2>3 DEF FailoverTo, Demote, NoScript
        <3>2. UNCHANGED <<up, readOnly, slave>>
            BY <2>3 DEF FailoverTo, Demote
        <3> QED
            BY <3>1, <3>2
    <2>4. CASE Promote(n)
        <3>1. script'.pc = "reset" /\ Source' = Peer(n)
            BY <2>4 DEF Promote, NoScript, Source
        <3>2. ~Open(Peer(n)) /\ UNCHANGED <<up, readOnly, slave>>
            BY <2>4 DEF Promote
        <3> QED
            BY <3>1, <3>2
    <2> QED
        BY <2>1, <2>2, <2>3, <2>4
<1>5. ASSUME NEW n \in Nodes, NEW tx \in Writes,
             Commit(n, "xmr", tx) \/ Commit(n, "xmr-admin", tx)
      PROVE  RInv'
    BY <1>1, <1>5 DEF Commit
<1>6. ASSUME NEW n \in Nodes, Receive(n) \/ Apply(n) PROVE RInv'
    BY <1>1, <1>6 DEF Receive, Apply
<1>7. ASSUME NEW n \in Nodes, Breaks(n) PROVE RInv'
    <2>1. script.pc = "open" => Target \in Nodes
        BY <1>0, Actors DEF ScriptOK, Target
    <2>2. /\ UNCHANGED <<up, readOnly, script>>
          /\ Target' = Target /\ Source' = Source /\ Demoted' = Demoted
        BY <1>7 DEF Breaks, Target, Source, Demoted
    <2>3. \A m \in Nodes : slave'[m] # "none" <=> slave[m] # "none"
        BY <1>0, <1>7 DEF Breaks, StateOK
    <2> QED
        BY <2>1, <2>2, <2>3
<1>8. CASE SecondPasses
    BY <1>1, <1>8 DEF SecondPasses
<1>9. ASSUME NEW n \in Nodes, Crash(n) PROVE RInv'
    <2>1. /\ UNCHANGED <<readOnly, slave, script>>
          /\ \A m \in Nodes : up'[m] => up[m]
          /\ Target' = Target /\ Source' = Source /\ Demoted' = Demoted
        BY <1>0, <1>9 DEF Crash, StateOK, Target, Source, Demoted
    <2>2. script.pc \in {"reset", "open"} => Source \in Nodes
        BY <1>0, Actors DEF ScriptOK
    <2> QED
        BY <2>1, <2>2
<1>11. ASSUME NEW n \in Nodes, Boot(n) PROVE RInv'
    <2>1. /\ ~readOnly[n] /\ readOnly[Peer(n)]
          /\ script.pc \in {"reset", "open"} => Source # n
        BY <1>11 DEF Boot, Harmless
    <2>2. /\ UNCHANGED script
          /\ Target' = Target /\ Source' = Source /\ Demoted' = Demoted
        BY <1>11 DEF Boot, Target, Source, Demoted
    <2>3. /\ readOnly' = readOnly
          /\ \A m \in Nodes : m # n => up'[m] = up[m]
          /\ \A m \in Nodes : slave'[m] # "none" <=> slave[m] # "none"
        BY <1>0, <1>11, <2>1 DEF Boot, StateOK
    <2>4. \A m \in Nodes : m = n \/ m = Peer(n)
        BY Pair
    <2>5. /\ script.pc \in {"reset", "open"} => Source \in Nodes /\ Target \in Nodes
        BY <1>0, Actors DEF ScriptOK
    <2> QED
        BY <2>1, <2>2, <2>3, <2>4, <2>5
<1>10. CASE UNCHANGED vars
    BY <1>1, <1>10 DEF vars
<1> QED
    BY <1>2, <1>3, <1>4, <1>5, <1>6, <1>7, <1>8, <1>9, <1>10, <1>11 DEF Next

-----------------------------------------------------------------------------
(* While `intact`: where every write is.                                   *)

\* A stretch of a binlog falls into what precedes a position and what follows.
LEMMA EntriesSplit ==
    ASSUME NEW log, NEW first \in Nat, NEW middle \in Nat, NEW last \in Nat
    PROVE  Entries(log, first, last)
               \subseteq Entries(log, first, middle) \cup Entries(log, middle + 1, last)
<1>1. ASSUME NEW i \in first..last PROVE i \in first..middle \/ i \in (middle + 1)..last
    BY <1>1
<1> QED
    BY <1>1 DEF Entries

\* A shorter stretch is in a longer one.
LEMMA EntriesWithin ==
    ASSUME NEW log, NEW first \in Nat, NEW middle \in Nat, NEW last \in Nat,
           middle <= last
    PROVE  Entries(log, first, middle) \subseteq Entries(log, first, last)
<1>1. ASSUME NEW i \in first..middle PROVE i \in first..last
    BY <1>1
<1> QED
    BY <1>1 DEF Entries

\* A write appended to a binlog is after all that was there.
LEMMA EntriesAppend ==
    ASSUME NEW log \in Seq(Writes), NEW tx \in Writes, NEW k \in Nat, k <= Len(log)
    PROVE  /\ Entries(Append(log, tx), 1, k) = Entries(log, 1, k)
           /\ Entries(Append(log, tx), 1, Len(Append(log, tx)))
                  \subseteq Entries(log, 1, Len(log)) \cup {tx}
<1>1. ASSUME NEW i \in 1..Len(log) PROVE Append(log, tx)[i] = log[i]
    BY <1>1
<1>2. \A i \in 1..k : i \in 1..Len(log)
    OBVIOUS
<1>3. Len(Append(log, tx)) = Len(log) + 1 /\ Append(log, tx)[Len(log) + 1] = tx
    OBVIOUS
<1>4. \A i \in 1..(Len(log) + 1) : i \in 1..Len(log) \/ i = Len(log) + 1
    OBVIOUS
<1>5. Entries(Append(log, tx), 1, k) = Entries(log, 1, k)
    BY <1>1, <1>2 DEF Entries
<1> QED
    BY <1>1, <1>3, <1>4, <1>5 DEF Entries

\* What has been committed was committed on one of the two nodes.
LEMMA WrittenOnPair ==
    ASSUME NEW n \in Nodes
    PROVE  Written = Entries(binlog[n], 1, Len(binlog[n]))
                       \cup Entries(binlog[Peer(n)], 1, Len(binlog[Peer(n)]))
BY Pair DEF Written

\* At the start nothing has been written.
LEMMA InitAccounts == Init => AInv
<1> SUFFICES ASSUME Init PROVE AInv
    OBVIOUS
<1>1. \A n \in Nodes, k \in {0} : Entries(binlog[n], 1, k) = {}
    BY DEF Init, Entries
<1>2. \A n \in Nodes : Len(binlog[n]) = 0 /\ done[n] = 0 /\ Peer(n) \in Nodes
    BY Pair DEF Init
<1>3. Written = {}
    BY <1>1, <1>2 DEF Written
<1>4. script.pc = "idle"
    BY DEF Init, NoScript
<1> QED
    BY <1>1, <1>2, <1>3, <1>4
       DEF AInv, Own, Replicated, Adopted, Promotable, SourceStopped, OpenHasAll

\* A step that opens no database, starts no replica and commits nothing loses
\* nothing.
LEMMA QuietSteps ==
    ASSUME TInv, AInv, UNCHANGED <<binlog, done>>,
           \A n \in Nodes : data[n] \subseteq data'[n],
           explained \subseteq explained',
           \A n \in Nodes : slave'[n] # "none" => slave[n] # "none",
           \A n \in Nodes : ~readOnly'[n] /\ (up'[n] \/ readOnly'[Peer(n)]) =>
                               ~readOnly[n] /\ (up[n] \/ readOnly[Peer(n)])
    PROVE  Own' /\ Replicated' /\ OpenHasAll'
<1>1. Written' = Written
    BY DEF Written
<1>2. Own'
    BY DEF AInv, Own
<1>3. Replicated'
    BY DEF AInv, Replicated
<1>4. OpenHasAll'
    BY <1>1 DEF AInv, OpenHasAll
<1> QED
    BY <1>2, <1>3, <1>4

\* The same of what a command that is under way relies on.
LEMMA QuietScript ==
    ASSUME TInv, AInv, UNCHANGED <<binlog, script, app>>,
           \A n \in Nodes : data[n] \subseteq data'[n],
           explained \subseteq explained'
    PROVE  Adopted' /\ Promotable' /\ SourceStopped'
<1>1. Target' = Target /\ Source' = Source /\ Demoted' = Demoted /\ Written' = Written
    BY DEF Target, Source, Demoted, Written
<1>2. script.pc # "idle" => Target \in Nodes /\ Demoted \in Nodes
    BY Actors DEF TInv, ScriptOK
<1>3. Adopted'
    BY <1>1, <1>2 DEF AInv, Adopted
<1>4. Promotable'
    BY <1>1, <1>2 DEF AInv, Promotable
<1>5. SourceStopped'
    BY <1>1 DEF AInv, SourceStopped
<1> QED
    BY <1>3, <1>4, <1>5

\* The check of failover_to, with what is excused by it: when it passes, the
\* replica has everything else.
LEMMA WaitOverPromotable ==
    ASSUME TInv, AInv, WaitOver PROVE Written \ data[Target] \subseteq explained'
<1>1. Target \in Nodes /\ Source \in Nodes /\ Peer(Target) = Source
    BY Actors, Pair DEF TInv, ScriptOK, WaitOver, At, Target, Source
<1>2. /\ done[Target] \in Nat /\ got[Target] \in Nat
      /\ Len(binlog[Source]) \in Nat
    BY <1>1, TypeParts DEF TInv, StateOK
<1>3. Written = Entries(binlog[Target], 1, Len(binlog[Target]))
                  \cup Entries(binlog[Source], 1, Len(binlog[Source]))
    BY <1>1, WrittenOnPair
<1>4. Entries(binlog[Target], 1, Len(binlog[Target])) \subseteq data[Target]
    BY <1>1 DEF AInv, Own
<1>5. Entries(binlog[Source], 1, done[Target]) \subseteq data[Target] \cup explained
    BY <1>1 DEF AInv, Replicated, WaitOver, CaughtUp, Healthy
<1>6. Entries(binlog[Source], done[Target] + 1, got[Target]) \subseteq explained'
    BY <1>1 DEF WaitOver, CaughtUp
<1>7. Entries(binlog[Source], got[Target] + 1, Len(binlog[Source])) \subseteq explained'
    BY DEF WaitOver
<1>8. Entries(binlog[Source], 1, Len(binlog[Source]))
          \subseteq Entries(binlog[Source], 1, done[Target])
              \cup Entries(binlog[Source], done[Target] + 1, got[Target])
              \cup Entries(binlog[Source], got[Target] + 1, Len(binlog[Source]))
    <2>1. Entries(binlog[Source], 1, Len(binlog[Source]))
              \subseteq Entries(binlog[Source], 1, got[Target])
                  \cup Entries(binlog[Source], got[Target] + 1, Len(binlog[Source]))
        BY <1>2, EntriesSplit
    <2>2. Entries(binlog[Source], 1, got[Target])
              \subseteq Entries(binlog[Source], 1, done[Target])
                  \cup Entries(binlog[Source], done[Target] + 1, got[Target])
        BY <1>2, EntriesSplit
    <2> QED
        BY <2>1, <2>2
<1>9. explained \subseteq explained'
    BY DEF WaitOver
<1> QED
    BY <1>3, <1>4, <1>5, <1>6, <1>7, <1>8, <1>9

\* Every statement of a command accounts for what it leaves behind.
LEMMA ScriptStepAccounts == TInv /\ RInv /\ AInv /\ ScriptStep => AInv'
<1> SUFFICES ASSUME TInv, RInv, AInv, ScriptStep
             PROVE  /\ Own' /\ Replicated' /\ OpenHasAll'
                    /\ Adopted' /\ Promotable' /\ SourceStopped'
    BY DEF AInv
<1>0. StateOK /\ script \in Script /\ ScriptOK
    BY TypeParts DEF TInv
<1> USE DEF At, Open, machines, replication, tables, Statements
<1> DEFINE under == script.pc # "idle"
<1>1. under => /\ Target \in Nodes /\ Source \in Nodes /\ Demoted \in Nodes
               /\ Target # Source /\ Peer(Demoted) \in Nodes
    BY <1>0, Actors, Pair DEF ScriptOK, Target, Source
<1> HIDE DEF under
<1>2. ASSUME script'.pc \in {"idle", "healthy", "stop", "demote", "position",
                             "running", "start"}
      PROVE  Adopted' /\ Promotable' /\ SourceStopped'
    BY <1>2 DEF Adopted, Promotable, SourceStopped
<1>3. CASE CheckHealthy \/ DemoteStop \/ DemoteRunning \/ StartTarget \/ CheckFails
    <2>1. Own' /\ Replicated' /\ OpenHasAll'
        <3>1. /\ UNCHANGED <<up, binlog, done, data, explained, slave, readOnly>>
            BY <1>3 DEF CheckHealthy, DemoteStop, DemoteRunning, StartTarget, CheckFails
        <3> QED
            BY <3>1, QuietSteps
    <2>2. script'.pc \in {"idle", "stop", "position", "start"}
        BY <1>0, <1>3, ScriptGoes, NoScriptFields
           DEF CheckHealthy, DemoteStop, DemoteRunning, StartTarget, CheckFails, Ends
    <2> QED
        BY <1>2, <2>1, <2>2
<1>4. CASE StopSource
    <2>1. Own' /\ Replicated' /\ OpenHasAll'
        BY <1>4, QuietSteps DEF StopSource
    <2>2. script'.pc = "wait" /\ Source' = Source /\ Source \in Nodes
        BY <1>0, <1>1, <1>4, ScriptGoes DEF StopSource, under
    <2>3. ~app'[Source]
        BY <1>0, <1>4, <2>2 DEF StopSource, StateOK
    <2> QED
        BY <2>1, <2>2, <2>3 DEF Adopted, Promotable, SourceStopped
<1>5. CASE Wait
    <2>1. Own' /\ Replicated' /\ OpenHasAll'
        BY <1>5, QuietSteps DEF Wait
    <2>2. CASE script.tries < MaxTries
        <3>1. script'.pc = "wait" /\ script'.node = script.node /\ app' = app
            BY <1>0, <1>5, <2>2 DEF Wait, Script
        <3>2. ~app[Source]
            BY <1>5 DEF Wait, AInv, SourceStopped
        <3> QED
            BY <2>1, <3>1, <3>2 DEF Adopted, Promotable, SourceStopped, Source
    <2>3. CASE ~(script.tries < MaxTries)
        BY <1>2, <1>5, <2>1, <2>3, NoScriptFields DEF Wait
    <2> QED
        BY <2>2, <2>3
<1>6. CASE WaitOver
    <2>1. Own' /\ Replicated' /\ OpenHasAll'
        BY <1>6, QuietSteps DEF WaitOver
    <2>2. script'.pc = "read-only" /\ Source' = Source /\ Target' = Target
        BY <1>0, <1>6, ScriptGoes DEF WaitOver
    <2>3. Written' = Written /\ data' = data /\ app' = app
        BY <1>6 DEF WaitOver, Written
    <2>4. Written \ data[Target] \subseteq explained'
        BY <1>6, WaitOverPromotable
    <2>5. ~app[Source]
        BY <1>6 DEF WaitOver, AInv, SourceStopped
    <2> QED
        BY <2>1, <2>2, <2>3, <2>4, <2>5 DEF Adopted, Promotable, SourceStopped
<1>7. CASE SetReadOnly
    <2>1. /\ Target \in Nodes /\ Source \in Nodes
          /\ \A n \in Nodes : n = Target \/ n = Source
        BY <1>1, <1>7, Pair DEF SetReadOnly, under, Target, Source
    <2>3. /\ script'.pc = "reset" /\ script'.cmd = script.cmd /\ Target' = Target
          /\ script.cmd = "failover-to"
        BY <1>0, <1>7, ScriptGoes DEF SetReadOnly, ScriptOK
    <2>4. Written' = Written /\ data' = data /\ explained' = explained
        BY <1>7 DEF SetReadOnly, Written
    <2>5. Written \ data[Target] \subseteq explained
        BY <1>7, <2>3 DEF SetReadOnly, AInv, Promotable
    <2>6. readOnly'[Source] /\ readOnly'[Target] = readOnly[Target]
        BY <1>0, <1>1, <1>7, <2>1 DEF SetReadOnly, StateOK, under
    <2>7. OpenHasAll'
        BY <2>1, <2>4, <2>5, <2>6 DEF OpenHasAll
    <2>8. Own' /\ Replicated'
        BY <1>7, <2>4 DEF SetReadOnly, AInv, Own, Replicated
    <2> QED
        BY <2>3, <2>4, <2>5, <2>7, <2>8 DEF Adopted, Promotable, SourceStopped
<1>8. CASE PromoteReset
    <2>1. \A n \in Nodes : slave'[n] # "none" => slave[n] # "none"
        BY <1>0, <1>8 DEF PromoteReset, StateOK
    <2>2. Own' /\ Replicated' /\ OpenHasAll'
        BY <1>8, <2>1, QuietSteps DEF PromoteReset
    <2>3. /\ script'.pc = "open" /\ script'.cmd = script.cmd /\ Target' = Target
          /\ script.cmd \in {"failover-to", "promote"}
        BY <1>0, <1>8, ScriptGoes DEF PromoteReset, ScriptOK
    <2>4. Written' = Written /\ data' = data
        BY <1>8 DEF PromoteReset, Written
    <2>5. Written \ data[Target] \subseteq explained'
        BY <1>8, <2>3 DEF PromoteReset, AInv, Promotable
    <2> QED
        BY <2>2, <2>3, <2>4, <2>5 DEF Adopted, Promotable, SourceStopped
<1>9. CASE PromoteOpen
    <2>1. UNCHANGED <<up, binlog, done, data, explained, slave>>
        BY <1>9 DEF PromoteOpen
    <2>2. Written \ data[Target] \subseteq explained
        BY <1>0, <1>9 DEF PromoteOpen, AInv, Promotable, ScriptOK
    <2>3. Target \in Nodes /\ readOnly' = [readOnly EXCEPT ![Target] = FALSE]
        BY <1>1, <1>9 DEF PromoteOpen, under
    <2>4. ASSUME NEW n \in Nodes, ~readOnly'[n], up'[n] \/ readOnly'[Peer(n)]
          PROVE  n = Target
        <3>1. CASE n = Source
            <4>1. Peer(n) = Target /\ ~readOnly'[Peer(n)]
                BY <1>0, <2>3, <3>1, Actors DEF StateOK, Source, Target
            <4>2. readOnly'[n] = readOnly[n]
                BY <1>0, <1>1, <1>9, <2>3, <3>1 DEF StateOK, PromoteOpen, under
            <4>3. Open(n)
                BY <2>1, <2>4, <4>1, <4>2
            <4> QED
                BY <1>9, <3>1, <4>3 DEF PromoteOpen, RInv, Closed
        <3> QED
            BY <2>3, <3>1, Pair DEF Target, Source
    <2>5. Written' = Written
        BY <2>1 DEF Written
    <2>6. OpenHasAll'
        BY <2>1, <2>2, <2>4, <2>5 DEF OpenHasAll
    <2>7. Own' /\ Replicated'
        BY <2>1 DEF AInv, Own, Replicated
    <2>8. script'.pc \in {"start", "demote"}
        BY <1>0, <1>9, ScriptGoes DEF PromoteOpen
    <2> QED
        BY <1>2, <2>6, <2>7, <2>8
<1>10. CASE DemotePosition
    <2>1. Own' /\ Replicated' /\ OpenHasAll'
        BY <1>10, QuietSteps DEF DemotePosition
    <2>2. /\ script'.pc = "close" /\ script'.node = script.node
          /\ script'.cmd = script.cmd
          /\ script'.position = Len(binlog[Peer(Demoted)])
        BY <1>0, <1>10 DEF DemotePosition, Script
    <2>3. Demoted' = Demoted
        BY <2>2 DEF Demoted, Source
    <2>4. Entries(binlog[Peer(Demoted)], 1, Len(binlog[Peer(Demoted)]))
              \subseteq data[Demoted] \cup explained'
        BY <1>10 DEF DemotePosition
    <2>5. binlog' = binlog /\ data' = data
        BY <1>10 DEF DemotePosition
    <2> QED
        BY <2>1, <2>2, <2>3, <2>4, <2>5 DEF Adopted, Promotable, SourceStopped
<1>11. CASE DemoteClose \/ DemoteForget
    <2>1. /\ UNCHANGED <<binlog, done, data, explained>>
          /\ \A n \in Nodes : slave'[n] # "none" => slave[n] # "none"
          /\ up' = up
        BY <1>0, <1>11 DEF DemoteClose, DemoteForget, StateOK
    <2>0. \A n \in Nodes : ~readOnly'[n] /\ (up'[n] \/ readOnly'[Peer(n)]) =>
                            ~readOnly[n] /\ (up[n] \/ readOnly[Peer(n)])
        <3>1. CASE DemoteForget
            BY <2>1, <3>1 DEF DemoteForget
        <3>2. CASE DemoteClose
            <4>1. /\ Demoted \in Nodes
                  /\ readOnly[Demoted] \/ readOnly[Peer(Demoted)]
                  /\ readOnly' = [readOnly EXCEPT ![Demoted] = TRUE]
                BY <1>1, <3>2 DEF DemoteClose, under, RInv, Closed
            <4>2. ASSUME NEW n \in Nodes, ~readOnly'[n] PROVE ~readOnly[n] /\ readOnly[Peer(n)]
                <5>1. n # Demoted /\ ~readOnly[n]
                    BY <1>0, <4>1, <4>2 DEF StateOK
                <5>2. n = Peer(Demoted) /\ Peer(n) = Demoted
                    BY <4>1, <5>1, Pair
                <5> QED
                    BY <4>1, <5>1, <5>2
            <4> QED
                BY <4>2
        <3> QED
            BY <1>11, <3>1, <3>2
    <2>2. Own' /\ Replicated' /\ OpenHasAll'
        BY <2>0, <2>1, QuietSteps
    <2>3. /\ script'.pc \in {"forget", "replicate"} /\ Demoted' = Demoted
          /\ script'.position = script.position
        BY <1>0, <1>11, ScriptGoes DEF DemoteClose, DemoteForget
    <2>4. Entries(binlog[Peer(Demoted)], 1, script.position)
              \subseteq data[Demoted] \cup explained
        BY <1>11 DEF DemoteClose, DemoteForget, AInv, Adopted
    <2> QED
        BY <2>1, <2>2, <2>3, <2>4 DEF Adopted, Promotable, SourceStopped
<1>12. CASE DemoteReplicate
    <2>1. UNCHANGED <<up, binlog, data, explained, readOnly>>
        BY <1>12 DEF DemoteReplicate
    <2>2. Written' = Written
        BY <2>1 DEF Written
    <2>3. Own' /\ OpenHasAll'
        BY <2>1, <2>2 DEF AInv, Own, OpenHasAll
    <2>4. Demoted \in Nodes
        BY <1>1, <1>12 DEF DemoteReplicate, under
    <2>5. Entries(binlog[Peer(Demoted)], 1, script.position)
              \subseteq data[Demoted] \cup explained
        BY <1>12 DEF DemoteReplicate, AInv, Adopted
    <2>6. ASSUME NEW n \in Nodes, slave'[n] # "none"
          PROVE  Entries(binlog'[Peer(n)], 1, done'[n]) \subseteq data'[n] \cup explained'
        <3>1. CASE n = Demoted
            BY <1>0, <1>12, <2>1, <2>5, <3>1 DEF DemoteReplicate, StateOK
        <3>2. CASE n # Demoted
            <4>1. done'[n] = done[n] /\ slave[n] # "none"
                BY <1>0, <1>12, <2>4, <2>6, <3>2 DEF DemoteReplicate, StateOK
            <4> QED
                BY <2>1, <4>1 DEF AInv, Replicated
        <3> QED
            BY <3>1, <3>2
    <2>7. Replicated'
        BY <2>6 DEF Replicated
    <2>8. script'.pc = "running"
        BY <1>0, <1>12, ScriptGoes DEF DemoteReplicate
    <2> QED
        BY <1>2, <2>3, <2>7, <2>8
<1> QED
    BY <1>3, <1>4, <1>5, <1>6, <1>7, <1>8, <1>9, <1>10, <1>11, <1>12 DEF ScriptStep

\* A commit is on the only open database, and behind every position.
LEMMA CommitAccounts ==
    ASSUME TInv, RInv, AInv, NEW n \in Nodes, NEW tx \in Writes,
           NEW service \in {"xmr", "xmr-admin"}, Commit(n, service, tx)
    PROVE  AInv'
<1>0. StateOK /\ script \in Script /\ ScriptOK
    BY TypeParts DEF TInv
<1>1. /\ Open(n) /\ explained \subseteq explained'
      /\ UNCHANGED <<up, readOnly, slave, done, script, app>>
      /\ binlog' = [binlog EXCEPT ![n] = Append(@, tx)]
      /\ data' = [data EXCEPT ![n] = @ \cup {tx}]
    BY DEF Commit, Open, machines, replication
<1>2. /\ tx \in data'[n]
      /\ \A m \in Nodes : data[m] \subseteq data'[m]
    BY <1>0, <1>1 DEF StateOK
<1>3. ASSUME NEW m \in Nodes
      PROVE  /\ binlog[m] \in Seq(Writes) /\ Len(binlog[m]) \in Nat
             /\ binlog'[m] = IF m = n THEN Append(binlog[m], tx) ELSE binlog[m]
    BY <1>0, <1>1 DEF StateOK
<1>4. ASSUME NEW m \in Nodes, NEW k \in Nat, k <= Len(binlog[m])
      PROVE  Entries(binlog'[m], 1, k) = Entries(binlog[m], 1, k)
    BY <1>3, <1>4, EntriesAppend
<1>5. ASSUME NEW m \in Nodes
      PROVE  Entries(binlog'[m], 1, Len(binlog'[m]))
                 \subseteq Entries(binlog[m], 1, Len(binlog[m]))
                             \cup (IF m = n THEN {tx} ELSE {})
    <2>1. CASE m = n
        <3>1. binlog'[m] = Append(binlog[m], tx)
            BY <1>3, <2>1
        <3>2. Entries(Append(binlog[m], tx), 1, Len(Append(binlog[m], tx)))
                  \subseteq Entries(binlog[m], 1, Len(binlog[m])) \cup {tx}
            BY <1>3, EntriesAppend
        <3> QED
            BY <2>1, <3>1, <3>2
    <2>2. CASE m # n
        BY <1>3, <2>2
    <2> QED
        BY <2>1, <2>2
<1>6. Written' \subseteq Written \cup {tx}
    BY <1>5 DEF Written
<1>7. Own'
    BY <1>2, <1>5 DEF AInv, Own
<1>8. Replicated'
    <2>1. ASSUME NEW m \in Nodes, slave'[m] # "none"
          PROVE  Entries(binlog'[Peer(m)], 1, done'[m]) \subseteq data'[m] \cup explained'
        <3>1. /\ Peer(m) \in Nodes /\ done[m] \in Nat /\ done[m] <= Len(binlog[Peer(m)])
            BY <1>0, <1>3, Pair DEF StateOK
        <3>2. Entries(binlog'[Peer(m)], 1, done[m]) = Entries(binlog[Peer(m)], 1, done[m])
            BY <1>4, <3>1
        <3>3. Entries(binlog[Peer(m)], 1, done[m]) \subseteq data[m] \cup explained
            BY <1>1, <2>1 DEF AInv, Replicated
        <3> QED
            BY <1>1, <1>2, <3>2, <3>3
    <2> QED
        BY <2>1 DEF Replicated
<1>9. OpenHasAll'
    <2>1. ASSUME NEW m \in Nodes, ~readOnly[m], up[m] \/ readOnly[Peer(m)]
          PROVE  Written' \ data'[m] \subseteq explained'
        <3>1. m = n
            <4>1. CASE up[m]
                BY <1>1, <2>1, <4>1 DEF RInv, OneOpen, Open
            <4>2. CASE readOnly[Peer(m)]
                BY <1>1, <4>2, Pair DEF Open
            <4> QED
                BY <2>1, <4>1, <4>2
        <3>2. Written \ data[m] \subseteq explained
            BY <2>1 DEF AInv, OpenHasAll
        <3> QED
            BY <1>1, <1>2, <1>6, <3>1, <3>2
    <2> QED
        BY <1>1, <2>1 DEF OpenHasAll
<1>10. Target' = Target /\ Source' = Source /\ Demoted' = Demoted
    BY <1>1 DEF Target, Source, Demoted
<1>11. Adopted'
    <2>1. ASSUME script.pc \in {"close", "forget", "replicate"}
          PROVE  Entries(binlog'[Peer(Demoted)], 1, script.position)
                     \subseteq data'[Demoted] \cup explained'
        <3>1. /\ Demoted \in Nodes /\ Peer(Demoted) \in Nodes
              /\ script.position \in Nat
              /\ script.position <= Len(binlog[Peer(Demoted)])
            BY <1>0, <2>1, Actors, Pair DEF ScriptOK, Script
        <3>2. Entries(binlog'[Peer(Demoted)], 1, script.position)
                  = Entries(binlog[Peer(Demoted)], 1, script.position)
            BY <1>4, <3>1
        <3>3. Entries(binlog[Peer(Demoted)], 1, script.position)
                  \subseteq data[Demoted] \cup explained
            BY <2>1 DEF AInv, Adopted
        <3> QED
            BY <1>1, <1>2, <3>1, <3>2, <3>3
    <2> QED
        BY <1>1, <1>10, <2>1 DEF Adopted
<1>12. Promotable'
    <2>1. ASSUME \/ script.cmd = "failover-to"
                      /\ script.pc \in {"read-only", "reset", "open"}
                 \/ script.cmd = "promote" /\ script.pc = "open"
          PROVE  Written' \ data'[Target] \subseteq explained'
        <3>1. /\ Target \in Nodes /\ Source \in Nodes
              /\ \A m \in Nodes : m = Target \/ m = Source
            BY <1>0, <2>1, Actors, Pair DEF ScriptOK, Target, Source
        <3>2. Written \ data[Target] \subseteq explained
            BY <2>1 DEF AInv, Promotable
        <3>3. CASE n = Target
            BY <1>1, <1>2, <1>6, <3>1, <3>2, <3>3
        <3>4. CASE n = Source
            <4>1. script.pc = "read-only"
                BY <1>1, <2>1, <3>4 DEF RInv, Closed
            <4>2. service = "xmr-admin"
                BY <3>4, <4>1 DEF Commit, AInv, SourceStopped
            <4>3. tx \in explained'
                BY <3>4, <4>1, <4>2 DEF Commit, At
            <4> QED
                BY <1>1, <1>2, <1>6, <3>1, <3>2, <4>3
        <3> QED
            BY <3>1, <3>3, <3>4
    <2> QED
        BY <1>1, <1>10, <2>1 DEF Promotable
<1>13. SourceStopped'
    BY <1>1, <1>10 DEF AInv, SourceStopped
<1> QED
    BY <1>7, <1>8, <1>9, <1>11, <1>12, <1>13 DEF AInv

\* What the SQL thread applies is in the tables from then on.
LEMMA ApplyAccounts ==
    ASSUME TInv, AInv, NEW n \in Nodes, Apply(n) PROVE AInv'
<1>0. StateOK /\ script \in Script /\ ScriptOK
    BY TypeParts DEF TInv
<1> USE DEF machines
<1>1. /\ UNCHANGED <<up, binlog, explained, slave, readOnly, script, app>>
      /\ done' = [done EXCEPT ![n] = @ + 1]
      /\ data' = [data EXCEPT ![n] = @ \cup {binlog[Peer(n)][done[n] + 1]}]
      /\ slave[n] = "running"
    BY DEF Apply
<1>2. \A m \in Nodes : data[m] \subseteq data'[m]
    BY <1>0, <1>1 DEF StateOK
<1>3. Written' = Written
    BY <1>1 DEF Written
<1>4. Own' /\ OpenHasAll'
    BY <1>1, <1>2, <1>3 DEF AInv, Own, Open, OpenHasAll
<1>5. Adopted' /\ Promotable' /\ SourceStopped'
    BY <1>1, <1>2, QuietScript
<1>6. ASSUME NEW m \in Nodes, slave'[m] # "none"
      PROVE  Entries(binlog'[Peer(m)], 1, done'[m]) \subseteq data'[m] \cup explained'
    <2>1. Entries(binlog[Peer(m)], 1, done[m]) \subseteq data[m] \cup explained
        BY <1>1, <1>6 DEF AInv, Replicated
    <2>2. CASE m = n
        <3>1. done[n] \in Nat /\ done'[n] = done[n] + 1
            BY <1>0, <1>1 DEF StateOK
        <3>2. Entries(binlog[Peer(n)], 1, done[n] + 1)
                  \subseteq Entries(binlog[Peer(n)], 1, done[n])
                      \cup Entries(binlog[Peer(n)], done[n] + 1, done[n] + 1)
            BY <3>1, EntriesSplit
        <3>3. Entries(binlog[Peer(n)], done[n] + 1, done[n] + 1) \subseteq data'[n]
            <4>1. \A i \in (done[n] + 1)..(done[n] + 1) : i = done[n] + 1
                BY <3>1
            <4>2. binlog[Peer(n)][done[n] + 1] \in data'[n]
                BY <1>0, <1>1 DEF StateOK
            <4> QED
                BY <4>1, <4>2 DEF Entries
        <3> QED
            BY <1>1, <1>2, <2>1, <2>2, <3>1, <3>2, <3>3
    <2>3. CASE m # n
        <3>1. done'[m] = done[m]
            BY <1>0, <1>1, <2>3 DEF StateOK
        <3> QED
            BY <1>1, <1>2, <2>1, <3>1
    <2> QED
        BY <2>2, <2>3
<1>7. Replicated'
    BY <1>6 DEF Replicated
<1> QED
    BY <1>4, <1>5, <1>7 DEF AInv

\* Every step accounts for every write, on the same condition.
LEMMA NextAccounts ==
    ASSUME TInv, RInv, AInv, [Next]_vars, intact' PROVE AInv'
<1>0. StateOK /\ script \in Script /\ ScriptOK
    BY TypeParts DEF TInv
<1> USE DEF machines, replication, tables, Open
<1>1. ASSUME UNCHANGED <<up, binlog, done, data, explained, script, app, readOnly>>,
             \A n \in Nodes : slave'[n] # "none" => slave[n] # "none"
      PROVE  AInv'
    BY <1>1, QuietSteps, QuietScript DEF AInv
<1>2. CASE ScriptStep
    BY <1>2, ScriptStepAccounts
<1>3. ASSUME UNCHANGED <<up, binlog, done, data, explained, slave, readOnly>>,
             script'.pc \in {"idle", "healthy", "reset", "demote"},
             script'.cmd = "failover-to" => script'.pc # "reset"
      PROVE  AInv'
    BY <1>3, QuietSteps DEF AInv, Adopted, Promotable, SourceStopped
<1>4. CASE Dies
    BY <1>3, <1>4, NoScriptFields DEF Dies, Ends
<1>5. CASE Operator
    <2>1. PICK n \in Nodes : FailoverTo(n) \/ Promote(n) \/ Demote(n) \/ Restart(n)
        BY <1>5 DEF Operator
    <2>2. CASE FailoverTo(n) \/ Promote(n) \/ Demote(n)
        <3>1. /\ script'.pc \in {"healthy", "reset", "demote"}
              /\ script'.cmd = "failover-to" => script'.pc = "healthy"
            <4>1. CASE FailoverTo(n)
                BY <4>1 DEF FailoverTo, NoScript
            <4>2. CASE Promote(n)
                BY <4>2 DEF Promote, NoScript
            <4>3. CASE Demote(n)
                BY <4>3 DEF Demote, NoScript
            <4> QED
                BY <2>2, <4>1, <4>2, <4>3
        <3> QED
            BY <1>3, <2>2, <3>1 DEF FailoverTo, Promote, Demote
    <2>3. CASE Restart(n)
        BY <1>3, <2>3 DEF Restart, At
    <2> QED
        BY <2>1, <2>2, <2>3
<1>6. ASSUME NEW n \in Nodes, NEW tx \in Writes,
             Commit(n, "xmr", tx) \/ Commit(n, "xmr-admin", tx)
      PROVE  AInv'
    BY <1>6, CommitAccounts
<1>7. ASSUME NEW n \in Nodes, Receive(n) PROVE AInv'
    BY <1>1, <1>7 DEF Receive
<1>8. ASSUME NEW n \in Nodes, Apply(n) PROVE AInv'
    BY <1>8, ApplyAccounts
<1>9. ASSUME NEW n \in Nodes, Breaks(n) PROVE AInv'
    <2>1. \A m \in Nodes : slave'[m] # "none" => slave[m] # "none"
        BY <1>0, <1>9 DEF Breaks, StateOK
    <2> QED
        BY <1>1, <1>9, <2>1 DEF Breaks
<1>10. CASE SecondPasses
    BY <1>1, <1>10 DEF SecondPasses
<1>11. ASSUME NEW n \in Nodes, Crash(n) PROVE AInv'
    <2>1. /\ UNCHANGED <<binlog, done, data, explained, slave, readOnly, script>>
          /\ \A m \in Nodes : (up'[m] => up[m]) /\ (app'[m] => app[m])
        BY <1>0, <1>11 DEF Crash, StateOK
    <2>2. Own' /\ Replicated' /\ OpenHasAll'
        BY <2>1, QuietSteps
    <2>3. /\ Target' = Target /\ Source' = Source /\ Demoted' = Demoted
          /\ Written' = Written
        BY <2>1 DEF Target, Source, Demoted, Written
    <2>4. script.pc = "wait" \/ script.pc = "read-only" => Source \in Nodes
        BY <1>0, Actors DEF ScriptOK
    <2> QED
        BY <2>1, <2>2, <2>3, <2>4 DEF AInv, Adopted, Promotable, SourceStopped
<1>13. ASSUME NEW n \in Nodes, Boot(n) PROVE AInv'
    <2>1. /\ ~readOnly[n] /\ readOnly[Peer(n)]
          /\ script.pc \in {"wait", "read-only"} => Source # n
        BY <1>13 DEF Boot, Harmless
    <2>2. /\ UNCHANGED <<binlog, done, data, explained, script>>
          /\ readOnly' = readOnly
          /\ \A m \in Nodes : m # n => up'[m] = up[m] /\ app'[m] = app[m]
          /\ \A m \in Nodes : slave'[m] # "none" => slave[m] # "none"
        BY <1>0, <1>13, <2>1 DEF Boot, StateOK
    <2>3. /\ Target' = Target /\ Source' = Source /\ Demoted' = Demoted
          /\ Written' = Written
        BY <2>2 DEF Target, Source, Demoted, Written
    <2>4. \A m \in Nodes : ~readOnly'[m] /\ (up'[m] \/ readOnly'[Peer(m)]) =>
                            ~readOnly[m] /\ (up[m] \/ readOnly[Peer(m)])
        BY <2>1, <2>2
    <2>5. Own' /\ Replicated' /\ OpenHasAll'
        BY <2>2, <2>4, QuietSteps
    <2>6. script.pc = "wait" \/ script.pc = "read-only" => Source \in Nodes
        BY <1>0, Actors DEF ScriptOK
    <2> QED
        BY <2>1, <2>2, <2>3, <2>5, <2>6 DEF AInv, Adopted, Promotable, SourceStopped
<1>12. CASE UNCHANGED vars
    BY <1>1, <1>12 DEF vars
<1> QED
    BY <1>2, <1>4, <1>5, <1>6, <1>7, <1>8, <1>9, <1>10, <1>11, <1>12, <1>13 DEF Next

-----------------------------------------------------------------------------
(* All together.                                                           *)

\* What `intact` has lost it does not get back.
LEMMA IntactBefore == TInv /\ [Next]_vars /\ intact' => intact
<1> SUFFICES ASSUME [Next]_vars, intact' PROVE intact
    OBVIOUS
<1> USE DEF machines
<1>1. CASE ScriptStep
    BY <1>1 DEF ScriptStep, CheckHealthy, StopSource, Wait, WaitOver, SetReadOnly,
       PromoteReset, PromoteOpen, DemoteStop, DemotePosition, DemoteClose,
       DemoteForget, DemoteReplicate, DemoteRunning, StartTarget, CheckFails
<1>2. CASE Dies \/ Operator \/ SecondPasses
    BY <1>2 DEF Dies, Operator, FailoverTo, Promote, Demote, Restart, SecondPasses
<1>3. CASE \E n \in Nodes, tx \in Writes :
              Commit(n, "xmr", tx) \/ Commit(n, "xmr-admin", tx)
    BY <1>3 DEF Commit
<1>4. CASE \E n \in Nodes : Receive(n) \/ Apply(n) \/ Breaks(n)
    BY <1>4 DEF Receive, Apply, Breaks
<1>5. CASE \E n \in Nodes : Crash(n) \/ Boot(n)
    BY <1>5 DEF Crash, Boot
<1>6. CASE UNCHANGED vars
    BY <1>6 DEF vars
<1> QED
    BY <1>1, <1>2, <1>3, <1>4, <1>5, <1>6 DEF Next

\* The inductive invariant holds at the start.
LEMMA InitInv == Init => IInv
BY InitTypes, InitReplicas, InitAccounts DEF IInv

\* Every step keeps it.
LEMMA NextInv == IInv /\ [Next]_vars => IInv'
<1> SUFFICES ASSUME IInv, [Next]_vars PROVE IInv'
    OBVIOUS
<1>1. TInv'
    BY NextTypes DEF IInv
<1>2. ASSUME intact' PROVE RInv' /\ AInv'
    BY <1>2, IntactBefore, NextReplicas, NextAccounts DEF IInv
<1> QED
    BY <1>1, <1>2 DEF IInv

\* The inductive invariant holds on every run, whatever machines go down and come
\* back: types always; who is closed and where each write is unless a node was
\* promoted over an open peer or a machine came back that had to stay away.
THEOREM Invariance == Spec => []IInv
BY InitInv, NextInv, PTL DEF Spec

\* At most one running database accepts writes, wherever the commands of
\* cluster-mgr.sh die, whatever machines go down meanwhile, and although the machine
\* of the open database comes back, as long as it has not been promoted over: an
\* emergency promotion, over a peer that is down or read-only, opens no second one.
THEOREM WriterIsUnique == Spec => []OneWriter
<1>1. IInv => OneWriter
    BY DEF IInv, RInv, OneOpen, OneWriter
<1> QED
    BY <1>1, Invariance, PTL

\* On the same condition the writable database has every write ever acknowledged but
\* those lost in one of the named ways, through any sequence of failovers,
\* promotions and demotions, finished or not.
THEOREM WritesAreAccounted == Spec => []Accounted
<1>1. IInv => Accounted
    BY DEF IInv, AInv, OpenHasAll, Open, Accounted
<1> QED
    BY <1>1, Invariance, PTL

\* On the same condition a database that replicates accepts no writes, wherever the
\* commands die.
THEOREM ReplicasAreReadOnly == Spec => []ReplicaIsReadOnly
<1>1. IInv => ReplicaIsReadOnly
    BY DEF IInv, RInv, ColdIsReadOnly, ReplicaIsReadOnly
<1> QED
    BY <1>1, Invariance, PTL
=============================================================================
