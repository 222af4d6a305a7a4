------------------------------ MODULE Cluster -------------------------------
(***************************************************************************)
(* The hot/cold pair: scripts/cluster-mgr.sh and scripts/db-mgr.sh on two  *)
(* nodes, with MariaDB replication from the hot node to the cold one.      *)
(*                                                                         *)
(* A command is a sequence of remote statements under `set -e`; between    *)
(* two of them users write, replication moves and the command may die.     *)
(* One operator runs one command at a time.                                *)
(*                                                                         *)
(* MariaDB is modelled by what the scripts use of it.  A binlog holds the  *)
(* writes made on its own node; a replica receives the other's from its    *)
(* position on and applies them in order.  SET GLOBAL read_only does not   *)
(* outlive a restart, replication does.                                    *)
(***************************************************************************)
EXTENDS Integers, Sequences

CONSTANTS
    Nodes,       \* bama and wintermute
    FirstHot,    \* the node installed as hot, the only one with xmr enabled
    Writes,      \* transactions users may commit, each once
    None,        \* no node
    MaxTries,    \* rounds of failover_to's wait (30 in the script)
    MaxCrashes   \* bound on machine crashes

ASSUME PairAssumption ==
    /\ \E m, n \in Nodes : m # n /\ Nodes = {m, n}
    /\ FirstHot \in Nodes
ASSUME NoNodeAssumption == None \notin Nodes
ASSUME BoundAssumption == MaxTries \in Nat /\ MaxCrashes \in Nat

VARIABLES
    up,         \* the machine and its MariaDB run
    app,        \* xmr.service is active
    readOnly,   \* @@GLOBAL.read_only
    slave,      \* replication from the peer: "none", "running", "stopped"
    binlog,     \* the writes committed on the node itself
    got,        \* how far into the peer's binlog the I/O thread is
    done,       \* how far into it the SQL thread is
    data,       \* the writes the tables contain
    recent,     \* writes younger than a second
    script,     \* the operator's command
    crashes,    \* machine crashes so far
    intact,     \* no promotion over an open peer, no harmful return (history)
    explained   \* writes lost in a way the README names (history)

machines == <<up, app, readOnly, crashes, intact>>
replication == <<slave, got, done>>
tables == <<binlog, data, recent>>
vars == <<machines, replication, tables, script, explained>>

\* peer_of.
Peer(n) == CHOOSE m \in Nodes : m # n

\* `node` is the node to promote, or to demote when the command is demote.
Script == [cmd : {"none", "failover-to", "promote", "demote"},
           pc : {"idle", "healthy", "stop", "wait", "read-only", "reset",
                 "open", "demote", "position", "close", "forget", "replicate",
                 "running", "start"},
           node : Nodes \cup {None}, position : Nat, tries : Nat]

NoScript == [cmd |-> "none", pc |-> "idle", node |-> None, position |-> 0,
             tries |-> 0]

At(pc) == script.pc = pc
Goes(pc) == script' = [script EXCEPT !.pc = pc]
Ends == script' = NoScript

Target == script.node
Source == Peer(script.node)

\* The node a demotion is about: failover_to runs it on the old primary.
Demoted == IF script.cmd = "failover-to" THEN Source ELSE script.node

Entries(log, first, last) == {log[i] : i \in first..last}
Written == UNION {Entries(binlog[n], 1, Len(binlog[n])) : n \in Nodes}

\* replica_healthy: both threads run, the I/O thread only with its master.
Healthy(n) == slave[n] = "running" /\ up[Peer(n)]

\* replica_caught_up: Seconds_Behind_Master is 0 when what has been received and
\* not yet applied is less than a second old.  It says nothing of what has not
\* been received.
CaughtUp(n) ==
    /\ Healthy(n)
    /\ Entries(binlog[Peer(n)], done[n] + 1, got[n]) \subseteq recent

-----------------------------------------------------------------------------
\* A hot and a cold node, after their installation.
Init ==
    /\ up = [n \in Nodes |-> TRUE]
    /\ app = [n \in Nodes |-> n = FirstHot]
    /\ readOnly = [n \in Nodes |-> n # FirstHot]
    /\ slave = [n \in Nodes |-> IF n = FirstHot THEN "none" ELSE "running"]
    /\ binlog = [n \in Nodes |-> << >>]
    /\ got = [n \in Nodes |-> 0]
    /\ done = [n \in Nodes |-> 0]
    /\ data = [n \in Nodes |-> {}]
    /\ recent = {}
    /\ script = NoScript
    /\ crashes = 0
    /\ intact = TRUE
    /\ explained = {}

-----------------------------------------------------------------------------
(* failover-to, its own statements.                                        *)

FailoverTo(target) ==
    /\ At("idle")
    /\ script' = [NoScript EXCEPT !.cmd = "failover-to", !.pc = "healthy",
                                  !.node = target]
    /\ UNCHANGED <<machines, replication, tables, explained>>

CheckHealthy ==
    /\ At("healthy")
    /\ up[Target] /\ Healthy(Target)
    /\ Goes("stop")
    /\ UNCHANGED <<machines, replication, tables, explained>>

\* A slip that would break Accounted: the portal goes on serving.
StopSourceLater ==
    /\ At("stop")
    /\ up[Source]
    /\ Goes("wait")
    /\ UNCHANGED <<machines, replication, tables, explained>>

StopSource ==
    /\ At("stop")
    /\ up[Source]
    /\ app' = [app EXCEPT ![Source] = FALSE]
    /\ Goes("wait")
    /\ UNCHANGED <<up, readOnly, crashes, intact, replication, tables, explained>>

\* A slip that would break ScriptEnds: the rounds are not counted.
WaitUncounted ==
    /\ At("wait")
    /\ ~(up[Target] /\ CaughtUp(Target))
    /\ UNCHANGED vars

\* One round of the loop.  When the rounds are used up the command fails.
Wait ==
    /\ At("wait")
    /\ ~(up[Target] /\ CaughtUp(Target))
    /\ script' = IF script.tries < MaxTries
                 THEN [script EXCEPT !.tries = script.tries + 1] ELSE NoScript
    /\ UNCHANGED <<machines, replication, tables, explained>>

\* The check passes with writes that have not been received, or are younger
\* than a second and not applied.
WaitOver ==
    /\ At("wait")
    /\ up[Target] /\ CaughtUp(Target)
    /\ Goes("read-only")
    /\ explained' = explained
          \cup Entries(binlog[Source], got[Target] + 1, Len(binlog[Source]))
          \cup (Entries(binlog[Source], done[Target] + 1, got[Target]) \cap recent)
    /\ UNCHANGED <<machines, replication, tables>>

\* A slip that would break OneWriter: the source stays open.
SetReadOnlyForgotten ==
    /\ At("read-only")
    /\ up[Source]
    /\ Goes("reset")
    /\ UNCHANGED <<machines, replication, tables, explained>>

SetReadOnly ==
    /\ At("read-only")
    /\ up[Source]
    /\ readOnly' = [readOnly EXCEPT ![Source] = TRUE]
    /\ Goes("reset")
    /\ UNCHANGED <<up, app, crashes, intact, replication, tables, explained>>

\* systemctl start on the target, the last statement of failover-to and promote.
StartTarget ==
    /\ At("start")
    /\ up[Target]
    /\ app' = [app EXCEPT ![Target] = TRUE]
    /\ Ends
    /\ UNCHANGED <<up, readOnly, crashes, intact, replication, tables, explained>>

-----------------------------------------------------------------------------
(* promote, by the operator or within failover-to.                         *)

\* The database of this node accepts writes now.
Open(n) == up[n] /\ ~readOnly[n]

\* An emergency promotion.  The script does not look at the peer: that it is down
\* or a replica is for the operator to see, by `status`.
Promote(n) ==
    /\ At("idle")
    /\ up[n]
    /\ script' = [NoScript EXCEPT !.cmd = "promote", !.pc = "reset", !.node = n]
    /\ intact' = (intact /\ ~Open(Peer(n)))
    /\ UNCHANGED <<up, app, readOnly, crashes, replication, tables, explained>>

\* A slip that would break IInv: the target stops replicating without
\* forgetting its master.
PromoteResetForgotten ==
    /\ At("reset")
    /\ up[Target]
    /\ slave' = [slave EXCEPT ![Target] = "stopped"]
    /\ Goes("open")
    /\ UNCHANGED <<machines, got, done, tables, explained>>

\* STOP SLAVE and RESET SLAVE ALL: what was received and not applied is gone.
\* "Emergency promotion may lose unreplicated transactions."
PromoteReset ==
    /\ At("reset")
    /\ up[Target]
    /\ slave' = [slave EXCEPT ![Target] = "none"]
    /\ got' = [got EXCEPT ![Target] = done[Target]]
    /\ Goes("open")
    /\ explained' = explained \cup
          (IF script.cmd = "promote" THEN Written \ data[Target] ELSE {})
    /\ UNCHANGED <<machines, done, tables>>

PromoteOpen ==
    /\ At("open")
    /\ up[Target]
    /\ readOnly' = [readOnly EXCEPT ![Target] = FALSE]
    /\ Goes(IF script.cmd = "promote" THEN "start" ELSE "demote")
    /\ UNCHANGED <<up, app, crashes, intact, replication, tables, explained>>

-----------------------------------------------------------------------------
(* demote, by the operator or within failover-to on the old primary.       *)

Demote(n) ==
    /\ At("idle")
    /\ up[n]
    /\ script' = [NoScript EXCEPT !.cmd = "demote", !.pc = "demote", !.node = n]
    /\ UNCHANGED <<machines, replication, tables, explained>>

DemoteStop ==
    /\ At("demote")
    /\ up[Demoted]
    /\ app' = [app EXCEPT ![Demoted] = FALSE]
    /\ Goes("position")
    /\ UNCHANGED <<up, readOnly, crashes, intact, replication, tables, explained>>

\* A slip that would break TypeOK: the position is that of the next write.
DemotePositionNext ==
    /\ At("position")
    /\ up[Demoted] /\ up[Peer(Demoted)]
    /\ script' = [script EXCEPT !.pc = "close",
                                !.position = Len(binlog[Peer(Demoted)]) + 1]
    /\ UNCHANGED <<machines, replication, tables, explained>>

\* SELECT @@GLOBAL.gtid_current_pos on the primary: replication will begin
\* there, and skip what the primary has and this node has not.
DemotePosition ==
    /\ At("position")
    /\ up[Demoted] /\ up[Peer(Demoted)]
    /\ script' = [script EXCEPT !.pc = "close",
                                !.position = Len(binlog[Peer(Demoted)])]
    /\ explained' = explained \cup
          (Entries(binlog[Peer(Demoted)], 1, Len(binlog[Peer(Demoted)]))
             \ data[Demoted])
    /\ UNCHANGED <<machines, replication, tables>>

\* A slip that would break ReplicaIsReadOnly: set_read_only is left out.
DemoteCloseForgotten ==
    /\ At("close")
    /\ up[Demoted]
    /\ Goes("forget")
    /\ UNCHANGED <<machines, replication, tables, explained>>

\* set_read_only.
DemoteClose ==
    /\ At("close")
    /\ up[Demoted]
    /\ readOnly' = [readOnly EXCEPT ![Demoted] = TRUE]
    /\ Goes("forget")
    /\ UNCHANGED <<up, app, crashes, intact, replication, tables, explained>>

\* STOP SLAVE and RESET SLAVE ALL.
DemoteForget ==
    /\ At("forget")
    /\ up[Demoted]
    /\ slave' = [slave EXCEPT ![Demoted] = "none"]
    /\ got' = [got EXCEPT ![Demoted] = done[Demoted]]
    /\ Goes("replicate")
    /\ UNCHANGED <<machines, done, tables, explained>>

\* SET GLOBAL gtid_slave_pos, CHANGE MASTER TO and START SLAVE.
DemoteReplicate ==
    /\ At("replicate")
    /\ up[Demoted]
    /\ slave' = [slave EXCEPT ![Demoted] = "running"]
    /\ got' = [got EXCEPT ![Demoted] = script.position]
    /\ done' = [done EXCEPT ![Demoted] = script.position]
    /\ Goes("running")
    /\ UNCHANGED <<machines, tables, explained>>

\* The loop of ten: both threads run, or the command fails.
DemoteRunning ==
    /\ At("running")
    /\ up[Demoted] /\ Healthy(Demoted)
    /\ IF script.cmd = "demote" THEN Ends ELSE Goes("start")
    /\ UNCHANGED <<machines, replication, tables, explained>>

-----------------------------------------------------------------------------
\* A check is not satisfied or a machine is not reached: under `set -e` the
\* command ends where it is.
CheckFails ==
    /\ \/ At("healthy") /\ ~(up[Target] /\ Healthy(Target))
       \/ script.pc \in {"stop", "read-only"} /\ ~up[Source]
       \/ script.pc \in {"reset", "open", "start"} /\ ~up[Target]
       \/ /\ script.pc \in {"demote", "position", "close", "forget", "replicate"}
          /\ ~up[Demoted]
       \/ At("position") /\ ~up[Peer(Demoted)]
       \/ At("running") /\ ~(up[Demoted] /\ Healthy(Demoted))
    /\ Ends
    /\ UNCHANGED <<machines, replication, tables, explained>>

\* A statement fails, the connection is lost or the operator interrupts: the
\* command ends between any two statements, and undoes nothing.
Dies ==
    /\ script.pc # "idle"
    /\ Ends
    /\ UNCHANGED <<machines, replication, tables, explained>>

\* cluster-mgr.sh restart, on either node.
Restart(n) ==
    /\ At("idle")
    /\ up[n]
    /\ app' = [app EXCEPT ![n] = TRUE]
    /\ UNCHANGED <<up, readOnly, crashes, intact, replication, tables, script, explained>>

\* A user of the portal, or the administrator, whose service is active on both
\* nodes, commits a write.  In a planned failover the administrator's may fall
\* between the check and SET GLOBAL read_only.
Commit(n, service, tx) ==
    /\ up[n]
    /\ ~readOnly[n]
    /\ service = "xmr" => app[n]
    /\ tx \in Writes \ Written
    /\ binlog' = [binlog EXCEPT ![n] = Append(@, tx)]
    /\ data' = [data EXCEPT ![n] = @ \cup {tx}]
    /\ recent' = recent \cup {tx}
    /\ explained' = IF At("read-only") /\ n = Source /\ service = "xmr-admin"
                    THEN explained \cup {tx} ELSE explained
    /\ UNCHANGED <<machines, replication, script>>

Receive(n) ==
    /\ up[n] /\ Healthy(n)
    /\ got[n] < Len(binlog[Peer(n)])
    /\ got' = [got EXCEPT ![n] = @ + 1]
    /\ UNCHANGED <<machines, slave, done, tables, script, explained>>

Apply(n) ==
    /\ up[n]
    /\ slave[n] = "running"
    /\ done[n] < got[n]
    /\ done' = [done EXCEPT ![n] = @ + 1]
    /\ data' = [data EXCEPT ![n] = @ \cup {binlog[Peer(n)][done[n] + 1]}]
    /\ UNCHANGED <<machines, slave, got, binlog, recent, script, explained>>

\* A replication thread stops with an error.
Breaks(n) ==
    /\ slave[n] = "running"
    /\ slave' = [slave EXCEPT ![n] = "stopped"]
    /\ UNCHANGED <<machines, got, done, tables, script, explained>>

SecondPasses ==
    /\ recent # {}
    /\ recent' = {}
    /\ UNCHANGED <<machines, replication, binlog, data, script, explained>>

Crash(n) ==
    /\ up[n]
    /\ crashes < MaxCrashes
    /\ crashes' = crashes + 1
    /\ up' = [up EXCEPT ![n] = FALSE]
    /\ app' = [app EXCEPT ![n] = FALSE]
    /\ UNCHANGED <<readOnly, intact, replication, tables, script, explained>>

\* A machine may come back without harm when its database was open, its peer's is
\* closed, and no command is taking it out of service: MariaDB has then nothing to
\* remember.
Harmless(n) ==
    /\ ~readOnly[n] /\ readOnly[Peer(n)]
    /\ ~(script.pc \in {"wait", "read-only", "reset", "open"} /\ Source = n)

\* read_only is off again, what is enabled starts, replication resumes.
Boot(n) ==
    /\ ~up[n]
    /\ up' = [up EXCEPT ![n] = TRUE]
    /\ readOnly' = [readOnly EXCEPT ![n] = FALSE]
    /\ app' = [app EXCEPT ![n] = n = FirstHot]
    /\ intact' = (intact /\ Harmless(n))
    /\ slave' = [slave EXCEPT ![n] = IF @ = "none" THEN "none" ELSE "running"]
    /\ UNCHANGED <<crashes, got, done, tables, script, explained>>

\* The statements of a command.
ScriptStep ==
    \/ CheckHealthy \/ StopSource \/ Wait \/ WaitOver \/ SetReadOnly
    \/ PromoteReset \/ PromoteOpen
    \/ DemoteStop \/ DemotePosition \/ DemoteClose \/ DemoteForget
    \/ DemoteReplicate \/ DemoteRunning
    \/ StartTarget
    \/ CheckFails

Operator ==
    \E n \in Nodes : FailoverTo(n) \/ Promote(n) \/ Demote(n) \/ Restart(n)

Next ==
    \/ ScriptStep
    \/ Dies
    \/ Operator
    \/ \E n \in Nodes, tx \in Writes :
          Commit(n, "xmr", tx) \/ Commit(n, "xmr-admin", tx)
    \/ \E n \in Nodes : Receive(n) \/ Apply(n) \/ Breaks(n)
    \/ SecondPasses
    \/ \E n \in Nodes : Crash(n) \/ Boot(n)

Spec == Init /\ [][Next]_vars

\* A shell runs on to the next statement.  Nothing else is obliged to happen.
FairSpec == Spec /\ WF_vars(ScriptStep)

-----------------------------------------------------------------------------
TypeOK ==
    /\ up \in [Nodes -> BOOLEAN]
    /\ app \in [Nodes -> BOOLEAN]
    /\ readOnly \in [Nodes -> BOOLEAN]
    /\ slave \in [Nodes -> {"none", "running", "stopped"}]
    /\ binlog \in [Nodes -> Seq(Writes)]
    /\ got \in [Nodes -> Nat]
    /\ done \in [Nodes -> Nat]
    /\ \A n \in Nodes : done[n] <= got[n] /\ got[n] <= Len(binlog[Peer(n)])
    /\ data \in [Nodes -> SUBSET Writes]
    /\ recent \subseteq Writes
    /\ script \in Script
    /\ crashes \in 0..MaxCrashes
    /\ intact \in BOOLEAN
    /\ explained \subseteq Writes

\* Wherever failovers, promotions and demotions die, whatever machines go down
\* meanwhile and however the commands are tried again, at most one database
\* accepts writes, unless a node is promoted over an open peer, or a machine comes
\* back that was closed, had been promoted over or was being taken out of service.
OneWriter == intact => \A m, n \in Nodes : Open(m) /\ Open(n) => m = n

\* On the same condition a database that replicates accepts no writes of its own,
\* wherever a command dies between the statements that close, open and repoint it.
ReplicaIsReadOnly ==
    intact => \A n \in Nodes : slave[n] # "none" => readOnly[n]

\* admin/templates/cold.html:5, "Site data can only be administered on the hot
\* node": a node that replicates is never open, also after it has restarted.
ColdIsReadOnly == \A n \in Nodes : slave[n] # "none" => readOnly[n]

\* On the same condition every write ever acknowledged is in the database that
\* accepts writes now, unless an emergency promotion gave it up, it was not
\* received, or younger than a second, when failover_to found the replica caught up,
\* the administrator made it between that check and read_only, or a demotion
\* adopted a position past it.
Accounted ==
    intact => \A n \in Nodes : Open(n) => Written \ data[n] \subseteq explained

\* cluster-mgr.sh:121, "MariaDB replica did not catch up": past that check a
\* planned failover promotes a replica that has everything of its source.
PromotedIsCaughtUp ==
    script.cmd = "failover-to" /\ At("open") => data[Source] \subseteq data[Target]

\* cluster-mgr.sh:163, "Demoting $node will stop $SERVICE and replicate MariaDB
\* from $peer": when replication has nothing left to do, the replica has what
\* its primary has.
StandbyIsComplete ==
    \A n \in Nodes :
        /\ slave[n] = "running" /\ slave[Peer(n)] = "none"
        /\ done[n] = Len(binlog[Peer(n)])
        => data[Peer(n)] \subseteq data[n]

\* Every command ends: no wait of the scripts is unbounded.
ScriptEnds == script.pc # "idle" ~> script.pc = "idle"
=============================================================================
