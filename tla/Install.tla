------------------------------ MODULE Install -------------------------------
(***************************************************************************)
(* One node's installation: scripts/initial-install.sh and                 *)
(* scripts/env-reset.sh, what they change, in their order, with the        *)
(* scripts dying between any two steps (`set -e`, an interrupt) and the    *)
(* machine restarting.  Directories, unit files and grants are one step    *)
(* each: no property tells their parts apart.                              *)
(*                                                                         *)
(* A Caddyfile is the node's own ("site"), the portal's, or missing.  A    *)
(* password stands for all credentials an installation is given.           *)
(***************************************************************************)
EXTENDS Integers

CONSTANTS
    Passwords,   \* what an operator may type
    None         \* no password, no file

ASSUME NoneAssumption == None \notin Passwords

VARIABLES
    packages,    \* caddy and MariaDB are installed
    base,        \* /opt/xmr
    ops,         \* /opt/xmr_ops exists
    kept,        \* the password in /root/.xmr
    units,       \* unit files in /etc/systemd/system
    enabled,     \* units that start with the machine
    portal,      \* the password the running portal signs in with, or None
    admin,       \* the administrator's service runs
    caddyfile,   \* /etc/caddy/Caddyfile
    serving,     \* what caddy has loaded; "none" when it is stopped
    password,    \* the database user's password
    schema,      \* the portal's tables exist
    readOnly,    \* @@GLOBAL.read_only
    replica,     \* MariaDB replicates from the peer
    script,      \* the command under way
    own          \* the Caddyfile the node last had without the portal (history)

files == <<base, ops, kept>>
services == <<units, enabled, portal, admin>>
caddy == <<caddyfile, serving>>
database == <<password, schema, readOnly, replica>>
vars == <<packages, files, services, caddy, database, script, own>>

Services == {"xmr", "xmr-admin"}
Configs == {"none", "site", "portal"}

\* `env`: the password in xmr.env; `backup`: Caddyfile.before-xmr; `marker`:
\* caddy-was-active.
Base == [made : BOOLEAN, env : Passwords \cup {None}, backup : Configs,
         marker : BOOLEAN]
NoBase == [made |-> FALSE, env |-> None, backup |-> "none", marker |-> FALSE]

InstallSteps == {"packages", "ops", "base", "env", "keep", "open", "provision",
                 "schema", "units", "role", "forget", "close", "replicate",
                 "admin", "backup", "marker", "caddyfile", "reload", "installed"}
ResetSteps == {"stop", "stop-admin", "remove-units", "detach", "reopen", "drop",
               "restore", "unload", "remove-base", "remove-ops", "removed"}

Script == [pc : {"idle"} \cup InstallSteps \cup ResetSteps,
           role : {"hot", "cold"}, password : Passwords \cup {None}]
NoScript == [pc |-> "idle", role |-> "hot", password |-> None]

At(pc) == script.pc = pc
Goes(pc) == script' = [script EXCEPT !.pc = pc]

\* A machine with or without the packages, with its own Caddyfile or none, and
\* a database that accepts writes.
Init ==
    /\ packages \in BOOLEAN
    /\ caddyfile \in IF packages THEN {"none", "site"} ELSE {"none"}
    /\ serving \in {"none", caddyfile}
    /\ own = caddyfile
    /\ base = NoBase
    /\ ops = FALSE
    /\ kept = None
    /\ units = {}
    /\ enabled = {}
    /\ portal = None
    /\ admin = FALSE
    /\ password = None
    /\ schema = FALSE
    /\ readOnly = FALSE
    /\ replica = FALSE
    /\ script = NoScript

-----------------------------------------------------------------------------
(* initial-install.sh.                                                     *)

\* A slip that would break PortalHasItsDatabase: what is there is not looked at.
TargetUnchecked == TRUE

\* verify_install_target.
TargetIsFree == ~base.made /\ ~ops

\* What the operator types, and what load_existing_credentials offers.
Typed == Passwords
Offered == {kept} \ {None}

\* main up to create_directories.
Install(role) ==
    /\ At("idle")
    /\ TargetIsFree
    /\ \E secret \in Typed \cup Offered :
          script' = [pc |-> "packages", role |-> role, password |-> secret]
    /\ UNCHANGED <<packages, files, services, caddy, database, own>>

\* install_system_dependencies: the caddy package brings a Caddyfile and starts.
InstallPackages ==
    /\ At("packages")
    /\ IF packages THEN UNCHANGED <<packages, caddy, own>>
       ELSE /\ packages' = TRUE
            /\ caddyfile' = "site" /\ serving' = "site" /\ own' = "site"
    /\ Goes("ops")
    /\ UNCHANGED <<files, services, database>>

\* create_directories, the first directory and the others.
MakeOps ==
    /\ At("ops")
    /\ ops' = TRUE
    /\ Goes("base")
    /\ UNCHANGED <<packages, base, kept, services, caddy, database, own>>

MakeBase ==
    /\ At("base")
    /\ base' = [NoBase EXCEPT !.made = TRUE]
    /\ Goes("env")
    /\ UNCHANGED <<packages, ops, kept, services, caddy, database, own>>

\* install_application to create_environment_file.
WriteEnvironment ==
    /\ At("env")
    /\ base' = [base EXCEPT !.env = script.password]
    /\ Goes("keep")
    /\ UNCHANGED <<packages, ops, kept, services, caddy, database, own>>

\* create_replication_credential_file, and create_virtualenv.
KeepCredentials ==
    /\ At("keep")
    /\ kept' = script.password
    /\ Goes("open")
    /\ UNCHANGED <<packages, base, ops, services, caddy, database, own>>

\* initialize_database, its three statements.
OpenDatabase ==
    /\ At("open")
    /\ readOnly' = FALSE
    /\ Goes("provision")
    /\ UNCHANGED <<packages, files, services, caddy, password, schema, replica, own>>

Provision ==
    /\ At("provision")
    /\ password' = script.password
    /\ Goes("schema")
    /\ UNCHANGED <<packages, files, services, caddy, schema, readOnly, replica, own>>

CreateSchema ==
    /\ At("schema")
    /\ schema' = TRUE
    /\ Goes("units")
    /\ UNCHANGED <<packages, files, services, caddy, password, readOnly, replica, own>>

\* install_systemd_service.
InstallUnits ==
    /\ At("units")
    /\ units' = Services
    /\ Goes(IF script.role = "hot" THEN "role" ELSE "forget")
    /\ UNCHANGED <<packages, files, enabled, portal, admin, caddy, database, own>>

\* configure_cluster_role on a hot node; enable --now starts what is stopped.
StartPortal ==
    /\ At("role")
    /\ enabled' = enabled \cup {"xmr"}
    /\ portal' = IF portal = None THEN base.env ELSE portal
    /\ Goes("admin")
    /\ UNCHANGED <<packages, files, units, admin, caddy, database, own>>

\* configure_cluster_role on a cold node: the old master is forgotten, and
\* demote stops the portal, closes the database and replicates.
ForgetMaster ==
    /\ At("forget")
    /\ replica' = FALSE
    /\ portal' = None
    /\ Goes("close")
    /\ UNCHANGED <<packages, files, units, enabled, admin, caddy, password, schema,
                   readOnly, own>>

CloseDatabase ==
    /\ At("close")
    /\ readOnly' = TRUE
    /\ Goes("replicate")
    /\ UNCHANGED <<packages, files, services, caddy, password, schema, replica, own>>

Replicate ==
    /\ At("replicate")
    /\ replica' = TRUE
    /\ Goes("admin")
    /\ UNCHANGED <<packages, files, services, caddy, password, schema, readOnly, own>>

\* start_admin_service.
StartAdmin ==
    /\ At("admin")
    /\ enabled' = enabled \cup {"xmr-admin"}
    /\ admin' = TRUE
    /\ Goes("backup")
    /\ UNCHANGED <<packages, files, units, portal, caddy, database, own>>

\* install_caddy_config.
BackUpCaddyfile ==
    /\ At("backup")
    /\ base' = IF caddyfile = "none" THEN base ELSE [base EXCEPT !.backup = caddyfile]
    /\ Goes("marker")
    /\ UNCHANGED <<packages, ops, kept, services, caddy, database, own>>

MarkCaddyActive ==
    /\ At("marker")
    /\ base' = [base EXCEPT !.marker = serving # "none"]
    /\ Goes("caddyfile")
    /\ UNCHANGED <<packages, ops, kept, services, caddy, database, own>>

WriteCaddyfile ==
    /\ At("caddyfile")
    /\ caddyfile' = "portal"
    /\ Goes("reload")
    /\ UNCHANGED <<packages, files, services, serving, database, own>>

\* A slip that would break InstalledServes: caddy is started if it is stopped,
\* and not told to reload.
StartCaddy ==
    /\ At("reload")
    /\ serving' = IF serving = "none" THEN caddyfile ELSE serving
    /\ Goes("installed")
    /\ UNCHANGED <<packages, files, services, caddyfile, database, own>>

ReloadCaddy ==
    /\ At("reload")
    /\ serving' = caddyfile
    /\ Goes("installed")
    /\ UNCHANGED <<packages, files, services, caddyfile, database, own>>

-----------------------------------------------------------------------------
(* env-reset.sh.                                                           *)

Reset ==
    /\ At("idle")
    /\ script' = [NoScript EXCEPT !.pc = "stop"]
    /\ UNCHANGED <<packages, files, services, caddy, database, own>>

\* A slip that would break InstallTypeOK: the portal is stopped and stays enabled.
StopPortalOnly ==
    /\ At("stop")
    /\ portal' = None
    /\ Goes("stop-admin")
    /\ UNCHANGED <<packages, files, units, enabled, admin, caddy, database, own>>

\* remove_systemd_service: disable --now for one and the other, then the unit
\* files.  What is installed can be disabled, and systemd kills what does not stop.
StopPortal ==
    /\ At("stop")
    /\ enabled' = enabled \ {"xmr"}
    /\ portal' = None
    /\ Goes("stop-admin")
    /\ UNCHANGED <<packages, files, units, admin, caddy, database, own>>

StopAdmin ==
    /\ At("stop-admin")
    /\ enabled' = enabled \ {"xmr-admin"}
    /\ admin' = FALSE
    /\ Goes("remove-units")
    /\ UNCHANGED <<packages, files, units, portal, caddy, database, own>>

RemoveUnits ==
    /\ At("remove-units")
    /\ units' = {}
    /\ Goes("detach")
    /\ UNCHANGED <<packages, files, enabled, portal, admin, caddy, database, own>>

\* reset_database: a database that is read-only is a replica's.  MariaDB is taken to
\* answer whether it is.
DetachReplica ==
    /\ At("detach")
    /\ \/ packages /\ readOnly /\ replica' = FALSE /\ Goes("reopen")
       \/ ~(packages /\ readOnly) /\ UNCHANGED replica /\ Goes("drop")
    /\ UNCHANGED <<packages, files, services, caddy, password, schema, readOnly, own>>

Reopen ==
    /\ At("reopen")
    /\ readOnly' = FALSE
    /\ Goes("drop")
    /\ UNCHANGED <<packages, files, services, caddy, password, schema, replica, own>>

\* "could not be removed; continuing reset".
DropTables ==
    /\ At("drop")
    /\ schema' \in IF packages THEN {FALSE, schema} ELSE {schema}
    /\ Goes("restore")
    /\ UNCHANGED <<packages, files, services, caddy, password, readOnly, replica, own>>

\* A slip that would break CaddyIsTheNodes: without a backup the Caddyfile stays.
RestoreBackupOnly ==
    /\ At("restore")
    /\ caddyfile' = IF base.backup = "none" THEN caddyfile ELSE base.backup
    /\ Goes("unload")
    /\ UNCHANGED <<packages, files, services, serving, database, own>>

\* restore_caddy_config: without a backup the Caddyfile is removed, whosever it is.
RestoreCaddyfile ==
    /\ At("restore")
    /\ caddyfile' = base.backup /\ own' = base.backup
    /\ Goes("unload")
    /\ UNCHANGED <<packages, files, services, serving, database>>

\* A slip that would break ResetIsClean: without the marker caddy goes on.
UnloadPortalIfMarked ==
    /\ At("unload")
    /\ base.marker => caddyfile # "none"
    /\ serving' = IF base.marker THEN caddyfile ELSE serving
    /\ Goes("remove-base")
    /\ UNCHANGED <<packages, files, services, caddyfile, database, own>>

\* Its second half.  A reload without a Caddyfile fails, and the script with it.
UnloadPortal ==
    /\ At("unload")
    /\ base.marker => caddyfile # "none"
    /\ serving' = IF base.marker THEN caddyfile ELSE "none"
    /\ Goes("remove-base")
    /\ UNCHANGED <<packages, files, services, caddyfile, database, own>>

\* remove_installation.
RemoveBase ==
    /\ At("remove-base")
    /\ base' = NoBase
    /\ Goes("remove-ops")
    /\ UNCHANGED <<packages, ops, kept, services, caddy, database, own>>

RemoveOps ==
    /\ At("remove-ops")
    /\ ops' = FALSE
    /\ Goes("removed")
    /\ UNCHANGED <<packages, base, kept, services, caddy, database, own>>

-----------------------------------------------------------------------------
\* A command ends: with its message, or between any two of its statements, and
\* then it undoes nothing.
Ends ==
    /\ script.pc # "idle"
    /\ script' = NoScript
    /\ UNCHANGED <<packages, files, services, caddy, database, own>>

\* The machine restarts: what is enabled starts, read_only is off again,
\* replication resumes, and caddy loads its Caddyfile.
Reboot ==
    /\ portal' = IF "xmr" \in enabled THEN base.env ELSE None
    /\ admin' = ("xmr-admin" \in enabled)
    /\ readOnly' = FALSE
    /\ serving' = IF packages THEN caddyfile ELSE serving
    /\ script' = NoScript
    /\ UNCHANGED <<packages, files, units, enabled, caddyfile, password, schema,
                   replica, own>>

InstallStep ==
    \/ InstallPackages \/ MakeOps \/ MakeBase \/ WriteEnvironment \/ KeepCredentials
    \/ OpenDatabase \/ Provision \/ CreateSchema
    \/ InstallUnits \/ StartPortal \/ ForgetMaster \/ CloseDatabase \/ Replicate
    \/ StartAdmin
    \/ BackUpCaddyfile \/ MarkCaddyActive \/ WriteCaddyfile \/ ReloadCaddy

ResetStep ==
    \/ StopPortal \/ StopAdmin \/ RemoveUnits \/ DetachReplica \/ Reopen \/ DropTables
    \/ RestoreCaddyfile \/ UnloadPortal \/ RemoveBase \/ RemoveOps

Next ==
    \/ \E role \in {"hot", "cold"} : Install(role)
    \/ InstallStep
    \/ Reset
    \/ ResetStep
    \/ Ends
    \/ Reboot

Spec == Init /\ [][Next]_vars

-----------------------------------------------------------------------------
InstallTypeOK ==
    /\ packages \in BOOLEAN
    /\ base \in Base
    /\ ops \in BOOLEAN
    /\ kept \in Passwords \cup {None}
    /\ units \in SUBSET Services
    /\ enabled \in SUBSET units
    /\ portal \in Passwords \cup {None}
    /\ admin \in BOOLEAN
    /\ caddyfile \in Configs
    /\ serving \in Configs
    /\ password \in Passwords \cup {None}
    /\ schema \in BOOLEAN
    /\ readOnly \in BOOLEAN
    /\ replica \in BOOLEAN
    /\ script \in Script
    /\ own \in Configs

\* However installations and resets died before, a portal that runs signs in
\* with the password its database has, which is the one in its environment (so
\* that it can be restarted) and in /root/.xmr (so that db-mgr.sh can use it),
\* and finds its tables.
PortalHasItsDatabase ==
    portal # None =>
        /\ portal = password /\ portal = kept /\ portal = base.env
        /\ schema

\* A backup is the Caddyfile the node had, never the portal's, and the portal's is
\* never there without the directory from which env-reset.sh undoes it and the backup
\* of the file it replaced, if there was one: no sequence of failed installations and
\* resets leaves the node stuck on it.
CaddyIsTheNodes ==
    /\ base.backup \in {"none", own}
    /\ caddyfile = "portal" => base.made /\ base.backup = own
    /\ script.pc \in {"unload", "remove-base", "remove-ops", "removed"} =>
          caddyfile # "portal"

\* initial-install.sh's last words, "installed successfully": the node serves
\* the portal's configuration, a hot one with the portal running on a database
\* that accepts writes unless a restart came between, a cold one with neither.
InstalledServes ==
    At("installed") =>
        /\ serving = "portal" /\ admin /\ enabled # {}
        /\ base.made /\ ops /\ schema
        /\ script.role = "hot" => portal # None /\ "xmr" \in enabled /\ ~readOnly
        /\ script.role = "cold" => portal = None /\ readOnly /\ replica

\* env-reset.sh's last words, "removed successfully": nothing of the portal
\* runs, or comes back with the machine, and an installation may begin.
ResetIsClean ==
    At("removed") =>
        /\ portal = None /\ ~admin /\ enabled = {} /\ units = {}
        /\ ~base.made /\ ~ops
        /\ serving # "portal"
        /\ ~readOnly
=============================================================================
