--------------------------- MODULE InstallProofs ----------------------------
(***************************************************************************)
(* However often initial-install.sh and env-reset.sh die, and wherever the *)
(* machine restarts: a running portal has its database, the node gets its  *)
(* Caddyfile back, and the last words of both scripts are true.            *)
(***************************************************************************)
EXTENDS Install, TLAPS

\* How far an installation has come.
Untouched == {"packages", "ops", "base"}
Prepared == {"keep", "open", "provision", "schema", "units"}
OnHot == {"role"}
OnCold == {"forget", "close", "replicate"}
Fronted == {"admin", "backup", "marker", "caddyfile", "reload", "installed"}

Quiet == portal = None /\ enabled = {}

\* What is there is the work of one installation, or of none.
NodeOK ==
    /\ ~base.made => base = NoBase
    /\ ~Quiet => base.made
    /\ readOnly => packages
    /\ portal \in {None, base.env}
    /\ portal # None \/ "xmr" \in enabled =>
          /\ base.env # None /\ password = base.env /\ kept = base.env
          /\ schema

CaddyOK ==
    /\ own # "portal"
    /\ caddyfile \in {own, "portal"}
    /\ base.backup \in {"none", own}
    /\ caddyfile = "portal" => base.made /\ base.backup = own
    /\ script.pc \in {"marker", "caddyfile"} => base.backup = own

\* An installation finds the target free, and what it has written so far holds
\* its password.
InstallOK ==
    /\ script.pc \in Untouched => ~base.made
    /\ script.pc \in Untouched \cup {"env"} \cup Prepared \cup OnHot \cup OnCold => Quiet
    /\ script.pc \in InstallSteps \ {"reload", "installed"} => caddyfile # "portal"
    /\ script.pc \in InstallSteps => script.password # None
    /\ script.pc \in InstallSteps \ {"packages"} => packages
    /\ script.pc \in InstallSteps \ {"packages", "ops"} => ops
    /\ script.pc \in InstallSteps \ Untouched => base.made
    /\ script.pc \in Prepared \cup OnHot \cup OnCold => base.env = script.password
    /\ script.pc \in (Prepared \ {"keep"}) \cup OnHot \cup OnCold => kept = script.password
    /\ script.pc \in {"schema", "units"} \cup OnHot \cup OnCold => password = script.password
    /\ script.pc \in {"units"} \cup OnHot \cup OnCold \cup Fronted => schema
    /\ script.pc \in OnHot \cup OnCold \cup Fronted => units = Services

\* The role an installation gives its node.
RoleOK ==
    /\ script.pc \in {"provision", "schema", "units"} \cup OnHot => ~readOnly
    /\ script.pc \in OnHot => script.role = "hot"
    /\ script.pc \in OnCold => script.role = "cold"
    /\ script.pc = "replicate" => readOnly
    /\ script.pc \in Fronted =>
          /\ script.role = "hot" => portal # None /\ "xmr" \in enabled /\ ~readOnly
          /\ script.role = "cold" => portal = None /\ readOnly /\ replica
    /\ script.pc \in Fronted \ {"admin"} => admin /\ enabled # {}
    /\ script.pc \in {"reload", "installed"} => caddyfile = "portal"
    /\ script.pc = "installed" => serving = "portal"

\* What a reset has removed stays removed.
ResetOK ==
    /\ script.pc = "stop-admin" => portal = None /\ "xmr" \notin enabled
    /\ script.pc \in ResetSteps \ {"stop", "stop-admin"} => Quiet /\ ~admin
    /\ script.pc \in ResetSteps \ {"stop", "stop-admin", "remove-units"} => units = {}
    /\ script.pc \in {"drop", "restore", "unload", "remove-base", "remove-ops", "removed"} =>
          ~readOnly
    /\ script.pc \in {"unload", "remove-base", "remove-ops", "removed"} =>
          caddyfile # "portal"
    /\ script.pc \in {"remove-base", "remove-ops", "removed"} => serving # "portal"
    /\ script.pc \in {"remove-ops", "removed"} => ~base.made
    /\ script.pc = "removed" => ~ops

IInv == InstallTypeOK /\ NodeOK /\ CaddyOK /\ InstallOK /\ RoleOK /\ ResetOK

-----------------------------------------------------------------------------
\* The invariant holds on the machine as it is before the first command.
LEMMA InitInv == Init => IInv
<1> SUFFICES ASSUME Init PROVE IInv
  OBVIOUS
<1>1. script \in Script /\ base \in Base
  BY DEF Init, NoScript, Script, NoBase, Base, Configs
<1>2. InstallTypeOK
  BY <1>1 DEF Init, InstallTypeOK, Configs, Services
<1>3. NodeOK /\ CaddyOK
  BY DEF Init, NodeOK, CaddyOK, NoBase, NoScript, Quiet
<1>4. InstallOK /\ RoleOK /\ ResetOK
  BY DEF Init, InstallOK, RoleOK, ResetOK, NoScript, Untouched, Prepared, OnHot,
     OnCold, Fronted, InstallSteps, ResetSteps
<1> QED
  BY <1>2, <1>3, <1>4 DEF IInv

\* A statement of initial-install.sh keeps it, also where the next one fails.
LEMMA InstallInv == IInv /\ InstallStep => IInv'
<1> SUFFICES ASSUME IInv, InstallStep PROVE IInv'
  OBVIOUS
<1> USE NoneAssumption DEF IInv, InstallTypeOK, NodeOK, CaddyOK, InstallOK, RoleOK, ResetOK,
        Quiet, Script, Base, NoBase, Configs, Services, At, Goes, files, services,
        caddy, database,
        Untouched, Prepared, OnHot, OnCold, Fronted, InstallSteps, ResetSteps
<1>1. CASE InstallPackages
  <2>1. InstallTypeOK'
    <3>1. script' \in Script
      BY <1>1 DEF InstallPackages
    <3>2. base' \in Base
      BY <1>1 DEF InstallPackages
    <3> HIDE DEF Script, Base
    <3>3. CASE packages
      BY <1>1, <3>1, <3>2, <3>3 DEF InstallPackages
    <3>4. CASE ~(packages)
      BY <1>1, <3>1, <3>2, <3>4 DEF InstallPackages
    <3> QED
      BY <3>3, <3>4
  <2>2. NodeOK'
    BY <1>1 DEF InstallPackages
  <2>3. CaddyOK'
    BY <1>1 DEF InstallPackages
  <2>4. InstallOK'
    BY <1>1 DEF InstallPackages
  <2>5. RoleOK'
    BY <1>1 DEF InstallPackages
  <2>6. ResetOK'
    BY <1>1 DEF InstallPackages
  <2> QED
    BY <2>1, <2>2, <2>3, <2>4, <2>5, <2>6
<1>2. CASE MakeOps
  BY <1>2 DEF MakeOps
<1>3. CASE MakeBase
  <2>1. InstallTypeOK'
    <3>1. script' \in Script
      BY <1>3 DEF MakeBase
    <3>2. base' \in Base
      BY <1>3 DEF MakeBase
    <3> HIDE DEF Script, Base
    <3> QED
      BY <1>3, <3>1, <3>2 DEF MakeBase
  <2>2. NodeOK'
    BY <1>3 DEF MakeBase
  <2>3. CaddyOK'
    BY <1>3 DEF MakeBase
  <2>4. InstallOK'
    BY <1>3 DEF MakeBase
  <2>5. RoleOK'
    BY <1>3 DEF MakeBase
  <2>6. ResetOK'
    BY <1>3 DEF MakeBase
  <2> QED
    BY <2>1, <2>2, <2>3, <2>4, <2>5, <2>6
<1>4. CASE WriteEnvironment
  BY <1>4 DEF WriteEnvironment
<1>5. CASE KeepCredentials
  BY <1>5 DEF KeepCredentials
<1>6. CASE OpenDatabase
  <2>1. InstallTypeOK'
    <3>1. script' \in Script
      BY <1>6 DEF OpenDatabase
    <3>2. base' \in Base
      BY <1>6 DEF OpenDatabase
    <3> HIDE DEF Script, Base
    <3> QED
      BY <1>6, <3>1, <3>2 DEF OpenDatabase
  <2>2. NodeOK'
    BY <1>6 DEF OpenDatabase
  <2>3. CaddyOK'
    BY <1>6 DEF OpenDatabase
  <2>4. InstallOK'
    BY <1>6 DEF OpenDatabase
  <2>5. RoleOK'
    BY <1>6 DEF OpenDatabase
  <2>6. ResetOK'
    BY <1>6 DEF OpenDatabase
  <2> QED
    BY <2>1, <2>2, <2>3, <2>4, <2>5, <2>6
<1>7. CASE Provision
  BY <1>7 DEF Provision
<1>8. CASE CreateSchema
  BY <1>8 DEF CreateSchema
<1>9. CASE InstallUnits
  BY <1>9 DEF InstallUnits
<1>10. CASE StartPortal
  BY <1>10 DEF StartPortal
<1>11. CASE ForgetMaster
  <2>1. InstallTypeOK'
    <3>1. script' \in Script
      BY <1>11 DEF ForgetMaster
    <3>2. base' \in Base
      BY <1>11 DEF ForgetMaster
    <3> HIDE DEF Script, Base
    <3> QED
      BY <1>11, <3>1, <3>2 DEF ForgetMaster
  <2>2. NodeOK'
    BY <1>11 DEF ForgetMaster
  <2>3. CaddyOK'
    BY <1>11 DEF ForgetMaster
  <2>4. InstallOK'
    BY <1>11 DEF ForgetMaster
  <2>5. RoleOK'
    BY <1>11 DEF ForgetMaster
  <2>6. ResetOK'
    BY <1>11 DEF ForgetMaster
  <2> QED
    BY <2>1, <2>2, <2>3, <2>4, <2>5, <2>6
<1>12. CASE CloseDatabase
  BY <1>12 DEF CloseDatabase
<1>13. CASE Replicate
  BY <1>13 DEF Replicate
<1>14. CASE StartAdmin
  BY <1>14 DEF StartAdmin
<1>15. CASE BackUpCaddyfile
  BY <1>15 DEF BackUpCaddyfile
<1>16. CASE MarkCaddyActive
  <2>1. InstallTypeOK'
    <3>1. script' \in Script
      BY <1>16 DEF MarkCaddyActive
    <3>2. base' \in Base
      BY <1>16 DEF MarkCaddyActive
    <3> HIDE DEF Script, Base
    <3> QED
      BY <1>16, <3>1, <3>2 DEF MarkCaddyActive
  <2>2. NodeOK'
    BY <1>16 DEF MarkCaddyActive
  <2>3. CaddyOK'
    BY <1>16 DEF MarkCaddyActive
  <2>4. InstallOK'
    BY <1>16 DEF MarkCaddyActive
  <2>5. RoleOK'
    BY <1>16 DEF MarkCaddyActive
  <2>6. ResetOK'
    BY <1>16 DEF MarkCaddyActive
  <2> QED
    BY <2>1, <2>2, <2>3, <2>4, <2>5, <2>6
<1>17. CASE WriteCaddyfile
  BY <1>17 DEF WriteCaddyfile
<1>18. CASE ReloadCaddy
  BY <1>18 DEF ReloadCaddy
<1> QED
  BY <1>1, <1>2, <1>3, <1>4, <1>5, <1>6, <1>7, <1>8, <1>9, <1>10, <1>11, <1>12, <1>13, <1>14, <1>15, <1>16, <1>17, <1>18 DEF InstallStep

\* A script that goes on to another statement is the same script.
LEMMA GoesType ==
  ASSUME script \in Script, NEW pc \in InstallSteps \cup ResetSteps, Goes(pc)
  PROVE  script' \in Script
BY DEF Goes, Script

\* Statements of env-reset.sh that keep the types.
LEMMA ResetTypes ==
  ASSUME InstallTypeOK,
         StopPortal \/ StopAdmin \/ DetachReplica \/ Reopen \/ DropTables \/ RemoveOps
  PROVE  InstallTypeOK'
<1> USE DEF files, services, caddy, database
<1>1. script' \in Script
  <2>1. \/ Goes("stop-admin") \/ Goes("remove-units") \/ Goes("reopen")
        \/ Goes("drop") \/ Goes("restore") \/ Goes("removed")
    BY DEF StopPortal, StopAdmin, DetachReplica, Reopen, DropTables, RemoveOps
  <2>2. {"stop-admin", "remove-units", "reopen", "drop", "restore", "removed"}
            \subseteq ResetSteps
    BY DEF ResetSteps
  <2>3. script \in Script
    BY DEF InstallTypeOK
  <2> QED
    BY <2>1, <2>2, <2>3, GoesType
<1>2. CASE StopPortal
  BY <1>1, <1>2 DEF InstallTypeOK, StopPortal
<1>3. CASE StopAdmin
  BY <1>1, <1>3 DEF InstallTypeOK, StopAdmin
<1>4. CASE DetachReplica
  BY <1>1, <1>4 DEF InstallTypeOK, DetachReplica
<1>5. CASE Reopen
  BY <1>1, <1>5 DEF InstallTypeOK, Reopen
<1>6. CASE DropTables
  BY <1>1, <1>6 DEF InstallTypeOK, DropTables
<1>7. CASE RemoveOps
  BY <1>1, <1>7 DEF InstallTypeOK, RemoveOps
<1> QED
  BY <1>2, <1>3, <1>4, <1>5, <1>6, <1>7

\* A statement of env-reset.sh keeps it.
LEMMA ResetInv == IInv /\ ResetStep => IInv'
<1> SUFFICES ASSUME IInv, ResetStep PROVE IInv'
  OBVIOUS
<1>0. ASSUME StopPortal \/ StopAdmin \/ DetachReplica \/ Reopen \/ DropTables \/ RemoveOps
      PROVE  InstallTypeOK'
  BY <1>0, ResetTypes DEF IInv
<1> USE NoneAssumption DEF IInv, InstallTypeOK, NodeOK, CaddyOK, InstallOK, RoleOK, ResetOK,
        Quiet, Script, Base, NoBase, Configs, Services, At, Goes, files, services,
        caddy, database,
        Untouched, Prepared, OnHot, OnCold, Fronted, InstallSteps, ResetSteps
<1>1. CASE StopPortal
  <2>1. InstallTypeOK'
    BY <1>0, <1>1
  <2>2. NodeOK'
    BY <1>1 DEF StopPortal
  <2>3. CaddyOK'
    BY <1>1 DEF StopPortal
  <2>4. InstallOK'
    BY <1>1 DEF StopPortal
  <2>5. RoleOK'
    BY <1>1 DEF StopPortal
  <2>6. ResetOK'
    BY <1>1 DEF StopPortal
  <2> QED
    BY <2>1, <2>2, <2>3, <2>4, <2>5, <2>6
<1>2. CASE RemoveUnits
  BY <1>2 DEF RemoveUnits
<1>3. CASE Reopen
  <2>1. InstallTypeOK'
    BY <1>0, <1>3
  <2>2. NodeOK'
    BY <1>3 DEF Reopen
  <2>3. CaddyOK'
    BY <1>3 DEF Reopen
  <2>4. InstallOK'
    BY <1>3 DEF Reopen
  <2>5. RoleOK'
    BY <1>3 DEF Reopen
  <2>6. ResetOK'
    BY <1>3 DEF Reopen
  <2> QED
    BY <2>1, <2>2, <2>3, <2>4, <2>5, <2>6
<1>4. CASE DropTables
  <2>1. InstallTypeOK'
    BY <1>0, <1>4
  <2>2. NodeOK'
    BY <1>4 DEF DropTables
  <2>3. CaddyOK'
    BY <1>4 DEF DropTables
  <2>4. InstallOK'
    BY <1>4 DEF DropTables
  <2>5. RoleOK'
    BY <1>4 DEF DropTables
  <2>6. ResetOK'
    BY <1>4 DEF DropTables
  <2> QED
    BY <2>1, <2>2, <2>3, <2>4, <2>5, <2>6
<1>5. CASE RestoreCaddyfile
  BY <1>5 DEF RestoreCaddyfile
<1>6. CASE UnloadPortal
  BY <1>6 DEF UnloadPortal
<1>7. CASE RemoveBase
  BY <1>7 DEF RemoveBase
<1>8. CASE RemoveOps
  <2>1. InstallTypeOK'
    BY <1>0, <1>8
  <2>2. NodeOK'
    BY <1>8 DEF RemoveOps
  <2>3. CaddyOK'
    BY <1>8 DEF RemoveOps
  <2>4. InstallOK'
    BY <1>8 DEF RemoveOps
  <2>5. RoleOK'
    BY <1>8 DEF RemoveOps
  <2>6. ResetOK'
    BY <1>8 DEF RemoveOps
  <2> QED
    BY <2>1, <2>2, <2>3, <2>4, <2>5, <2>6
<1>9. CASE StopAdmin
  <2>1. InstallTypeOK'
    BY <1>0, <1>9
  <2>2. NodeOK'
    BY <1>9 DEF StopAdmin
  <2>3. CaddyOK'
    BY <1>9 DEF StopAdmin
  <2>4. InstallOK'
    BY <1>9 DEF StopAdmin
  <2>5. RoleOK'
    BY <1>9 DEF StopAdmin
  <2>6. ResetOK'
    BY <1>9 DEF StopAdmin
  <2> QED
    BY <2>1, <2>2, <2>3, <2>4, <2>5, <2>6
<1>10. CASE DetachReplica
  <2>1. InstallTypeOK'
    BY <1>0, <1>10
  <2>2. NodeOK'
    BY <1>10 DEF DetachReplica
  <2>3. CaddyOK'
    BY <1>10 DEF DetachReplica
  <2>4. InstallOK'
    BY <1>10 DEF DetachReplica
  <2>5. RoleOK'
    BY <1>10 DEF DetachReplica
  <2>6. ResetOK'
    BY <1>10 DEF DetachReplica
  <2> QED
    BY <2>1, <2>2, <2>3, <2>4, <2>5, <2>6
<1> QED
  BY <1>1, <1>2, <1>3, <1>4, <1>5, <1>6, <1>7, <1>8, <1>9, <1>10 DEF ResetStep

\* Whether an element is in a set is TRUE or FALSE.
LEMMA MembershipIsBoolean ==
  ASSUME NEW e, NEW S
  PROVE  (e \in S) \in BOOLEAN
  OBVIOUS

\* What both scripts leave alone when they begin or end, and what a restart of
\* the machine starts again.
LEMMA OthersInv ==
  IInv /\ ((\E role \in {"hot", "cold"} : Install(role)) \/ Reset \/ Ends \/ Reboot)
    => IInv'
<1> SUFFICES ASSUME IInv,
                    (\E role \in {"hot", "cold"} : Install(role)) \/ Reset \/ Ends \/ Reboot
             PROVE  IInv'
  OBVIOUS
<1> USE NoneAssumption DEF IInv, InstallTypeOK, NodeOK, CaddyOK, InstallOK, RoleOK, ResetOK,
        Quiet, At, files, services, caddy, database, Untouched, Prepared, OnHot,
        OnCold, Fronted, InstallSteps, ResetSteps, NoScript
<1>1. ASSUME NEW role \in {"hot", "cold"}, Install(role) PROVE IInv'
  <2>1. PICK secret \in Passwords :
            script' = [pc |-> "packages", role |-> role, password |-> secret]
    BY <1>1 DEF Install, Typed, Offered
  <2>2. script' \in Script
    BY <2>1 DEF Script
  <2>3. InstallTypeOK'
    BY <1>1, <2>2 DEF Install
  <2>4. NodeOK' /\ CaddyOK'
    BY <1>1 DEF Install
  <2>5. InstallOK' /\ RoleOK' /\ ResetOK'
    BY <1>1, <2>1 DEF Install, TargetIsFree
  <2> QED
    BY <2>3, <2>4, <2>5
<1>2. CASE Reset \/ Ends
  <2>1. script'.pc \in {"stop", "idle"} /\ script' \in Script
    BY <1>2 DEF Reset, Ends, Script
  <2>2. InstallTypeOK'
    BY <1>2, <2>1 DEF Reset, Ends
  <2>3. NodeOK' /\ CaddyOK'
    BY <1>2 DEF Reset, Ends
  <2>4. InstallOK' /\ RoleOK' /\ ResetOK'
    BY <2>1
  <2> QED
    BY <2>2, <2>3, <2>4
<1>3. CASE Reboot
  <2>1. script'.pc = "idle" /\ script' \in Script
    BY <1>3 DEF Reboot, Script
  <2>2. base.env \in Passwords \cup {None}
    BY DEF Base
  <2>3. InstallTypeOK'
    <3>1. portal' \in Passwords \cup {None}
      BY <1>3, <2>2 DEF Reboot
    <3>2. serving' \in Configs
      BY <1>3 DEF Reboot
    <3>3. readOnly' \in BOOLEAN
      BY <1>3 DEF Reboot
    <3>4. admin' \in BOOLEAN
      <4>1. admin' = ("xmr-admin" \in enabled)
        BY <1>3 DEF Reboot
      <4> QED
        BY <4>1, MembershipIsBoolean, Zenon
    <3> QED
      BY <1>3, <2>1, <3>1, <3>2, <3>3, <3>4 DEF Reboot
  <2>4. NodeOK' /\ CaddyOK'
    BY <1>3 DEF Reboot
  <2>5. InstallOK' /\ RoleOK' /\ ResetOK'
    BY <2>1
  <2> QED
    BY <2>3, <2>4, <2>5
<1> QED
  BY <1>1, <1>2, <1>3

\* So do the beginnings and ends of both scripts and a restart of the machine.
LEMMA NextInv == IInv /\ [Next]_vars => IInv'
<1> SUFFICES ASSUME IInv, [Next]_vars PROVE IInv'
  OBVIOUS
<1>1. CASE Next
  BY <1>1, InstallInv, ResetInv, OthersInv DEF Next
<1>2. CASE UNCHANGED vars
  BY <1>2 DEF vars, files, services, caddy, database, IInv, InstallTypeOK, NodeOK, CaddyOK,
     InstallOK, RoleOK, ResetOK, Quiet
<1> QED
  BY <1>1, <1>2

\* Whatever dies or restarts, the inductive invariant holds.
THEOREM Invariance == Spec => []IInv
<1> QED
  BY InitInv, NextInv, PTL DEF Spec

-----------------------------------------------------------------------------
\* Every file, unit, service and setting keeps its type; what is enabled has its
\* unit file.
THEOREM TypeCorrect == Spec => []InstallTypeOK
<1>1. IInv => InstallTypeOK
  BY DEF IInv
<1> QED
  BY <1>1, Invariance, PTL

\* A portal that runs, after whatever installations, resets and restarts, has its
\* password, its environment and its tables.
THEOREM DatabaseIsThere == Spec => []PortalHasItsDatabase
<1>1. IInv => PortalHasItsDatabase
  BY NoneAssumption DEF IInv, InstallTypeOK, NodeOK, PortalHasItsDatabase
<1> QED
  BY <1>1, Invariance, PTL

\* The portal's Caddyfile is in place only with the backup of the one it replaced, and
\* never stays behind.
THEOREM CaddyReturns == Spec => []CaddyIsTheNodes
<1>1. IInv => CaddyIsTheNodes
  BY DEF IInv, CaddyOK, ResetOK, CaddyIsTheNodes
<1> QED
  BY <1>1, Invariance, PTL

\* "installed successfully" is true of either role.
THEOREM InstalledIsTrue == Spec => []InstalledServes
<1>1. IInv => InstalledServes
  BY DEF IInv, NodeOK, InstallOK, RoleOK, InstalledServes, At, InstallSteps,
     Untouched, Fronted
<1> QED
  BY <1>1, Invariance, PTL

\* "removed successfully" is true, whatever the installation had come to.
THEOREM ResetIsTrue == Spec => []ResetIsClean
<1>1. IInv => ResetIsClean
  BY DEF IInv, ResetOK, ResetIsClean, At, ResetSteps, Quiet
<1> QED
  BY <1>1, Invariance, PTL
=============================================================================
