------------------------- MODULE AgentInstallation --------------------------
(* Installing and removing the embedded agent skills of one agent target      *)
(* (src/internal/agent/install.go, receipt.go, legacy.go): packages are       *)
(* checked, renamed aside, replaced by staged ones and restored when a later  *)
(* step fails, while the user may edit a package at any moment.  Releases are *)
(* numbered; a larger number is content of the user's own.                    *)
EXTENDS Naturals

CONSTANTS
    Installers,      \* commands `agent install` and `agent uninstall`
    NoInstaller,
    Releases,        \* releases of the program; their bundles are 1 .. Releases
    Running,         \* releases being run
    Skills,          \* packages, 1 .. Skills
    LegacySkills,    \* those an installation removes
    InstallFaults,   \* bound: failing file operations and killed commands
    MaxSkillEdits    \* bound: edits of the user

ASSUME InstallAssumption ==
    /\ NoInstaller \notin Installers /\ {Releases, Skills} \subseteq Nat \ {0} /\ {InstallFaults, MaxSkillEdits} \subseteq Nat
    /\ Running \subseteq 1 .. Releases /\ LegacySkills \subseteq 1 .. Skills

VARIABLES
    skill,           \* what agents find of each package (0: nothing)
    keptSkills,      \* what stands in the backup and removal directories of each package
    skillReceipt,    \* the ownership receipt: the bundle installed of each package
    skillLock,       \* who holds .tadx-install.lock
    install,         \* each command
    mine,            \* the user's latest edit of each package that has to survive (0: none)
    skillEdits, installFaults

installVars == <<skill, keptSkills, skillReceipt, skillLock, install, mine, skillEdits, installFaults>>

Packages == 1 .. Skills
Shipped == 1 .. Releases
Contents == 0 .. Releases + MaxSkillEdits
NoPackages == [k \in Packages |-> 0]

(* before: what was found of each package; owned: the receipt read then;      *)
(* aside: what was renamed away; committed: packages whose new version is     *)
(* visible; at, k: the step and the package it is about.                      *)
NoInstall ==
    [op |-> "none", at |-> "idle", release |-> 1, k |-> 1, before |-> NoPackages, owned |-> NoPackages,
     aside |-> NoPackages, committed |-> {}]

InstallTypeOK ==
    /\ skill \in [Packages -> Contents] /\ skillReceipt \in [Packages -> 0 .. Releases]
    /\ \A k \in Packages : keptSkills[k] \subseteq Contents \ {0}
    /\ \A p \in Installers :
        /\ install[p].at \in {"idle", "lock", "validate", "move", "commit", "rollback", "restore", "cleanup", "done", "refused", "failed", "partial"}
        /\ skillLock = p <=> install[p].at \notin {"idle", "lock"}

(* Nothing, or the first release as it was installed, with what it calls      *)
(* legacy there as well.                                                      *)
InstallInit ==
    /\ skill \in {NoPackages, [k \in Packages |-> 1]} /\ mine = NoPackages
    /\ skillReceipt = [k \in Packages |-> IF k \in LegacySkills THEN 0 ELSE skill[k]]
    /\ keptSkills = [k \in Packages |-> {}]
    /\ skillLock = NoInstaller
    /\ install = [p \in Installers |-> NoInstall]
    /\ skillEdits = 0 /\ installFaults = 0

InstallFault == installFaults < InstallFaults /\ installFaults' = installFaults + 1
NoInstallFault == UNCHANGED installFaults

Step(p, at) == install' = [install EXCEPT ![p].at = at]
At(p, at) == install[p].at = at

-----------------------------------------------------------------------------
(* Everything up to the first change; nothing is locked at first.             *)
Plan(p, op, release) ==
    /\ At(p, "idle")
    /\ op = "uninstall" => skill # NoPackages
    /\ install' = [install EXCEPT ![p] = [NoInstall EXCEPT !.op = op, !.at = "lock", !.release = release,
                                                           !.before = skill, !.owned = skillReceipt]]
    /\ UNCHANGED <<skill, keptSkills, skillReceipt, skillLock, mine, skillEdits, installFaults>>

(* lockPackages does not wait; a receipt that changed ends the command.       *)
LockPackages(p) ==
    /\ At(p, "lock")
    /\ IF skillLock = NoInstaller /\ skillReceipt = install[p].owned
       THEN Step(p, "validate") /\ skillLock' = p
       ELSE install' = [install EXCEPT ![p] = NoInstall] /\ UNCHANGED skillLock
    /\ UNCHANGED <<skill, keptSkills, skillReceipt, mine, skillEdits, installFaults>>

(* Stages are written and every package is checked before the first rename.   *)
ValidatePackages(p) ==
    /\ At(p, "validate")
    /\ \/ NoInstallFault /\ Step(p, IF skill = install[p].before THEN "move" ELSE "refused")
       \/ InstallFault /\ Step(p, "refused")
    /\ UNCHANGED <<skill, keptSkills, skillReceipt, skillLock, mine, skillEdits>>

-----------------------------------------------------------------------------
(* The plan of one package after the other.                                   *)

Removes(p, k) == install[p].op = "uninstall" \/ k \in LegacySkills

Skips(p, k) ==
    IF Removes(p, k) THEN install[p].before[k] = 0 ELSE install[p].before[k] = install[p].release

(* Mutant: what was renamed aside is not looked at again.                     *)
Unchecked(p, k) == TRUE

Unedited(p, k) == skill[k] = install[p].before[k]

Next1(p) == install' = [install EXCEPT ![p].at = "move", ![p].k = @ + 1]

SkipPackage(p) ==
    /\ At(p, "move") /\ install[p].k \in Packages /\ Skips(p, install[p].k)
    /\ Next1(p)
    /\ UNCHANGED <<skill, keptSkills, skillReceipt, skillLock, mine, skillEdits, installFaults>>

(* The rename, and the fingerprint of what it moved.                          *)
MoveAside(p) ==
    LET k == install[p].k IN
    /\ At(p, "move") /\ k \in Packages /\ ~Skips(p, k) /\ install[p].before[k] # 0
    /\ \/ /\ NoInstallFault
          /\ skill' = [skill EXCEPT ![k] = 0] /\ keptSkills' = [keptSkills EXCEPT ![k] = @ \cup {skill[k]}]
          /\ install' = [install EXCEPT ![p].aside[k] = skill[k],
                ![p].at = IF ~Unedited(p, k) THEN "rollback" ELSE IF Removes(p, k) THEN "move" ELSE "commit",
                ![p].k = IF Unedited(p, k) /\ Removes(p, k) THEN k + 1 ELSE k]
       \/ InstallFault /\ Step(p, "rollback") /\ UNCHANGED <<skill, keptSkills>>
    /\ UNCHANGED <<skillReceipt, skillLock, mine, skillEdits>>

(* A package that was not there has nothing to move.                          *)
Commits(p, k) == At(p, "commit") \/ (At(p, "move") /\ ~Removes(p, k) /\ install[p].before[k] = 0)

(* The rename of the stage fails when the user made the package anew.         *)
CommitPackage(p) ==
    LET k == install[p].k IN
    /\ k \in Packages /\ Commits(p, k)
    /\ \/ /\ NoInstallFault /\ skill[k] = 0
          /\ skill' = [skill EXCEPT ![k] = install[p].release]
          /\ install' = [install EXCEPT ![p].committed = @ \cup {k}, ![p].at = "move", ![p].k = k + 1]
       \/ NoInstallFault /\ skill[k] # 0 /\ Step(p, "rollback") /\ UNCHANGED skill
       \/ InstallFault /\ skill[k] = 0 /\ Step(p, "rollback") /\ UNCHANGED skill
    /\ UNCHANGED <<keptSkills, skillReceipt, skillLock, mine, skillEdits>>

(* The last step that can fail; packages removed for good leave the receipt.  *)
WriteReceipt(p) ==
    /\ At(p, "move") /\ install[p].k = Skills + 1
    /\ \/ /\ NoInstallFault
          /\ skillReceipt' = [k \in Packages |-> IF Removes(p, k) THEN 0 ELSE install[p].release]
          /\ install' = [install EXCEPT ![p].at = "cleanup", ![p].k = 1]
       \/ InstallFault /\ install' = [install EXCEPT ![p].at = "rollback", ![p].k = Skills] /\ UNCHANGED skillReceipt
    /\ UNCHANGED <<skill, keptSkills, skillLock, mine, skillEdits>>

-----------------------------------------------------------------------------
(* What a removal may destroy: an uninstallation this program's bundle and    *)
(* the one of the receipt, and for a legacy package any known bundle.         *)
Disposable(p, k) ==
    IF k \in LegacySkills THEN install[p].before[k] \in Shipped
    ELSE install[p].before[k] \in {install[p].release, install[p].owned[k]}

(* Replaced packages stay in the backup directory.                            *)
Cleanup(p) ==
    LET k == install[p].k  content == install[p].aside[k] IN
    /\ At(p, "cleanup") /\ k \in Packages
    /\ \/ /\ NoInstallFault
          /\ keptSkills' = IF Removes(p, k) /\ content # 0 /\ Disposable(p, k)
                           THEN [keptSkills EXCEPT ![k] = @ \ {content}] ELSE keptSkills
       \/ InstallFault /\ Removes(p, k) /\ content # 0 /\ Disposable(p, k) /\ UNCHANGED keptSkills
    /\ install' = [install EXCEPT ![p].k = k + 1, ![p].at = IF k = Skills THEN "done" ELSE "cleanup"]
    /\ UNCHANGED <<skill, skillReceipt, skillLock, mine, skillEdits>>

(* The rollback, from the last package back: the new version goes back to its *)
(* stage, which is removed in the end, and the old one to its place.          *)
WithdrawPackage(p) ==
    LET k == install[p].k IN
    /\ At(p, "rollback")
    /\ IF k \notin install[p].committed
       THEN NoInstallFault /\ Step(p, "restore") /\ UNCHANGED skill
       ELSE \/ /\ NoInstallFault /\ skill' = [skill EXCEPT ![k] = 0]
               /\ install' = [install EXCEPT ![p].at = "restore", ![p].committed = @ \ {k}]
            \/ InstallFault /\ Step(p, "partial") /\ UNCHANGED skill
    /\ UNCHANGED <<keptSkills, skillReceipt, skillLock, mine, skillEdits>>

RestorePackage(p) ==
    LET k == install[p].k  content == install[p].aside[k] IN
    /\ At(p, "restore")
    /\ \/ /\ NoInstallFault /\ (content = 0 \/ skill[k] = 0)
          /\ skill' = IF content = 0 THEN skill ELSE [skill EXCEPT ![k] = content]
          /\ keptSkills' = [keptSkills EXCEPT ![k] = @ \ {content}]
          /\ install' = [install EXCEPT ![p].aside[k] = 0, ![p].k = k - 1, ![p].at = IF k = 1 THEN "failed" ELSE "rollback"]
       \/ /\ content # 0
          /\ \/ NoInstallFault /\ skill[k] # 0
             \/ InstallFault /\ skill[k] = 0
          /\ Step(p, "partial") /\ UNCHANGED <<skill, keptSkills>>
    /\ UNCHANGED <<skillReceipt, skillLock, mine, skillEdits>>

Unlock(p) ==
    /\ install[p].at \in {"done", "refused", "failed", "partial"}
    /\ install' = [install EXCEPT ![p] = NoInstall] /\ skillLock' = NoInstaller
    /\ UNCHANGED <<skill, keptSkills, skillReceipt, mine, skillEdits, installFaults>>

(* Its stages are removed by the next command, its backups stay.              *)
KillInstaller(p) ==
    /\ ~At(p, "idle") /\ InstallFault
    /\ install' = [install EXCEPT ![p] = NoInstall]
    /\ skillLock' = IF skillLock = p THEN NoInstaller ELSE skillLock
    /\ UNCHANGED <<skill, keptSkills, skillReceipt, mine, skillEdits>>

(* The user edits a package, or puts one there.  An edit of a version that a  *)
(* running installation has just put there goes with it when that installation *)
(* is rolled back, so it is not counted.                                      *)
EditSkill(k) ==
    /\ skillEdits < MaxSkillEdits /\ skillEdits' = skillEdits + 1
    /\ skill' = [skill EXCEPT ![k] = Releases + skillEdits']
    /\ mine' = [mine EXCEPT ![k] = IF \E p \in Installers : k \in install[p].committed THEN 0 ELSE skill'[k]]
    /\ UNCHANGED <<keptSkills, skillReceipt, skillLock, install, installFaults>>

InstallStep(p) ==
    \/ \E op \in {"install", "uninstall"}, release \in Running : Plan(p, op, release)
    \/ LockPackages(p) \/ ValidatePackages(p) \/ SkipPackage(p) \/ MoveAside(p) \/ CommitPackage(p)
    \/ WriteReceipt(p) \/ Cleanup(p) \/ WithdrawPackage(p) \/ RestorePackage(p) \/ Unlock(p) \/ KillInstaller(p)

InstallSpec ==
    InstallInit /\ [][(\E p \in Installers : InstallStep(p)) \/ (\E k \in Packages : EditSkill(k))]_installVars

-----------------------------------------------------------------------------
(* What the user made of a package is where agents find it or in a backup,    *)
(* whatever is installed, removed, fails or dies.  A command that failed      *)
(* without reporting a partial result left every package as it found it; one  *)
(* that succeeded made the packages and the receipt what it was asked for.    *)
(* Only an edit made meanwhile may stand in a package's place.                *)
SkillsAreKept ==
    /\ InstallTypeOK
    /\ \A k \in Packages : mine[k] # 0 => mine[k] \in {skill[k]} \cup keptSkills[k]
    /\ \A p \in Installers, k \in Packages :
        /\ At(p, "failed") => skill[k] = install[p].before[k] \/ skill[k] \notin Shipped \cup {0}
        /\ At(p, "done") =>
            /\ skill[k] = (IF Removes(p, k) THEN 0 ELSE install[p].release) \/ skill[k] \notin Shipped \cup {0}
            /\ skillReceipt[k] = IF Removes(p, k) THEN 0 ELSE install[p].release
=============================================================================
