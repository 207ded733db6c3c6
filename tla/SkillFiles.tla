----------------------------- MODULE SkillFiles ------------------------------
(***************************************************************************)
(* The skills that `plugins install` copies out of the package for other   *)
(* agents, `plugins uninstall`, and `upgrade`, which refreshes the copies  *)
(* after it has upgraded the package.                                      *)
(*                                                                         *)
(* A flat place is a directory of skills that other packages use too.  The *)
(* place of a plugin is a tree of odoo-mcp's own, with a manifest.  Copies *)
(* do not follow the package.  One command runs at a time; it may be       *)
(* killed, and the file system may refuse what it does.                    *)
(***************************************************************************)
EXTENDS Naturals, Sequences

CONSTANTS
    Flat,         \* agents whose skills go to a flat place
    Plugin,       \* agents that take the plugin
    Place,        \* directories that skills are in
    PlaceOf,      \* PlaceOf[a]: where the skills of agent a are (AGENT_DIRS)
    Legacy,       \* where a plugin's agent had flat skills before
    Claude,       \* the agent whose flat skills are only removed
    Skill,        \* skills of odoo-mcp, in one version or another
    Marker,       \* the skill by which copies are recognised, odoo-mcp-cli
    Manifest,     \* plugin.json
    Foreign,      \* skills of other packages
    Bundle,       \* Bundle[v]: the skills in version v of the package
    Installer,    \* ways to install the package (_detect_install_context)
    Symlinks,     \* whether plugins are installed with --symlink
    MaxFailures   \* how often a file cannot be changed, or a command is killed

Agent == Flat \cup Plugin \cup {Claude}
Version == 1 .. Len(Bundle)
Item == Skill \cup {Manifest} \cup Foreign

ASSUME SkillConstants ==
    /\ Bundle \in Seq(SUBSET Skill) /\ Version # {}
    /\ Manifest \notin Skill /\ Foreign \cap (Skill \cup {Manifest}) = {}
    /\ Legacy \in Place
    /\ Flat \cap Plugin = {} /\ Claude \notin Flat \cup Plugin
    /\ PlaceOf \in [Agent -> Place \ {Legacy}]
    /\ \A a \in Plugin, b \in Agent \ Plugin : PlaceOf[a] # PlaceOf[b]
    /\ \A a \in Flat : PlaceOf[a] # PlaceOf[Claude]
    /\ \A v \in Version : Marker \in Bundle[v]
    /\ Installer \subseteq
        {"editable", "uv-tool", "uvx", "pipx", "uv-venv", "pip"}
    /\ MaxFailures \in Nat

VARIABLES
    version,    \* the version of the package that is installed
    disk,       \* disk[d][i]: what there is of item i in place d
    job,        \* the command that runs, or how the last one ended
    refreshed,  \* places that this upgrade reported as refreshed
    unrefreshed,  \* places that it reported it could not refresh
    unnoticed,  \* whether an upgrade took what it installed for the old version
    faults

skillVars == <<version, disk, job, refreshed, unrefreshed, unnoticed, faults>>

\* What there is of an item: nothing, a link into the package, what is left of
\* a copy that failed, what another package put there, or a copy.
None == [is |-> "none", of |-> 0]
Link == [is |-> "link", of |-> 0]
TornCopy == [is |-> "torn", of |-> 0]
Own == [is |-> "own", of |-> 0]
Copy(v) == [is |-> "copy", of |-> v]
Content == {None, Link, TornCopy, Own} \cup {Copy(v) : v \in Version}

\* todo is the items that are still to be installed or removed; targets the
\* agents that an upgrade has still to refresh.
SkillCommand ==
    [pc : {"idle", "items", "legacy", "remove", "tree", "package", "refresh"},
     op : {"none", "install", "uninstall", "migrate", "upgrade"},
     agent : Agent, force : BOOLEAN, symlink : BOOLEAN, todo : SUBSET Item,
     failed : BOOLEAN, targets : SUBSET Agent, by : Installer \cup {"none"},
     report : {"none", "success", "error", "killed", "latest"}]

NoJob == [pc |-> "idle", op |-> "none", agent |-> Claude, force |-> FALSE,
         symlink |-> FALSE, todo |-> {}, failed |-> FALSE, targets |-> {},
         by |-> "none", report |-> "none"]

PluginPlaces == {PlaceOf[a] : a \in Plugin}
FlatPlaces == Place \ PluginPlaces

\* A manifest is in the place of a plugin only.
SkillTypeOK ==
    /\ version \in Version
    /\ disk \in [Place -> [Item -> Content]]
    /\ job \in SkillCommand
    /\ refreshed \subseteq Place /\ unrefreshed \subseteq Place
    /\ unnoticed \in BOOLEAN
    /\ faults \in 0 .. MaxFailures
    /\ \A d \in FlatPlaces : disk[d][Manifest] = None

\* Flat places hold what other packages put there; an early version may have
\* left its skills with claude and with a plugin's agent.
SkillInit ==
    /\ version = 1
    /\ \E left \in SUBSET {Legacy, PlaceOf[Claude]} :
        disk = [d \in Place |-> [i \in Item |->
                    IF i \in Foreign /\ d \in FlatPlaces THEN Own
                    ELSE IF i \in Bundle[1] /\ d \in left THEN Copy(1)
                    ELSE None]]
    /\ job = NoJob
    /\ refreshed = {}
    /\ unrefreshed = {}
    /\ unnoticed = FALSE
    /\ faults = 0

-----------------------------------------------------------------------------

Here == PlaceOf[job.agent]

Fault == faults < MaxFailures /\ faults' = faults + 1

\* Items are handled in the order of their names.
Next1(items) == CHOOSE i \in items : TRUE

Put(d, i, content) == disk' = [disk EXCEPT ![d][i] = content]
Present(d, items) == {i \in items : disk[d][i] # None}

\* The command ends with an exit code; an upgrade goes on to its next target.
Report(what) ==
    IF job.op = "upgrade"
    THEN /\ refreshed' = refreshed \cup (IF what = "success" THEN {Here} ELSE {})
         /\ unrefreshed' = unrefreshed \cup (IF what = "success" THEN {} ELSE {Here})
         /\ job' = [job EXCEPT !.pc = "refresh", !.todo = {}, !.failed = FALSE]
    ELSE /\ job' = [NoJob EXCEPT !.op = job.op, !.agent = job.agent,
                                !.report = what]
         /\ UNCHANGED <<refreshed, unrefreshed>>

BeginJob(new) ==
    /\ job.pc = "idle"
    /\ job' = new
    /\ refreshed' = {}
    /\ unrefreshed' = {}
    /\ UNCHANGED <<version, unnoticed, disk, faults>>

-----------------------------------------------------------------------------
(* plugins install                                                         *)

Items(a) ==
    IF a \in Plugin THEN Bundle[version] \cup {Manifest} ELSE Bundle[version]

Installing(a, force, symlink) ==
    [NoJob EXCEPT !.pc = "items", !.op = "install", !.agent = a,
                 !.force = force, !.symlink = symlink, !.todo = Items(a)]

InstallPluginOrSkills(a, force, symlink) ==
    /\ a # Claude
    /\ symlink => Symlinks
    /\ BeginJob(Installing(a, force, symlink))

\* Done with an item; after the last one a plugin's agent has its old flat
\* skills removed.
ItemDone(i, failed) ==
    job' = [job EXCEPT
              !.todo = @ \ {i},
              !.failed = @ \/ failed,
              !.pc = IF job.todo # {i} THEN "items" ELSE "legacy"]

\* Without an error, though the item could not be installed.
BadInstallFails ==
    /\ job.pc = "items"
    /\ job.todo # {}
    /\ LET i == Next1(job.todo)
       IN /\ disk[Here][i] = None \/ job.force
          /\ Put(Here, i, TornCopy)
          /\ ItemDone(i, FALSE)
    /\ Fault
    /\ UNCHANGED <<version, unnoticed, refreshed, unrefreshed>>

\* _install_item
InstallItem ==
    /\ job.pc = "items"
    /\ job.todo # {}
    /\ LET i == Next1(job.todo)
       IN /\ IF disk[Here][i] # None /\ ~ job.force
             THEN UNCHANGED disk
             ELSE Put(Here, i, IF job.symlink THEN Link ELSE Copy(version))
          /\ ItemDone(i, FALSE)
    /\ UNCHANGED <<version, unnoticed, refreshed, unrefreshed, faults>>

\* An OSError: what was there is still there, or is gone, or the copy is not
\* complete.  The other items follow.
InstallFails ==
    /\ job.pc = "items"
    /\ job.todo # {}
    /\ LET i == Next1(job.todo)
       IN /\ disk[Here][i] = None \/ job.force
          /\ \E left \in {disk[Here][i], None, TornCopy} : Put(Here, i, left)
          /\ ItemDone(i, TRUE)
    /\ Fault
    /\ UNCHANGED <<version, unnoticed, refreshed, unrefreshed>>

\* Flat skills stay beside the plugin.
BadCleanupLegacy ==
    /\ job.pc = "legacy"
    /\ Report(IF job.failed THEN "error" ELSE "success")
    /\ UNCHANGED <<version, unnoticed, disk, faults>>

\* _cleanup_legacy_agy_skills, and the report of the installation.
CleanupLegacy ==
    /\ job.pc = "legacy"
    /\ disk' = IF job.agent \in Plugin
               THEN [disk EXCEPT ![Legacy] =
                        [i \in Item |->
                            IF i \in Bundle[version] THEN None ELSE @[i]]]
               ELSE disk
    /\ IF job.op = "uninstall"
       THEN /\ job' = [job EXCEPT !.pc = "tree"]
            /\ UNCHANGED <<refreshed, unrefreshed>>
       ELSE Report(IF job.failed THEN "error" ELSE "success")
    /\ UNCHANGED <<version, unnoticed, faults>>

-----------------------------------------------------------------------------
(* plugins uninstall, and the migration of claude                          *)

UninstallPluginOrSkills(a) ==
    BeginJob([NoJob EXCEPT !.pc = IF a \in Plugin THEN "legacy" ELSE "remove",
                       !.op = "uninstall", !.agent = a,
                       !.todo = Bundle[version]])

\* The user agreed to have the flat skills removed.
MigrateClaudeToPlugin ==
    BeginJob([NoJob EXCEPT !.pc = "remove", !.op = "migrate", !.agent = Claude,
                       !.todo = Bundle[version]])

\* The whole directory is removed, as that of a plugin is.
BadRemoveBundledSkills ==
    /\ job.pc = "remove"
    /\ disk' = [disk EXCEPT ![Here] = [i \in Item |-> None]]
    /\ Report("success")
    /\ UNCHANGED <<version, unnoticed, faults>>

\* _remove_bundled_skills_from: one skill after the other.
RemoveBundledSkills ==
    /\ job.pc = "remove"
    /\ IF job.todo = {}
       THEN /\ Report("success")
            /\ UNCHANGED disk
       ELSE LET i == Next1(job.todo)
            IN /\ Put(Here, i, None)
               /\ job' = [job EXCEPT !.todo = @ \ {i}]
               /\ UNCHANGED <<refreshed, unrefreshed>>
    /\ UNCHANGED <<version, unnoticed, faults>>

\* rmtree of the plugin's directory.
RemoveTree ==
    /\ job.pc = "tree"
    /\ disk' = [disk EXCEPT ![Here] = [i \in Item |-> None]]
    /\ Report("success")
    /\ UNCHANGED <<version, unnoticed, faults>>

\* Of what is there some items are removed, and one of them in part.
PartlyRemoved(d, items) ==
    \E gone \in SUBSET Present(d, items), torn \in Present(d, items) :
        disk' = [disk EXCEPT ![d] =
                    [i \in Item |-> IF i \in gone THEN None
                                   ELSE IF i = torn THEN TornCopy ELSE @[i]]]

\* Something cannot be removed, or the command is killed.
Interrupted ==
    /\ job.pc \in {"items", "legacy", "remove", "tree"}
    /\ Fault
    /\ \/ UNCHANGED disk
       \/ /\ job.pc = "items" /\ job.todo # {}
          /\ disk[Here][Next1(job.todo)] = None \/ job.force
          /\ Put(Here, Next1(job.todo), TornCopy)
       \/ /\ job.pc = "legacy" /\ job.agent \in Plugin
          /\ PartlyRemoved(Legacy, Bundle[version])
       \/ job.pc = "remove" /\ PartlyRemoved(Here, job.todo)
       \/ job.pc = "tree" /\ PartlyRemoved(Here, Item)
    /\ Report("killed")
    /\ UNCHANGED <<version, unnoticed>>

\* The upgrade is killed, between its steps.
UpgradeKilled ==
    /\ job.pc \in {"package", "refresh"}
    /\ Fault
    /\ job' = [NoJob EXCEPT !.op = "upgrade", !.report = "killed"]
    /\ UNCHANGED <<version, unnoticed, disk, refreshed, unrefreshed>>

-----------------------------------------------------------------------------
(* upgrade                                                                 *)

\* Editable installs need --force; uvx has nothing to upgrade.
Upgrade(installer, force) ==
    /\ installer # "uvx"
    /\ installer = "editable" => force
    /\ BeginJob([NoJob EXCEPT !.pc = "package", !.op = "upgrade",
                              !.by = installer])

\* A place that several agents share is refreshed once; copies are recognised
\* by the marker, a plugin by its directory.
IsCopied(a) ==
    IF a \in Plugin
    THEN Present(PlaceOf[a], Item) # {}
    ELSE disk[PlaceOf[a]][Marker] \notin {None, Link}

FirstOf(a) == CHOOSE b \in Agent : PlaceOf[b] = PlaceOf[a]

\* Every agent is recognised by a flat skill.
BadCopiedSkillTargets ==
    {FirstOf(a) : a \in {b \in Agent \ {Claude} :
                            disk[PlaceOf[b]][Marker] \notin {None, Link}
                                /\ b \notin Plugin}}

CopiedSkillTargets == {FirstOf(a) : a \in {b \in Agent \ {Claude} : IsCopied(b)}}

\* External: the installer is asked for the newest version.  `uv pip install`
\* does not say that there is none newer; pip says "Requirement already
\* satisfied" of every dependency that is, whatever it upgrades.
PackageIsLatest ==
    /\ job.pc = "package"
    /\ job.by # "uv-venv"
    /\ job' = [NoJob EXCEPT !.op = "upgrade", !.report = "latest"]
    /\ UNCHANGED <<version, unnoticed, disk, refreshed, unrefreshed, faults>>

\* The output has nothing of what an installer says that has done nothing.
PackageUpgraded ==
    /\ job.pc = "package"
    /\ \/ version + 1 \in Version /\ version' = version + 1
       \/ job.by = "uv-venv" /\ version' = version
    /\ job' = [job EXCEPT !.pc = "refresh", !.targets = CopiedSkillTargets]
    /\ UNCHANGED <<unnoticed, disk, refreshed, unrefreshed, faults>>

\* "already satisfied" is found in the output, and the upgrade ends.
UpgradeUnnoticed ==
    /\ job.pc = "package"
    /\ job.by \in {"pip", "editable"}
    /\ version + 1 \in Version
    /\ version' = version + 1
    /\ unnoticed' = TRUE
    /\ job' = [NoJob EXCEPT !.op = "upgrade", !.report = "latest"]
    /\ UNCHANGED <<disk, refreshed, unrefreshed, faults>>

PackageFails ==
    /\ job.pc = "package"
    /\ job' = [NoJob EXCEPT !.op = "upgrade", !.report = "error"]
    /\ UNCHANGED <<version, unnoticed, disk, refreshed, unrefreshed, faults>>

\* _after_upgrade: the new version's `plugins install --force`.
Refresh ==
    /\ job.pc = "refresh"
    /\ job.targets # {}
    /\ LET a == Next1(job.targets)
       IN job' = [Installing(a, TRUE, FALSE) EXCEPT
                    !.op = "upgrade", !.targets = job.targets \ {a}]
    /\ UNCHANGED <<version, unnoticed, disk, refreshed, unrefreshed, faults>>

AfterUpgrade ==
    /\ job.pc = "refresh"
    /\ job.targets = {}
    /\ job' = [NoJob EXCEPT !.op = "upgrade", !.report = "success"]
    /\ UNCHANGED <<version, unnoticed, disk, refreshed, unrefreshed, faults>>

-----------------------------------------------------------------------------

SkillNext ==
    \/ \E a \in Agent, force, symlink \in BOOLEAN :
        InstallPluginOrSkills(a, force, symlink)
    \/ InstallItem \/ InstallFails \/ CleanupLegacy
    \/ \E a \in Agent : UninstallPluginOrSkills(a)
    \/ MigrateClaudeToPlugin \/ RemoveBundledSkills \/ RemoveTree
    \/ Interrupted \/ UpgradeKilled
    \/ \E installer \in Installer, force \in BOOLEAN : Upgrade(installer, force)
    \/ PackageIsLatest \/ PackageUpgraded \/ UpgradeUnnoticed \/ PackageFails
    \/ Refresh \/ AfterUpgrade

SkillSpec == SkillInit /\ [][SkillNext]_skillVars

-----------------------------------------------------------------------------
(* What the commands guarantee.                                            *)

\* "skills owned by other packages sharing the directory survive"
\* (_remove_bundled_skills_from): no command touches them, whatever fails.
ForeignSurvives ==
    [][\A d \in FlatPlaces, i \in Foreign : disk'[d][i] = disk[d][i]]_skillVars

\* A place that an upgrade reports as refreshed has every skill of the new
\* version, whole, though other places or earlier commands have failed.
RefreshedIsCurrent ==
    \A a \in Agent \ {Claude} :
        PlaceOf[a] \in refreshed =>
            \A i \in Items(a) : disk[PlaceOf[a]][i] = Copy(version)

\* "so Antigravity never discovers the same skill twice (flat copy + plugin
\* copy)": not after a command for its plugin has succeeded.
NoDoubles ==
    (job.report = "success" /\ job.agent \in Plugin)
        => Present(Legacy, Bundle[version]) = {}

\* Copies of this package's skills in a place, of another version than v.
Stale(d, v) ==
    {i \in Bundle[v] : \E w \in Version \ {v} : disk[d][i] = Copy(w)}

\* The installed version has no skill in the place whose copy is another's.  A
\* copy of a skill that the version has dropped is not counted: no command
\* touches it.  Nor are places with links, which are not refreshed.
UpToDate(d) ==
    \/ \E i \in Item : disk[d][i] = Link
    \/ Stale(d, version) = {}

\* When an upgrade is over, whatever the package was installed with, it has
\* brought every place up to date or said of it that it could not
\* (_copied_skill_targets, _after_upgrade): as long as nothing has failed (a
\* copy that was lost may be the one by which the others are recognised), and
\* no upgrade has taken the output of pip for that of one that did nothing.
UpgradeRefreshes ==
    (faults = 0 /\ ~ unnoticed /\ job.op = "upgrade" /\ job.pc = "idle") =>
        \A a \in Agent \ {Claude} :
            PlaceOf[a] \in unrefreshed \/ UpToDate(PlaceOf[a])

\* "`odoo-mcp upgrade` refreshes existing copies" (docs/http-mode.md): an
\* upgrade that ends without an error leaves no copy of another version, unless
\* it said so or something has failed.
UpgradeRefreshesCopies ==
    (faults = 0 /\ job.op = "upgrade" /\ job.report \in {"success", "latest"}) =>
        \A a \in Agent \ {Claude} :
            PlaceOf[a] \in unrefreshed \/ UpToDate(PlaceOf[a])

-----------------------------------------------------------------------------
(* The invariant behind them.                                              *)

\* Where a command stands, and what it has still to do.
CommandIsSound ==
    /\ job.pc = "items" => /\ job.op \in {"install", "upgrade"}
                           /\ job.agent # Claude
                           /\ job.todo \subseteq Items(job.agent)
                           /\ job.todo # {}
    /\ job.pc = "legacy" => /\ job.op \in {"install", "upgrade", "uninstall"}
                            /\ job.op = "uninstall" => job.agent \in Plugin
                            /\ job.op # "uninstall" => /\ job.todo = {}
                                                       /\ job.agent # Claude
    /\ job.pc = "remove" => /\ job.op \in {"uninstall", "migrate"}
                            /\ job.agent \notin Plugin
                            /\ job.todo \subseteq Skill
    /\ job.pc = "tree" => /\ job.op = "uninstall"
                          /\ job.agent \in Plugin
                          /\ Present(Legacy, Bundle[version]) = {}
    /\ job.pc \in {"package", "refresh"} => job.op = "upgrade"
    /\ job.pc # "idle" => job.report = "none"

\* An upgrade comes to every place once: those that it has still to refresh are
\* neither refreshed nor each other's.
PlacesAreApart ==
    /\ \A a \in job.targets :
        /\ a # Claude /\ FirstOf(a) = a
        /\ PlaceOf[a] \notin refreshed
        /\ job.pc # "refresh" => PlaceOf[a] # Here
    /\ job.pc = "package" => refreshed = {}
    /\ job.pc \in {"items", "legacy", "remove", "tree"} =>
        IF job.op = "upgrade" THEN Here \notin refreshed ELSE refreshed = {}

\* Of the place that is being refreshed, whatever is no longer to be done is
\* current.
DoneIsCurrent ==
    (job.op = "upgrade" /\ job.pc \in {"items", "legacy"}) =>
        /\ job.force /\ ~ job.symlink
        /\ ~ job.failed => \A i \in Items(job.agent) \ job.todo :
                             disk[Here][i] = Copy(version)

SkillInductive ==
    /\ SkillTypeOK
    /\ CommandIsSound /\ PlacesAreApart /\ DoneIsCurrent
    /\ RefreshedIsCurrent /\ NoDoubles

-----------------------------------------------------------------------------
(* The invariant behind UpgradeRefreshes.                                  *)

\* A skill that was dropped from the package does not come back: a copy that
\* an uninstall has left because it was not the version's would be stale again.
NothingReturns ==
    \A u, v, w \in Version :
        u <= v /\ v <= w => Bundle[u] \cap Bundle[w] \subseteq Bundle[v]

Linked(d) == \E i \in Item : disk[d][i] = Link

\* What agent a has is of the installed version, and the next upgrade will
\* find it if there is anything to find.
Settled(a) ==
    \/ Linked(PlaceOf[a])
    \/ /\ Stale(PlaceOf[a], version) = {}
       /\ \/ IsCopied(a)
          \/ \A i \in Bundle[version], v \in Version : disk[PlaceOf[a]][i] # Copy(v)

\* The places that a command is in, or an upgrade has still to come to.
InHand ==
    {PlaceOf[a] : a \in job.targets}
        \cup (IF job.pc \in {"items", "legacy", "remove", "tree"} THEN {Here} ELSE {})

\* How far a command has come in the place that it is in.
ProgressKnown ==
    /\ (job.op \in {"install", "upgrade"} /\ job.pc \in {"items", "legacy"}) =>
        IF job.force
        THEN \A i \in Items(job.agent) \ job.todo :
                disk[Here][i] = IF job.symlink THEN Link ELSE Copy(version)
        ELSE /\ Linked(Here) \/ Stale(Here, version) = {}
             /\ \A i \in Items(job.agent) \ job.todo : disk[Here][i] # None
    /\ job.pc = "remove" =>
        \A i \in Bundle[version] \ job.todo : disk[Here][i] = None

\* Copies are of a version that was installed and had the skill.
CopiesKnown ==
    \A a \in Agent \ {Claude}, i \in Skill, v \in Version :
        disk[PlaceOf[a]][i] = Copy(v) => v <= version /\ i \in Bundle[v]

\* As long as nothing has failed and every upgrade knew that it was one, only
\* what is in hand is not settled.
UpgradesKnown ==
    (faults = 0 /\ ~ unnoticed) =>
        /\ ~ job.failed
        /\ job.op # "upgrade" \/ job.pc \in {"idle", "package"} => job.targets = {}
        /\ CopiesKnown
        /\ ProgressKnown
        /\ \A a \in Agent \ {Claude} : PlaceOf[a] \notin InHand => Settled(a)
==============================================================================
