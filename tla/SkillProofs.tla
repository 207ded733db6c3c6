----------------------------- MODULE SkillProofs -----------------------------
(***************************************************************************)
(* Whatever fails, the commands of SkillFiles leave the skills of other    *)
(* packages alone, and what an upgrade reports as refreshed is: for any    *)
(* agents, places, skills and versions.                                    *)
(***************************************************************************)
EXTENDS SkillFiles, TLAPS

Op == {"none", "install", "uninstall", "migrate", "upgrade"}

(* What the constants are.                                                 *)
LEMMA SkillFacts ==
  /\ Version \subseteq Nat /\ 1 \in Version
  /\ \A v \in Version : Bundle[v] \subseteq Skill /\ Bundle[v] # {}
  /\ \A a \in Agent : PlaceOf[a] \in Place /\ PlaceOf[a] # Legacy
  /\ Claude \in Agent /\ Claude \notin Plugin
  /\ \A a \in Agent : a \in Plugin <=> PlaceOf[a] \in PluginPlaces
  /\ Legacy \in FlatPlaces
<1>1. Version \subseteq Nat /\ 1 \in Version
  BY SkillConstants DEF Version
<1>2. \A v \in Version : Bundle[v] \subseteq Skill /\ Bundle[v] # {}
  BY SkillConstants DEF Version
<1>3. \A a \in Agent : PlaceOf[a] \in Place /\ PlaceOf[a] # Legacy
  BY SkillConstants
<1>4. Claude \in Agent /\ Claude \notin Plugin
  BY SkillConstants DEF Agent
<1>5. \A a \in Agent : a \in Plugin <=> PlaceOf[a] \in PluginPlaces
  BY SkillConstants DEF PluginPlaces, Agent
<1>6. Legacy \in FlatPlaces
  BY <1>3, SkillConstants DEF FlatPlaces, PluginPlaces, Agent
<1> QED BY <1>1, <1>2, <1>3, <1>4, <1>5, <1>6

(* Agents that share a place are represented by one of them.               *)
LEMMA FirstFacts ==
  /\ \A a \in Agent : FirstOf(a) \in Agent /\ PlaceOf[FirstOf(a)] = PlaceOf[a]
  /\ \A a, b \in Agent : PlaceOf[a] = PlaceOf[b] => FirstOf(a) = FirstOf(b)
  /\ \A a \in Agent \ {Claude} : FirstOf(a) # Claude
<1>1. \A a \in Agent : FirstOf(a) \in Agent /\ PlaceOf[FirstOf(a)] = PlaceOf[a]
  BY DEF FirstOf
<1>2. \A a, b \in Agent : PlaceOf[a] = PlaceOf[b] => FirstOf(a) = FirstOf(b)
  BY DEF FirstOf
<1>3. \A a \in Agent \ {Claude} : PlaceOf[a] # PlaceOf[Claude]
  BY SkillConstants DEF Agent
<1> QED BY <1>1, <1>2, <1>3

(* The items of an agent are odoo-mcp's, and a manifest goes to a plugin.  *)
LEMMA ItemFacts ==
  ASSUME version \in Version, NEW a \in Agent
  PROVE  /\ Items(a) \subseteq Skill \cup {Manifest}
         /\ Items(a) # {} /\ Items(a) \subseteq Item
         /\ Bundle[version] \subseteq Items(a)
         /\ a \notin Plugin => Items(a) = Bundle[version]
BY SkillFacts DEF Items, Item

(* The contents are different.                                             *)
LEMMA ContentFacts ==
  /\ None \in Content /\ TornCopy \in Content /\ Link \in Content /\ Own \in Content
  /\ \A v \in Version : Copy(v) \in Content
BY DEF Content

LEMMA IdleFacts ==
  /\ NoJob \in SkillCommand /\ NoJob.pc = "idle" /\ NoJob.op = "none"
  /\ NoJob.report = "none" /\ NoJob.targets = {} /\ NoJob.todo = {}
  /\ NoJob.agent = Claude
BY SkillFacts DEF NoJob, SkillCommand

(* One item is changed, which is a skill or in the place of a plugin.      *)
LEMMA PutFacts ==
  ASSUME SkillTypeOK, NEW d \in Place, NEW i \in Item, NEW content \in Content,
         d \in FlatPlaces => i # Manifest,
         Put(d, i, content)
  PROVE  /\ disk' \in [Place -> [Item -> Content]]
         /\ \A e \in FlatPlaces : disk'[e][Manifest] = None
         /\ \A e \in Place, j \in Item :
              disk'[e][j] = IF e = d /\ j = i THEN content ELSE disk[e][j]
<1>1. disk \in [Place -> [Item -> Content]] /\ Manifest \in Item
  BY DEF SkillTypeOK, Item
<1>2. disk' \in [Place -> [Item -> Content]]
  BY <1>1 DEF Put
<1>3. \A e \in Place, j \in Item :
        disk'[e][j] = IF e = d /\ j = i THEN content ELSE disk[e][j]
  BY <1>1 DEF Put
<1>4. \A e \in FlatPlaces : e \in Place /\ disk[e][Manifest] = None
  BY DEF SkillTypeOK, FlatPlaces
<1> QED BY <1>1, <1>2, <1>3, <1>4

(* A removal that is interrupted changes items that were there, in one     *)
(* place; a flat place has no manifest.                                    *)
LEMMA PartFacts ==
  ASSUME SkillTypeOK, NEW d \in Place, NEW items \in SUBSET Item,
         PartlyRemoved(d, items)
  PROVE  /\ disk' \in [Place -> [Item -> Content]]
         /\ \A e \in FlatPlaces : disk'[e][Manifest] = None
         /\ \A e \in Place \ {d} : disk'[e] = disk[e]
         /\ \A i \in Item \ items : disk'[d][i] = disk[d][i]
<1>1. PICK gone \in SUBSET Present(d, items), torn \in Present(d, items) :
        disk' = [disk EXCEPT ![d] =
                   [i \in Item |-> IF i \in gone THEN None
                                  ELSE IF i = torn THEN TornCopy ELSE @[i]]]
  BY DEF PartlyRemoved
<1>2. /\ disk \in [Place -> [Item -> Content]] /\ Manifest \in Item
      /\ \A e \in FlatPlaces : e \in Place /\ disk[e][Manifest] = None
  BY DEF SkillTypeOK, Item, FlatPlaces
<1>3. disk' \in [Place -> [Item -> Content]]
  BY <1>1, <1>2, ContentFacts
<1>4. \A e \in Place \ {d} : disk'[e] = disk[e]
  BY <1>1, <1>2
<1>5. \A i \in Item : disk'[d][i] =
        IF i \in gone THEN None ELSE IF i = torn THEN TornCopy ELSE disk[d][i]
  BY <1>1, <1>2
<1>6. \A i \in gone \cup {torn} : i \in items /\ disk[d][i] # None
  BY DEF Present
<1>7. \A e \in FlatPlaces : disk'[e][Manifest] = None
  BY <1>2, <1>4, <1>5, <1>6
<1> QED BY <1>3, <1>4, <1>5, <1>6, <1>7

(* How a report ends a command, or lets an upgrade go on.                  *)
LEMMA ReportFacts ==
  ASSUME SkillTypeOK, job.report = "none",
         NEW what \in {"success", "error", "killed"}, Report(what)
  PROVE  /\ job' \in SkillCommand /\ refreshed' \subseteq Place /\ unrefreshed' \subseteq Place
         /\ job'.agent = job.agent /\ job'.op = job.op
         /\ job.op = "upgrade" =>
              /\ job'.pc = "refresh" /\ job'.targets = job.targets
              /\ job'.report = "none"
              /\ refreshed' = refreshed \cup
                                (IF what = "success" THEN {Here} ELSE {})
         /\ job.op # "upgrade" =>
              /\ job'.pc = "idle" /\ job'.targets = {}
              /\ job'.report = what
              /\ refreshed' = refreshed
<1>1. job \in SkillCommand /\ refreshed \subseteq Place /\ unrefreshed \subseteq Place
  BY DEF SkillTypeOK
<1>2. Here \in Place
  BY <1>1, SkillFacts DEF Here, SkillCommand
<1>3. CASE job.op = "upgrade"
  <2>1. job' = [job EXCEPT !.pc = "refresh", !.todo = {}, !.failed = FALSE]
    BY <1>3 DEF Report
  <2>2. job' \in SkillCommand
    BY <1>1, <2>1 DEF SkillCommand
  <2>3. /\ job'.agent = job.agent /\ job'.op = job.op /\ job'.pc = "refresh"
        /\ job'.targets = job.targets /\ job'.report = job.report
    BY <1>1, <2>1 DEF SkillCommand
  <2> QED BY <1>1, <1>2, <1>3, <2>2, <2>3 DEF Report
<1>4. CASE job.op # "upgrade"
  <2>1. job' = [NoJob EXCEPT !.op = job.op, !.agent = job.agent, !.report = what]
    BY <1>4 DEF Report
  <2>2. job' \in SkillCommand
    BY <1>1, <2>1 DEF SkillCommand, NoJob
  <2>3. /\ job'.agent = job.agent /\ job'.op = job.op /\ job'.pc = "idle"
        /\ job'.targets = {} /\ job'.report = what
    BY <2>1 DEF NoJob
  <2> QED BY <1>1, <1>4, <2>2, <2>3 DEF Report
<1> QED BY <1>3, <1>4

LEMMA SkillStarts == SkillInit => SkillInductive
<1> SUFFICES ASSUME SkillInit PROVE SkillInductive
  OBVIOUS
<1>1. SkillTypeOK
  <2>1. PICK left \in SUBSET {Legacy, PlaceOf[Claude]} :
          disk = [d \in Place |-> [i \in Item |->
                    IF i \in Foreign /\ d \in FlatPlaces THEN Own
                    ELSE IF i \in Bundle[1] /\ d \in left THEN Copy(1)
                    ELSE None]]
    BY DEF SkillInit
  <2>2. disk \in [Place -> [Item -> Content]]
    BY <2>1, ContentFacts, SkillFacts
  <2>3. \A d \in FlatPlaces : disk[d][Manifest] = None
    BY <2>1, SkillFacts, SkillConstants DEF FlatPlaces, Item
  <2>4. version \in Version /\ job \in SkillCommand /\ faults \in 0 .. MaxFailures
    BY SkillFacts, IdleFacts, SkillConstants DEF SkillInit
  <2>5. refreshed \subseteq Place /\ unrefreshed \subseteq Place
    BY DEF SkillInit
  <2>6. unnoticed \in BOOLEAN
    BY DEF SkillInit
  <2> QED
    BY <2>2, <2>3, <2>4, <2>5, <2>6 DEF SkillTypeOK
<1> QED
  BY <1>1, IdleFacts
  DEF SkillInit, SkillInductive, CommandIsSound, PlacesAreApart, DoneIsCurrent,
      RefreshedIsCurrent, NoDoubles

(* A command begins.                                                       *)
LEMMA BeginStep ==
  ASSUME SkillInductive, NEW new \in SkillCommand, BeginJob(new),
         new.report = "none", new.targets = {}, new.pc # "idle",
         new.pc \in {"items", "legacy", "remove", "package"},
         new.pc = "package" <=> new.op = "upgrade",
         new.pc = "items" => /\ new.op = "install" /\ new.agent # Claude
                             /\ new.todo = Items(new.agent),
         new.pc = "legacy" => new.op = "uninstall" /\ new.agent \in Plugin,
         new.pc = "remove" => /\ new.op \in {"uninstall", "migrate"}
                              /\ new.agent \notin Plugin
                              /\ new.todo \subseteq Skill
  PROVE  SkillInductive'
<1>1. /\ job' = new /\ refreshed' = {} /\ unrefreshed' = {}
      /\ UNCHANGED <<version, unnoticed, disk, faults>> /\ SkillTypeOK
  BY DEF BeginJob, SkillInductive
<1>2. SkillTypeOK'
  BY <1>1 DEF SkillTypeOK
<1>3. \A a \in Agent : Items(a)' = Items(a) /\ Items(a) # {}
  BY <1>1, ItemFacts DEF SkillTypeOK, Items
<1>4. new.agent \in Agent
  BY DEF SkillCommand
<1>5. CommandIsSound'
  BY <1>1, <1>3, <1>4 DEF CommandIsSound
<1>6. PlacesAreApart' /\ DoneIsCurrent'
  BY <1>1 DEF PlacesAreApart, DoneIsCurrent
<1>7. RefreshedIsCurrent' /\ NoDoubles'
  BY <1>1 DEF RefreshedIsCurrent, NoDoubles
<1> QED BY <1>2, <1>5, <1>6, <1>7 DEF SkillInductive

LEMMA BeginsAll ==
  ASSUME SkillInductive,
         \/ \E a \in Agent, force, symlink \in BOOLEAN :
              InstallPluginOrSkills(a, force, symlink)
         \/ \E a \in Agent : UninstallPluginOrSkills(a)
         \/ MigrateClaudeToPlugin
         \/ \E installer \in Installer, force \in BOOLEAN :
              Upgrade(installer, force)
  PROVE  SkillInductive'
<1>0. version \in Version
  BY DEF SkillInductive, SkillTypeOK
<1>1. ASSUME NEW a \in Agent, NEW force \in BOOLEAN, NEW symlink \in BOOLEAN,
             InstallPluginOrSkills(a, force, symlink)
      PROVE  SkillInductive'
  <2> DEFINE new == Installing(a, force, symlink)
  <2>1. new = [NoJob EXCEPT !.pc = "items", !.op = "install", !.agent = a,
                 !.force = force, !.symlink = symlink, !.todo = Items(a)]
    BY DEF Installing
  <2>2. new \in SkillCommand
    <3>1. Items(a) \in SUBSET Item
      BY <1>0, ItemFacts
    <3> HIDE DEF new
    <3> QED BY <2>1, <3>1 DEF SkillCommand, NoJob
  <2>3. /\ new.pc = "items" /\ new.op = "install" /\ new.agent = a
        /\ new.todo = Items(a) /\ new.report = "none" /\ new.targets = {}
    BY <2>1 DEF NoJob
  <2>4. BeginJob(new) /\ a # Claude
    BY <1>1 DEF InstallPluginOrSkills
  <2> HIDE DEF new
  <2> QED BY <2>2, <2>3, <2>4, BeginStep
<1>2. ASSUME NEW a \in Agent, UninstallPluginOrSkills(a) PROVE SkillInductive'
  <2> DEFINE new == [NoJob EXCEPT
                       !.pc = IF a \in Plugin THEN "legacy" ELSE "remove",
                       !.op = "uninstall", !.agent = a, !.todo = Bundle[version]]
  <2>1. new \in SkillCommand
    BY <1>0, SkillFacts DEF SkillCommand, NoJob, Item
  <2>2. /\ new.pc = IF a \in Plugin THEN "legacy" ELSE "remove"
        /\ new.op = "uninstall" /\ new.agent = a /\ new.todo = Bundle[version]
        /\ new.report = "none" /\ new.targets = {}
    BY DEF NoJob
  <2>3. BeginJob(new)
    BY <1>2 DEF UninstallPluginOrSkills
  <2> HIDE DEF new
  <2> QED BY <1>0, <2>1, <2>2, <2>3, BeginStep, SkillFacts
<1>3. ASSUME MigrateClaudeToPlugin PROVE SkillInductive'
  <2> DEFINE new == [NoJob EXCEPT !.pc = "remove", !.op = "migrate",
                       !.agent = Claude, !.todo = Bundle[version]]
  <2>1. new \in SkillCommand
    BY <1>0, SkillFacts DEF SkillCommand, NoJob, Item
  <2>2. /\ new.pc = "remove" /\ new.op = "migrate" /\ new.agent = Claude
        /\ new.todo = Bundle[version] /\ new.report = "none" /\ new.targets = {}
    BY DEF NoJob
  <2>3. BeginJob(new)
    BY <1>3 DEF MigrateClaudeToPlugin
  <2> HIDE DEF new
  <2> QED BY <1>0, <2>1, <2>2, <2>3, BeginStep, SkillFacts
<1>4. ASSUME NEW installer \in Installer, NEW force \in BOOLEAN,
             Upgrade(installer, force)
      PROVE  SkillInductive'
  <2> DEFINE new == [NoJob EXCEPT !.pc = "package", !.op = "upgrade",
                             !.by = installer]
  <2>1. new \in SkillCommand
    BY SkillFacts DEF SkillCommand, NoJob
  <2>2. /\ new.pc = "package" /\ new.op = "upgrade"
        /\ new.report = "none" /\ new.targets = {}
    BY DEF NoJob
  <2>3. BeginJob(new)
    BY <1>4 DEF Upgrade
  <2> HIDE DEF new
  <2> QED BY <2>1, <2>2, <2>3, BeginStep
<1> QED BY <1>1, <1>2, <1>3, <1>4

(* An upgrade ends; so it does when it is killed.                          *)
LEMMA EndStep ==
  ASSUME SkillInductive,
         PackageIsLatest \/ PackageFails \/ AfterUpgrade \/ UpgradeKilled
  PROVE  SkillInductive'
<1>0. SkillTypeOK
  BY DEF SkillInductive
<1>1. PICK what \in {"latest", "error", "success", "killed"} :
        job' = [NoJob EXCEPT !.op = "upgrade", !.report = what]
  BY DEF PackageIsLatest, PackageFails, AfterUpgrade, UpgradeKilled
<1>2. /\ UNCHANGED <<version, unnoticed, disk, refreshed, unrefreshed>>
      /\ faults' \in 0 .. MaxFailures
  BY <1>0, SkillConstants
  DEF PackageIsLatest, PackageFails, AfterUpgrade, UpgradeKilled, Fault,
      SkillTypeOK
<1>3. /\ job' \in SkillCommand /\ job'.pc = "idle" /\ job'.targets = {}
      /\ job'.agent = Claude
  BY <1>1, SkillFacts DEF NoJob, SkillCommand
<1>4. SkillTypeOK'
  BY <1>0, <1>2, <1>3 DEF SkillTypeOK
<1>5. CommandIsSound' /\ PlacesAreApart' /\ DoneIsCurrent'
  BY <1>3 DEF CommandIsSound, PlacesAreApart, DoneIsCurrent
<1>6. RefreshedIsCurrent' /\ NoDoubles'
  BY <1>2, <1>3, SkillFacts
  DEF SkillInductive, RefreshedIsCurrent, NoDoubles, Items
<1> QED BY <1>4, <1>5, <1>6 DEF SkillInductive

(* The package is another version: nothing is refreshed yet.               *)
LEMMA PackageStep ==
  ASSUME SkillInductive, PackageUpgraded \/ UpgradeUnnoticed
  PROVE  SkillInductive'
<1>0. /\ SkillTypeOK /\ version' \in Version /\ refreshed = {}
      /\ unnoticed' \in BOOLEAN
      /\ UNCHANGED <<disk, refreshed, unrefreshed, faults>>
      /\ job.pc = "package" /\ job.op = "upgrade" /\ job.report = "none"
  BY DEF SkillInductive, SkillTypeOK, PackageUpgraded, UpgradeUnnoticed,
         PlacesAreApart, CommandIsSound
<1>1. CopiedSkillTargets \subseteq Agent
  BY FirstFacts DEF CopiedSkillTargets
<1>2. \A a \in CopiedSkillTargets : a # Claude /\ FirstOf(a) = a
  BY FirstFacts DEF CopiedSkillTargets
<1>3. CASE UpgradeUnnoticed
  <2>0. job' = [NoJob EXCEPT !.op = "upgrade", !.report = "latest"]
    BY <1>3 DEF UpgradeUnnoticed
  <2>1. /\ job' \in SkillCommand /\ job'.pc = "idle" /\ job'.targets = {}
        /\ job'.report = "latest"
    BY <2>0, SkillFacts DEF NoJob, SkillCommand
  <2>2. SkillTypeOK'
    BY <1>0, <2>1 DEF SkillTypeOK
  <2> QED
    BY <1>0, <2>1, <2>2
    DEF SkillInductive, CommandIsSound, PlacesAreApart, DoneIsCurrent,
        RefreshedIsCurrent, NoDoubles
<1>4. CASE PackageUpgraded
  <2>0. job' = [job EXCEPT !.pc = "refresh", !.targets = CopiedSkillTargets]
    BY <1>4 DEF PackageUpgraded
  <2>1. /\ job' \in SkillCommand /\ job'.pc = "refresh" /\ job'.op = "upgrade"
        /\ job'.targets = CopiedSkillTargets /\ job'.report = "none"
    BY <1>0, <1>1, <2>0 DEF SkillTypeOK, SkillCommand
  <2>2. SkillTypeOK'
    BY <1>0, <2>1 DEF SkillTypeOK
  <2>3. PlacesAreApart'
    BY <1>0, <1>2, <2>1 DEF PlacesAreApart, FirstOf
  <2> QED
    BY <1>0, <2>1, <2>2, <2>3
    DEF SkillInductive, CommandIsSound, DoneIsCurrent, RefreshedIsCurrent, NoDoubles
<1> QED BY <1>3, <1>4

(* The next place is no other's.                                           *)
LEMMA RefreshStep ==
  ASSUME SkillInductive, Refresh
  PROVE  SkillInductive'
<1>0. /\ SkillTypeOK /\ UNCHANGED <<version, unnoticed, disk, refreshed, unrefreshed, faults>>
      /\ job.pc = "refresh" /\ job.op = "upgrade"
  BY DEF SkillInductive, Refresh, CommandIsSound
<1>1. PICK a \in job.targets :
        job' = [Installing(a, TRUE, FALSE) EXCEPT
                  !.op = "upgrade", !.targets = job.targets \ {a}]
  BY DEF Refresh, Next1
<1>a. job.targets \subseteq Agent /\ a \in Agent /\ a # Claude
  BY <1>0, <1>1 DEF SkillTypeOK, SkillCommand, SkillInductive, PlacesAreApart
<1>2. /\ job' \in SkillCommand /\ job'.pc = "items" /\ job'.op = "upgrade"
      /\ job'.agent = a /\ job'.targets = job.targets \ {a}
      /\ job'.todo = Items(a) /\ job'.report = "none"
      /\ job'.force = TRUE /\ job'.symlink = FALSE
  BY <1>0, <1>1, <1>a, ItemFacts DEF SkillTypeOK, SkillCommand, NoJob, Installing
<1>3. /\ SkillTypeOK' /\ Items(a)' = Items(a) /\ Items(a) # {}
  <2>1. Items(a) # {}
    BY <1>0, <1>a, ItemFacts DEF SkillTypeOK
  <2>2. Items(a)' = Items(a)
    BY <1>0 DEF Items
  <2> QED BY <1>0, <1>2, <2>1, <2>2 DEF SkillTypeOK
<1>4. CommandIsSound'
  BY <1>a, <1>2, <1>3 DEF CommandIsSound, Items
<1>5. \A b \in job.targets :
        /\ b # Claude /\ FirstOf(b) = b /\ PlaceOf[b] \notin refreshed
        /\ b # a => PlaceOf[b] # PlaceOf[a]
  BY <1>0, <1>1, <1>a, FirstFacts DEF SkillInductive, PlacesAreApart
<1>6. PlacesAreApart'
  BY <1>0, <1>2, <1>5 DEF PlacesAreApart, Here, FirstOf
<1>7. DoneIsCurrent'
  BY <1>0, <1>2, <1>3 DEF DoneIsCurrent, Items
<1>8. RefreshedIsCurrent' /\ NoDoubles'
  BY <1>0, <1>2 DEF SkillInductive, RefreshedIsCurrent, NoDoubles, Items
<1> QED BY <1>3, <1>4, <1>6, <1>7, <1>8 DEF SkillInductive

(* An item is installed, left as it is, or cannot be installed.            *)
LEMMA ItemStep ==
  ASSUME SkillInductive, NEW i, i = Next1(job.todo), job.pc = "items",
         NEW content \in Content, NEW failed \in BOOLEAN,
         Put(Here, i, content), ItemDone(i, failed),
         UNCHANGED <<version, unnoticed, refreshed, unrefreshed>>, faults' \in 0 .. MaxFailures,
         job.op = "upgrade" /\ ~ failed => content = Copy(version)
  PROVE  SkillInductive'
<1>0. /\ SkillTypeOK /\ job.op \in {"install", "upgrade"} /\ job.agent # Claude
      /\ job.agent \in Agent /\ job.todo \subseteq Items(job.agent)
      /\ i \in job.todo /\ job.report = "none" /\ version \in Version
  BY DEF SkillInductive, CommandIsSound, Next1, SkillTypeOK, SkillCommand
<1>1. /\ Here \in Place /\ i \in Item /\ Here # Legacy
      /\ Here \in FlatPlaces => i # Manifest
  BY <1>0, SkillFacts, ItemFacts, SkillConstants DEF Here, FlatPlaces
<1>2. /\ disk' \in [Place -> [Item -> Content]]
      /\ \A e \in FlatPlaces : disk'[e][Manifest] = None
      /\ \A e \in Place, j \in Item :
           disk'[e][j] = IF e = Here /\ j = i THEN content ELSE disk[e][j]
  BY <1>0, <1>1, PutFacts
<1>3. /\ job' \in SkillCommand /\ job'.todo = job.todo \ {i}
      /\ job'.failed = (job.failed \/ failed)
      /\ job'.pc = (IF job.todo # {i} THEN "items" ELSE "legacy")
      /\ job'.op = job.op /\ job'.agent = job.agent /\ job'.report = job.report
      /\ job'.targets = job.targets /\ job'.force = job.force
      /\ job'.symlink = job.symlink
  BY <1>0 DEF ItemDone, SkillTypeOK, SkillCommand
<1>4. SkillTypeOK' /\ Here' = Here
  BY <1>0, <1>2, <1>3 DEF SkillTypeOK, Here
<1>5. \A a \in Agent : Items(a)' = Items(a) /\ Items(a) \subseteq Item
  BY <1>0, ItemFacts DEF Items
<1>6. CommandIsSound'
  BY <1>0, <1>3, <1>5 DEF CommandIsSound
<1>7. PlacesAreApart'
  BY <1>3, <1>4 DEF SkillInductive, PlacesAreApart, FirstOf
<1>8. DoneIsCurrent'
  <2>1. ASSUME job.op = "upgrade"
        PROVE  /\ job'.force /\ ~ job'.symlink
               /\ ~ job'.failed => \A j \in Items(job.agent) \ job'.todo :
                                     disk'[Here][j] = Copy(version)
    BY <1>0, <1>1, <1>2, <1>3, <1>5, <2>1 DEF SkillInductive, DoneIsCurrent
  <2> QED BY <1>0, <1>3, <1>4, <1>5, <2>1 DEF DoneIsCurrent
<1>9. Here \notin refreshed
  BY <1>0 DEF SkillInductive, PlacesAreApart
<1>10. RefreshedIsCurrent'
  BY <1>2, <1>5, <1>9, SkillFacts DEF SkillInductive, RefreshedIsCurrent
<1>11. NoDoubles'
  BY <1>0, <1>3 DEF NoDoubles
<1> QED BY <1>4, <1>6, <1>7, <1>8, <1>10, <1>11 DEF SkillInductive

LEMMA InstallStep ==
  ASSUME SkillInductive, InstallItem \/ InstallFails
  PROVE  SkillInductive'
<1>0. /\ SkillTypeOK /\ job.pc = "items" /\ job.todo # {}
      /\ UNCHANGED <<version, unnoticed, refreshed, unrefreshed>>
  BY DEF SkillInductive, InstallItem, InstallFails
<1>1. /\ version \in Version /\ job.todo \subseteq Item /\ job.agent \in Agent
      /\ faults \in 0 .. MaxFailures /\ disk \in [Place -> [Item -> Content]]
      /\ job.op = "upgrade" => job.force /\ ~ job.symlink
  BY <1>0 DEF SkillTypeOK, SkillCommand, SkillInductive, DoneIsCurrent
<1>2. PICK i \in job.todo : i = Next1(job.todo)
  BY <1>0 DEF Next1
<1>3. Here \in Place /\ disk[Here][i] \in Content
  BY <1>1, <1>2, SkillFacts DEF Here
<1>4. CASE InstallItem
  <2>1. ItemDone(i, FALSE) /\ faults' \in 0 .. MaxFailures
    BY <1>1, <1>2, <1>4 DEF InstallItem
  <2>2. PICK content \in Content :
          /\ Put(Here, i, content)
          /\ job.op = "upgrade" => content = Copy(version)
    <3>1. CASE disk[Here][i] # None /\ ~ job.force
      <4>1. disk' = disk
        BY <1>2, <1>4, <3>1 DEF InstallItem
      <4>2. Put(Here, i, disk[Here][i])
        BY <1>1, <1>3, <4>1 DEF Put
      <4> QED BY <1>1, <1>3, <3>1, <4>2
    <3>2. CASE ~ (disk[Here][i] # None /\ ~ job.force)
      <4>1. Put(Here, i, IF job.symlink THEN Link ELSE Copy(version))
        BY <1>2, <1>4, <3>2 DEF InstallItem
      <4> QED BY <1>1, <4>1, ContentFacts
    <3> QED BY <3>1, <3>2
  <2> QED BY <1>0, <1>2, <2>1, <2>2, ItemStep
<1>5. CASE InstallFails
  <2>1. PICK left \in {disk[Here][i], None, TornCopy} : Put(Here, i, left)
    BY <1>2, <1>5 DEF InstallFails
  <2>2. ItemDone(i, TRUE)
    BY <1>2, <1>5 DEF InstallFails
  <2>3. faults' \in 0 .. MaxFailures
    BY <1>1, <1>5, SkillConstants DEF InstallFails, Fault
  <2>4. left \in Content
    BY <1>3, <2>1, ContentFacts
  <2> QED BY <1>0, <1>2, <2>1, <2>2, <2>3, <2>4, ItemStep
<1> QED BY <1>0, <1>4, <1>5

(* A command reports, having changed what is in its own place, or in the   *)
(* legacy place, if anything.                                              *)
LEMMA ReportStep ==
  ASSUME SkillInductive, job.pc \in {"items", "legacy", "remove", "tree"},
         NEW what \in {"success", "error", "killed"}, Report(what),
         version' = version, unnoticed' = unnoticed, faults' \in 0 .. MaxFailures,
         disk' \in [Place -> [Item -> Content]],
         \A d \in FlatPlaces : disk'[d][Manifest] = None,
         \A d \in Place \ {Here, Legacy} : disk'[d] = disk[d],
         what = "success" /\ job.op = "upgrade" =>
            \A i \in Items(job.agent) : disk'[Here][i] = Copy(version),
         what = "success" /\ job.op # "upgrade" /\ job.agent \in Plugin =>
            \A i \in Bundle[version] : disk'[Legacy][i] = None
  PROVE  SkillInductive'
<1>0. /\ SkillTypeOK /\ version \in Version /\ job.agent \in Agent
      /\ job.report = "none" /\ disk \in [Place -> [Item -> Content]]
  BY DEF SkillInductive, SkillTypeOK, SkillCommand, CommandIsSound
<1>1. /\ job' \in SkillCommand /\ refreshed' \subseteq Place /\ unrefreshed' \subseteq Place
      /\ job'.agent = job.agent /\ job'.op = job.op
      /\ job.op = "upgrade" =>
           /\ job'.pc = "refresh" /\ job'.targets = job.targets
           /\ job'.report = "none"
           /\ refreshed' = refreshed \cup
                             (IF what = "success" THEN {Here} ELSE {})
      /\ job.op # "upgrade" =>
           /\ job'.pc = "idle" /\ job'.targets = {} /\ job'.report = what
           /\ refreshed' = refreshed
  BY <1>0, ReportFacts
<1>2. SkillTypeOK'
  BY <1>0, <1>1 DEF SkillTypeOK
<1>3. CommandIsSound' /\ DoneIsCurrent'
  BY <1>1 DEF CommandIsSound, DoneIsCurrent
<1>4. PlacesAreApart'
  BY <1>1 DEF SkillInductive, PlacesAreApart, FirstOf
<1>5. \A a \in Agent : /\ Items(a)' = Items(a) /\ Items(a) \subseteq Item
                       /\ PlaceOf[a] \in Place \ {Legacy}
  BY <1>0, ItemFacts, SkillFacts DEF Items
<1>6. Here = PlaceOf[job.agent] /\ Here \notin refreshed
      /\ (job.op # "upgrade" => refreshed = {})
      /\ (job.op = "upgrade" => job.agent # Claude)
  BY <1>0 DEF SkillInductive, PlacesAreApart, CommandIsSound, Here
<1>7. RefreshedIsCurrent'
  <2>1. SUFFICES ASSUME NEW a \in Agent \ {Claude}, PlaceOf[a] \in refreshed',
                        NEW i \in Items(a)
                 PROVE  disk'[PlaceOf[a]][i] = Copy(version)
    BY <1>5 DEF RefreshedIsCurrent
  <2>2. CASE PlaceOf[a] \in refreshed
    BY <1>5, <1>6, <2>1, <2>2 DEF SkillInductive, RefreshedIsCurrent
  <2>3. CASE PlaceOf[a] \notin refreshed
    <3>1. PlaceOf[a] = Here /\ job.op = "upgrade" /\ what = "success"
      BY <1>1, <1>6, <2>1, <2>3
    <3>2. Items(a) = Items(job.agent)
      BY <1>0, <1>6, <3>1, SkillFacts DEF Items
    <3> QED BY <3>1, <3>2
  <2> QED BY <2>2, <2>3
<1>8. NoDoubles'
  <2>1. Bundle[version] \subseteq Item
    BY <1>0, SkillFacts DEF Item
  <2>2. SUFFICES ASSUME job'.report = "success", job'.agent \in Plugin
                 PROVE  \A i \in Bundle[version] : disk'[Legacy][i] = None
    BY DEF NoDoubles, Present
  <2> QED BY <1>1, <2>2
<1> QED BY <1>2, <1>3, <1>4, <1>7, <1>8 DEF SkillInductive

(* The legacy place of a plugin's agent is cleaned.                        *)
LEMMA CleanupStep ==
  ASSUME SkillInductive, CleanupLegacy
  PROVE  SkillInductive'
<1>0. /\ SkillTypeOK /\ job.pc = "legacy" /\ UNCHANGED <<version, unnoticed, faults>>
      /\ version \in Version /\ job.agent \in Agent /\ Legacy \in Place
      /\ disk \in [Place -> [Item -> Content]] /\ Here # Legacy
      /\ faults \in 0 .. MaxFailures
  BY SkillFacts, SkillConstants
  DEF SkillInductive, CleanupLegacy, SkillTypeOK, SkillCommand, Here
<1>1. Bundle[version] \subseteq Item /\ Manifest \in Item /\ None \in Content
  BY <1>0, SkillFacts, ContentFacts DEF Item
<1>2. /\ disk' \in [Place -> [Item -> Content]]
      /\ \A d \in Place \ {Legacy} : disk'[d] = disk[d]
      /\ \A i \in Item : disk'[Legacy][i] \in {None, disk[Legacy][i]}
      /\ job.agent \in Plugin =>
            \A i \in Bundle[version] : disk'[Legacy][i] = None
  <2>1. CASE job.agent \in Plugin
    <3>1. disk' = [disk EXCEPT ![Legacy] =
                     [i \in Item |-> IF i \in Bundle[version] THEN None ELSE @[i]]]
      BY <2>1 DEF CleanupLegacy
    <3> QED BY <1>0, <1>1, <3>1
  <2>2. CASE job.agent \notin Plugin
    BY <1>0, <2>2 DEF CleanupLegacy
  <2> QED BY <2>1, <2>2
<1>3. \A d \in FlatPlaces : disk'[d][Manifest] = None
  <2>1. \A d \in FlatPlaces : d \in Place /\ disk[d][Manifest] = None
    BY <1>0 DEF SkillTypeOK, FlatPlaces
  <2> QED BY <1>1, <1>2, <2>1, SkillFacts
<1>4. CASE job.op = "uninstall"
  <2>1. job' = [job EXCEPT !.pc = "tree"] /\ UNCHANGED <<refreshed, unrefreshed>>
    BY <1>4 DEF CleanupLegacy
  <2>2. /\ job' \in SkillCommand /\ job'.pc = "tree" /\ job'.op = "uninstall"
        /\ job'.agent = job.agent /\ job'.targets = job.targets
        /\ job'.report = job.report
    BY <1>0, <1>4, <2>1 DEF SkillTypeOK, SkillCommand
  <2>3. /\ job.report = "none" /\ job.agent \in Plugin /\ refreshed = {}
        /\ Here' = Here
    BY <1>0, <1>4, <2>2
    DEF SkillInductive, CommandIsSound, PlacesAreApart, Here
  <2>4. SkillTypeOK'
    BY <1>0, <1>2, <1>3, <2>1, <2>2 DEF SkillTypeOK
  <2>5. CommandIsSound'
    BY <1>0, <1>2, <2>2, <2>3 DEF CommandIsSound, Present
  <2>6. PlacesAreApart'
    BY <1>0, <1>4, <2>1, <2>2, <2>3 DEF SkillInductive, PlacesAreApart, FirstOf
  <2> QED
    BY <2>1, <2>2, <2>3, <2>4, <2>5, <2>6
    DEF SkillInductive, DoneIsCurrent, RefreshedIsCurrent, NoDoubles
<1>5. CASE job.op # "uninstall"
  <2>1. PICK what \in {"error", "success"} :
          Report(what) /\ (what = "success" => ~ job.failed)
    BY <1>5 DEF CleanupLegacy
  <2>2. what = "success" /\ job.op = "upgrade" =>
          \A i \in Items(job.agent) : disk'[Here][i] = Copy(version)
    <3>1. Here \in Place /\ job.todo = {}
      BY <1>0, <1>5, SkillFacts DEF SkillInductive, CommandIsSound, Here
    <3> QED BY <1>0, <1>2, <2>1, <3>1 DEF SkillInductive, DoneIsCurrent
  <2> QED BY <1>0, <1>2, <1>3, <2>1, <2>2, ReportStep
<1> QED BY <1>4, <1>5

(* Skills are removed from a flat place, one by one.                       *)
LEMMA RemoveStep ==
  ASSUME SkillInductive, RemoveBundledSkills
  PROVE  SkillInductive'
<1>0. /\ SkillTypeOK /\ job.pc = "remove" /\ UNCHANGED <<version, unnoticed, faults>>
      /\ job.op \in {"uninstall", "migrate"} /\ job.agent \notin Plugin
      /\ job.todo \subseteq Skill /\ job.agent \in Agent /\ job.report = "none"
      /\ disk \in [Place -> [Item -> Content]] /\ faults \in 0 .. MaxFailures
      /\ \A d \in FlatPlaces : disk[d][Manifest] = None
      /\ Here \in Place /\ refreshed = {}
  BY SkillFacts
  DEF SkillInductive, RemoveBundledSkills, SkillTypeOK, SkillCommand, CommandIsSound,
      PlacesAreApart, Here
<1>1. CASE job.todo = {}
  <2>1. Report("success") /\ disk' = disk
    BY <1>1 DEF RemoveBundledSkills
  <2> QED BY <1>0, <2>1, ReportStep
<1>2. CASE job.todo # {}
  <2>1. PICK i \in job.todo :
          /\ Put(Here, i, None)
          /\ job' = [job EXCEPT !.todo = @ \ {i}]
          /\ UNCHANGED <<refreshed, unrefreshed>>
    BY <1>2 DEF RemoveBundledSkills, Next1
  <2>2. i \in Item /\ i # Manifest
    BY <1>0, SkillConstants DEF Item
  <2>3. /\ disk' \in [Place -> [Item -> Content]]
        /\ \A d \in FlatPlaces : disk'[d][Manifest] = None
    BY <1>0, <2>1, <2>2, PutFacts, ContentFacts
  <2>4. /\ job' \in SkillCommand /\ job'.pc = "remove" /\ job'.op = job.op
        /\ job'.agent = job.agent /\ job'.targets = job.targets
        /\ job'.report = "none" /\ job'.todo \subseteq Skill
    BY <1>0, <2>1 DEF SkillTypeOK, SkillCommand
  <2>5. SkillTypeOK' /\ Here' = Here
    BY <1>0, <2>1, <2>3, <2>4 DEF SkillTypeOK, Here
  <2>6. CommandIsSound'
    BY <1>0, <2>4 DEF CommandIsSound
  <2>7. PlacesAreApart'
    BY <1>0, <2>1, <2>4, <2>5 DEF SkillInductive, PlacesAreApart, FirstOf
  <2> QED
    BY <1>0, <2>1, <2>4, <2>5, <2>6, <2>7
    DEF SkillInductive, DoneIsCurrent, RefreshedIsCurrent, NoDoubles
<1> QED BY <1>1, <1>2

(* The directory of a plugin is removed.                                   *)
LEMMA TreeStep ==
  ASSUME SkillInductive, RemoveTree
  PROVE  SkillInductive'
<1>0. /\ SkillTypeOK /\ job.pc = "tree" /\ UNCHANGED <<version, unnoticed, faults>>
      /\ job.op = "uninstall" /\ job.agent \in Agent /\ Report("success")
      /\ disk \in [Place -> [Item -> Content]] /\ faults \in 0 .. MaxFailures
      /\ \A d \in FlatPlaces : d \in Place /\ disk[d][Manifest] = None
      /\ Here \in Place /\ Here # Legacy /\ Legacy \in Place
      /\ version \in Version
  BY SkillFacts, SkillConstants
  DEF SkillInductive, RemoveTree, SkillTypeOK, SkillCommand, CommandIsSound, Here,
      FlatPlaces
<1>1. disk' = [disk EXCEPT ![Here] = [i \in Item |-> None]]
  BY DEF RemoveTree
<1>2. /\ disk' \in [Place -> [Item -> Content]]
      /\ \A d \in Place \ {Here} : disk'[d] = disk[d]
      /\ \A d \in FlatPlaces : disk'[d][Manifest] = None
  BY <1>0, <1>1, ContentFacts DEF Item
<1>3. \A i \in Bundle[version] : disk'[Legacy][i] = None
  BY <1>0, <1>2 DEF SkillInductive, CommandIsSound, Present
<1> QED BY <1>0, <1>2, <1>3, ReportStep

(* A command is interrupted.                                               *)
LEMMA InterruptedStep ==
  ASSUME SkillInductive, Interrupted
  PROVE  SkillInductive'
<1>0. /\ SkillTypeOK /\ job.pc \in {"items", "legacy", "remove", "tree"}
      /\ version' = version /\ unnoticed' = unnoticed
      /\ Report("killed") /\ job.agent \in Agent
      /\ disk \in [Place -> [Item -> Content]]
      /\ \A d \in FlatPlaces : disk[d][Manifest] = None
      /\ Here \in Place /\ version \in Version
  BY SkillFacts DEF SkillInductive, Interrupted, SkillTypeOK, SkillCommand, Here
<1>1. faults' \in 0 .. MaxFailures
  BY <1>0, SkillConstants DEF Interrupted, Fault, SkillTypeOK
<1>2. /\ disk' \in [Place -> [Item -> Content]]
      /\ \A d \in FlatPlaces : disk'[d][Manifest] = None
      /\ \A d \in Place \ {Here, Legacy} : disk'[d] = disk[d]
  <2>1. CASE UNCHANGED disk
    BY <1>0, <2>1
  <2>2. ASSUME job.pc = "items", job.todo # {}, Put(Here, Next1(job.todo), TornCopy)
        PROVE  <1>2!1 /\ <1>2!2 /\ <1>2!3
    <3>1. PICK i \in job.todo : i = Next1(job.todo)
      BY <2>2 DEF Next1
    <3>2. i \in Items(job.agent) /\ i \in Item /\ Put(Here, i, TornCopy)
      BY <1>0, <2>2, <3>1, ItemFacts DEF SkillInductive, CommandIsSound
    <3>3. Here \in FlatPlaces => i # Manifest
      BY <1>0, <3>2, SkillFacts, ItemFacts, SkillConstants DEF Here, FlatPlaces
    <3>4. \A d \in Place \ {Here} : disk'[d] = disk[d]
      BY <1>0, <3>2 DEF Put
    <3> QED BY <1>0, <3>2, <3>3, <3>4, PutFacts, ContentFacts
  <2>3. CASE PartlyRemoved(Legacy, Bundle[version])
    BY <1>0, <2>3, PartFacts, SkillFacts, SkillConstants DEF Item
  <2>4. CASE PartlyRemoved(Here, job.todo)
    BY <1>0, <2>4, PartFacts DEF SkillTypeOK, SkillCommand
  <2>5. CASE PartlyRemoved(Here, Item)
    BY <1>0, <2>5, PartFacts
  <2> QED BY <2>1, <2>2, <2>3, <2>4, <2>5 DEF Interrupted
<1> QED BY <1>0, <1>1, <1>2, ReportStep

(* Every step keeps the invariant.                                         *)
LEMMA SkillStep == SkillInductive /\ [SkillNext]_skillVars => SkillInductive'
<1> SUFFICES ASSUME SkillInductive, [SkillNext]_skillVars PROVE SkillInductive'
  OBVIOUS
<1>1. CASE \E a \in Agent, force, symlink \in BOOLEAN :
             InstallPluginOrSkills(a, force, symlink)
  BY <1>1, BeginsAll
<1>2. CASE \E a \in Agent : UninstallPluginOrSkills(a)
  BY <1>2, BeginsAll
<1>3. CASE MigrateClaudeToPlugin
  BY <1>3, BeginsAll
<1>4. CASE \E installer \in Installer, force \in BOOLEAN :
            Upgrade(installer, force)
  BY <1>4, BeginsAll
<1>5. CASE InstallItem \/ InstallFails
  BY <1>5, InstallStep
<1>6. CASE CleanupLegacy
  BY <1>6, CleanupStep
<1>7. CASE RemoveBundledSkills
  BY <1>7, RemoveStep
<1>8. CASE RemoveTree
  BY <1>8, TreeStep
<1>9. CASE Interrupted
  BY <1>9, InterruptedStep
<1>10. CASE PackageIsLatest \/ PackageFails \/ AfterUpgrade \/ UpgradeKilled
  BY <1>10, EndStep
<1>11. CASE PackageUpgraded \/ UpgradeUnnoticed
  BY <1>11, PackageStep
<1>12. CASE Refresh
  BY <1>12, RefreshStep
<1>13. CASE UNCHANGED skillVars
  BY <1>13
  DEF skillVars, SkillInductive, SkillTypeOK, CommandIsSound, PlacesAreApart,
      DoneIsCurrent, RefreshedIsCurrent, NoDoubles, Here, Items, Present, FirstOf
<1> QED
  BY <1>1, <1>2, <1>3, <1>4, <1>5, <1>6, <1>7, <1>8, <1>9, <1>10, <1>11, <1>12,
     <1>13
  DEF SkillNext

(* No step touches what another package put into a flat place: a command   *)
(* changes items of its own, or the tree of a plugin.                      *)
LEMMA ForeignStep ==
  ASSUME SkillInductive, [SkillNext]_skillVars,
         NEW d \in FlatPlaces, NEW i \in Foreign
  PROVE  disk'[d][i] = disk[d][i]
<1>0. /\ disk \in [Place -> [Item -> Content]] /\ job.agent \in Agent
      /\ version \in Version /\ d \in Place /\ i \in Item /\ Legacy \in Place
      /\ Here \in Place /\ i \notin Skill \cup {Manifest}
  BY SkillFacts, SkillConstants
  DEF SkillInductive, SkillTypeOK, SkillCommand, FlatPlaces, Item, Here
<1>1. ASSUME NEW j, NEW content, j # i, Put(Here, j, content)
      PROVE  disk'[d][i] = disk[d][i]
  BY <1>0, <1>1 DEF Put
<1>2. job.pc = "items" /\ job.todo # {} => Next1(job.todo) # i
  <2>1. job.pc = "items" => job.todo \subseteq Skill \cup {Manifest}
    BY <1>0, ItemFacts DEF SkillInductive, CommandIsSound
  <2> QED BY <1>0, <2>1 DEF Next1
<1>3. CASE InstallItem \/ InstallFails
  <2>1. \/ disk' = disk
        \/ \E content : Put(Here, Next1(job.todo), content)
    BY <1>3 DEF InstallItem, InstallFails
  <2>2. job.pc = "items" /\ job.todo # {}
    BY <1>3 DEF InstallItem, InstallFails
  <2> QED BY <1>1, <1>2, <2>1, <2>2
<1>4. CASE CleanupLegacy
  <2>1. i \notin Bundle[version]
    BY <1>0, SkillFacts
  <2> QED BY <1>0, <1>4, <2>1 DEF CleanupLegacy
<1>5. CASE RemoveBundledSkills
  <2>1. job.todo # {} => Next1(job.todo) # i
    BY <1>0, <1>5 DEF RemoveBundledSkills, SkillInductive, CommandIsSound, Next1
  <2> QED BY <1>1, <1>5, <2>1 DEF RemoveBundledSkills
<1>6. job.pc = "tree" => Here # d
  BY <1>0, SkillFacts DEF SkillInductive, CommandIsSound, Here, FlatPlaces
<1>7. CASE RemoveTree
  BY <1>0, <1>6, <1>7 DEF RemoveTree
<1>8. CASE Interrupted
  <2>0. SkillTypeOK /\ Bundle[version] \subseteq Skill /\ Skill \subseteq Item
    BY <1>0, SkillFacts DEF SkillInductive, Item
  <2>1. CASE job.pc = "tree" /\ PartlyRemoved(Here, Item)
    BY <1>0, <1>6, <2>0, <2>1, PartFacts
  <2>2. CASE /\ job.pc = "items" /\ job.todo # {}
             /\ Put(Here, Next1(job.todo), TornCopy)
    BY <1>1, <1>2, <2>2
  <2>3. CASE PartlyRemoved(Legacy, Bundle[version])
    BY <1>0, <2>0, <2>3, PartFacts
  <2>4. CASE job.pc = "remove" /\ PartlyRemoved(Here, job.todo)
    <3>1. job.todo \subseteq Skill
      BY <2>4 DEF SkillInductive, CommandIsSound
    <3> QED BY <1>0, <2>0, <2>4, <3>1, PartFacts
  <2>5. CASE UNCHANGED disk
    BY <2>5
  <2> QED BY <1>8, <2>1, <2>2, <2>3, <2>4, <2>5 DEF Interrupted
<1>9. CASE UNCHANGED disk
  BY <1>9
<1> QED
  BY <1>3, <1>4, <1>5, <1>7, <1>8, <1>9
  DEF SkillNext, skillVars, BeginJob, InstallPluginOrSkills,
      UninstallPluginOrSkills, MigrateClaudeToPlugin, UpgradeKilled, Upgrade,
      PackageIsLatest, PackageUpgraded, UpgradeUnnoticed, PackageFails, Refresh,
      AfterUpgrade

(* Whatever fails or is killed, it is known of a command what it has still *)
(* to do, and of an upgrade which places it has still to come to.          *)
THEOREM SkillsAreSound == SkillSpec => []SkillInductive
<1>1. SkillInit => SkillInductive
  BY SkillStarts
<1>2. SkillInductive /\ [SkillNext]_skillVars => SkillInductive'
  BY SkillStep
<1> QED BY <1>1, <1>2, PTL DEF SkillSpec

(* The types of the places and of the command.                             *)
THEOREM SkillTypes == SkillSpec => []SkillTypeOK
<1>1. SkillInductive => SkillTypeOK
  BY DEF SkillInductive
<1> QED BY <1>1, SkillsAreSound, PTL

(* A place that `upgrade` reports as refreshed has every skill of the new  *)
(* version, though other places or earlier commands have failed.           *)
THEOREM RefreshedStaysCurrent == SkillSpec => []RefreshedIsCurrent
<1>1. SkillInductive => RefreshedIsCurrent
  BY DEF SkillInductive
<1> QED BY <1>1, SkillsAreSound, PTL

(* An installed plugin has no flat skills beside it                        *)
(* (_cleanup_legacy_agy_skills).                                           *)
THEOREM PluginsHaveNoDoubles == SkillSpec => []NoDoubles
<1>1. SkillInductive => NoDoubles
  BY DEF SkillInductive
<1> QED BY <1>1, SkillsAreSound, PTL

(* No command touches the skills of another package                        *)
(* (_remove_bundled_skills_from).                                          *)
THEOREM OthersSkillsSurvive == SkillSpec => ForeignSurvives
<1>1. SkillInductive /\ [SkillNext]_skillVars =>
        [\A d \in FlatPlaces, i \in Foreign : disk'[d][i] = disk[d][i]]_skillVars
  BY ForeignStep
<1> QED BY <1>1, SkillsAreSound, PTL DEF SkillSpec, ForeignSurvives

-----------------------------------------------------------------------------
(* An upgrade forgets no copy.                                             *)

LEMMA CopyFacts ==
  /\ \A v, w : Copy(v) = Copy(w) => v = w
  /\ \A v : Copy(v) # None /\ Copy(v) # Link
  /\ None # Link
BY DEF Copy, None, Link

(* The places of the agents whose copies are refreshed.                    *)
LEMMA AgentFacts ==
  ASSUME NEW a \in Agent \ {Claude}
  PROVE  /\ PlaceOf[a] \in Place /\ PlaceOf[a] # Legacy
         /\ PlaceOf[a] # PlaceOf[Claude]
         /\ \A b \in Agent : PlaceOf[b] = PlaceOf[a] => (b \in Plugin <=> a \in Plugin)
         /\ \A v \in Version : Marker \in Bundle[v] /\ Bundle[v] \subseteq Item
         /\ Manifest \notin Skill /\ Marker \in Item
<1>1. PlaceOf[a] \in Place /\ PlaceOf[a] # Legacy
  BY SkillFacts
<1>2. PlaceOf[a] # PlaceOf[Claude]
  BY SkillConstants DEF Agent
<1>3. \A b \in Agent : PlaceOf[b] = PlaceOf[a] => (b \in Plugin <=> a \in Plugin)
  BY SkillFacts
<1>4. \A v \in Version : Marker \in Bundle[v] /\ Bundle[v] \subseteq Item
  BY SkillConstants, SkillFacts DEF Item
<1>5. Manifest \notin Skill /\ Marker \in Item
  BY <1>4, SkillConstants, SkillFacts
<1> QED BY <1>1, <1>2, <1>3, <1>4, <1>5

(* Agents with one place are settled together.                             *)
LEMMA SettledTogether ==
  ASSUME NEW a \in Agent \ {Claude}, NEW b \in Agent \ {Claude},
         PlaceOf[a] = PlaceOf[b], Settled(a)
  PROVE  Settled(b)
BY AgentFacts DEF Settled, IsCopied

(* A place that is not touched stays settled.                              *)
LEMMA SettledStays ==
  ASSUME NEW a \in Agent \ {Claude}, Settled(a), version' = version,
         disk'[PlaceOf[a]] = disk[PlaceOf[a]]
  PROVE  Settled(a)'
BY DEF Settled, IsCopied, Linked, Stale, Present

(* Nothing is in hand before a command and after it.                       *)
LEMMA NothingInHand ==
  ASSUME UpgradesKnown, faults = 0, ~ unnoticed,
         job.pc \in {"idle", "package"} \/ (job.pc = "refresh" /\ job.targets = {})
  PROVE  job.targets = {} /\ \A a \in Agent \ {Claude} : Settled(a)
<1>1. job.targets = {}
  BY DEF UpgradesKnown
<1>2. InHand = {}
  BY <1>1 DEF InHand
<1> QED BY <1>1, <1>2 DEF UpgradesKnown

LEMMA UpgradesStart == SkillInit => UpgradesKnown
<1> SUFFICES ASSUME SkillInit PROVE UpgradesKnown
  OBVIOUS
<1>1. ASSUME NEW a \in Agent \ {Claude}, NEW i \in Item
      PROVE  disk[PlaceOf[a]][i] \in {None, Own}
  BY AgentFacts DEF SkillInit
<1>2. \A v : Copy(v) # Own
  BY DEF Copy, Own
<1>3. Skill \subseteq Item /\ \A v \in Version : Bundle[v] \subseteq Item
  BY SkillFacts DEF Item
<1>4. version \in Version
  BY SkillFacts DEF SkillInit
<1>5. \A a \in Agent \ {Claude} : Settled(a)
  BY <1>1, <1>2, <1>3, <1>4, CopyFacts DEF Settled, Stale
<1>6. CopiesKnown
  BY <1>1, <1>2, <1>3, CopyFacts DEF CopiesKnown
<1> QED
  BY <1>5, <1>6, IdleFacts
  DEF SkillInit, UpgradesKnown, ProgressKnown, InHand, NoJob

(* A command begins, in a place that is settled.                           *)
LEMMA UpgradesBegin ==
  ASSUME SkillInductive, UpgradesKnown, NEW new, BeginJob(new),
         new.targets = {}, new.failed = FALSE,
         new.pc \in {"items", "legacy", "remove", "package"},
         new.pc = "items" => /\ new.op = "install" /\ new.agent \in Agent \ {Claude}
                             /\ new.todo = Items(new.agent),
         new.pc = "legacy" => new.op = "uninstall",
         new.pc = "remove" => new.todo = Bundle[version]
  PROVE  UpgradesKnown'
<1> SUFFICES ASSUME faults' = 0, ~ unnoticed' PROVE UpgradesKnown'
  BY DEF UpgradesKnown
<1>1. /\ job' = new /\ UNCHANGED <<version, unnoticed, disk, faults>> /\ job.pc = "idle"
  BY DEF BeginJob
<1>2. \A a \in Agent \ {Claude} : Settled(a) /\ Settled(a)'
  BY <1>1, NothingInHand, SettledStays
<1>3. CopiesKnown'
  BY <1>1 DEF UpgradesKnown, CopiesKnown
<1>4. ProgressKnown'
  BY <1>1, <1>2 DEF ProgressKnown, Items, Settled, Linked, Stale, Here
<1> QED BY <1>1, <1>2, <1>3, <1>4 DEF UpgradesKnown

LEMMA UpgradesBeginAll ==
  ASSUME SkillInductive, UpgradesKnown,
         \/ \E a \in Agent, force, symlink \in BOOLEAN :
              InstallPluginOrSkills(a, force, symlink)
         \/ \E a \in Agent : UninstallPluginOrSkills(a)
         \/ MigrateClaudeToPlugin
         \/ \E installer \in Installer, force \in BOOLEAN :
              Upgrade(installer, force)
  PROVE  UpgradesKnown'
<1>1. ASSUME NEW a \in Agent, NEW force \in BOOLEAN, NEW symlink \in BOOLEAN,
             InstallPluginOrSkills(a, force, symlink)
      PROVE  UpgradesKnown'
  <2> DEFINE new == Installing(a, force, symlink)
  <2>1. /\ new.pc = "items" /\ new.op = "install" /\ new.agent = a
        /\ new.todo = Items(a) /\ new.targets = {} /\ new.failed = FALSE
    BY DEF Installing, NoJob
  <2>2. BeginJob(new) /\ a # Claude
    BY <1>1 DEF InstallPluginOrSkills
  <2> HIDE DEF new
  <2> QED BY <2>1, <2>2, UpgradesBegin
<1>2. ASSUME NEW a \in Agent, UninstallPluginOrSkills(a) PROVE UpgradesKnown'
  <2> DEFINE new == [NoJob EXCEPT
                       !.pc = IF a \in Plugin THEN "legacy" ELSE "remove",
                       !.op = "uninstall", !.agent = a, !.todo = Bundle[version]]
  <2>1. /\ new.pc = IF a \in Plugin THEN "legacy" ELSE "remove"
        /\ new.op = "uninstall" /\ new.todo = Bundle[version]
        /\ new.targets = {} /\ new.failed = FALSE
    BY DEF NoJob
  <2>2. BeginJob(new)
    BY <1>2 DEF UninstallPluginOrSkills
  <2> HIDE DEF new
  <2> QED BY <2>1, <2>2, UpgradesBegin
<1>3. ASSUME MigrateClaudeToPlugin PROVE UpgradesKnown'
  <2> DEFINE new == [NoJob EXCEPT !.pc = "remove", !.op = "migrate",
                       !.agent = Claude, !.todo = Bundle[version]]
  <2>1. /\ new.pc = "remove" /\ new.todo = Bundle[version]
        /\ new.targets = {} /\ new.failed = FALSE
    BY DEF NoJob
  <2>2. BeginJob(new)
    BY <1>3 DEF MigrateClaudeToPlugin
  <2> HIDE DEF new
  <2> QED BY <2>1, <2>2, UpgradesBegin
<1>4. ASSUME NEW installer \in Installer, NEW force \in BOOLEAN,
             Upgrade(installer, force)
      PROVE  UpgradesKnown'
  <2> DEFINE new == [NoJob EXCEPT !.pc = "package", !.op = "upgrade",
                             !.by = installer]
  <2>1. new.pc = "package" /\ new.targets = {} /\ new.failed = FALSE
    BY DEF NoJob
  <2>2. BeginJob(new)
    BY <1>4 DEF Upgrade
  <2> HIDE DEF new
  <2> QED BY <2>1, <2>2, UpgradesBegin
<1> QED BY <1>1, <1>2, <1>3, <1>4

(* An upgrade ends when there is nothing more to do.                       *)
LEMMA UpgradesEnd ==
  ASSUME SkillInductive, UpgradesKnown,
         PackageIsLatest \/ PackageFails \/ AfterUpgrade
  PROVE  UpgradesKnown'
<1> SUFFICES ASSUME faults' = 0, ~ unnoticed' PROVE UpgradesKnown'
  BY DEF UpgradesKnown
<1>1. /\ UNCHANGED <<version, unnoticed, disk, faults>>
      /\ job.pc = "package" \/ (job.pc = "refresh" /\ job.targets = {})
      /\ job'.pc = "idle" /\ job'.targets = {} /\ job'.failed = FALSE
  BY DEF PackageIsLatest, PackageFails, AfterUpgrade, NoJob
<1>2. \A a \in Agent \ {Claude} : Settled(a)'
  BY <1>1, NothingInHand, SettledStays
<1>3. CopiesKnown'
  BY <1>1 DEF UpgradesKnown, CopiesKnown
<1> QED BY <1>1, <1>2, <1>3 DEF UpgradesKnown, ProgressKnown

(* What is not recognised after the package was upgraded has nothing of    *)
(* it, or links: a skill of the new version that it has a copy of was in   *)
(* the version before.                                                     *)
LEMMA UpgradesPackage ==
  ASSUME SkillInductive, UpgradesKnown, NothingReturns,
         PackageUpgraded
  PROVE  UpgradesKnown'
<1> SUFFICES ASSUME faults' = 0, ~ unnoticed' PROVE UpgradesKnown'
  BY DEF UpgradesKnown
<1>1. /\ UNCHANGED <<unnoticed, disk, faults>> /\ job.pc = "package"
      /\ version \in Version /\ version' \in {version, version + 1}
      /\ version' \in Version
      /\ job' = [job EXCEPT !.pc = "refresh", !.targets = CopiedSkillTargets]
  BY DEF PackageUpgraded, SkillInductive, SkillTypeOK
<1>2. /\ job'.pc = "refresh" /\ job'.targets = CopiedSkillTargets
      /\ job'.op = "upgrade" /\ job'.failed = FALSE
  BY <1>1 DEF SkillInductive, SkillTypeOK, SkillCommand, CommandIsSound,
     UpgradesKnown
<1>3. \A v \in Version : v <= version => v <= version'
  BY <1>1, SkillFacts
<1>4. CopiesKnown'
  BY <1>1, <1>3 DEF UpgradesKnown, CopiesKnown
<1>5. ASSUME NEW a \in Agent \ {Claude}, PlaceOf[a] \notin InHand'
      PROVE  Settled(a)'
  <2>1. ~ IsCopied(a)
    <3>1. SUFFICES ASSUME IsCopied(a) PROVE FALSE
      OBVIOUS
    <3>2. FirstOf(a) \in job'.targets
      BY <1>2, <3>1 DEF CopiedSkillTargets
    <3>3. PlaceOf[FirstOf(a)] = PlaceOf[a]
      BY FirstFacts
    <3> QED BY <1>5, <3>2, <3>3 DEF InHand
  <2>2. Settled(a)
    BY <1>1, NothingInHand
  <2>3. CASE Linked(PlaceOf[a])
    BY <1>1, <2>3 DEF Settled, Linked
  <2>4. CASE ~ Linked(PlaceOf[a])
    <3>1. \A i \in Bundle[version], v \in Version : disk[PlaceOf[a]][i] # Copy(v)
      BY <2>1, <2>2, <2>4 DEF Settled
    <3>2. ASSUME NEW i \in Bundle[version'], NEW v \in Version,
                 disk[PlaceOf[a]][i] = Copy(v)
          PROVE  FALSE
      <4>1. i \in Skill
        BY <1>1, SkillFacts
      <4>2. v <= version /\ i \in Bundle[v]
        BY <1>1, <3>2, <4>1 DEF UpgradesKnown, CopiesKnown
      <4>3. version <= version'
        BY <1>1, SkillFacts
      <4>4. i \in Bundle[version]
        BY <1>1, <4>2, <4>3 DEF NothingReturns
      <4> QED BY <3>1, <3>2, <4>4
    <3> QED BY <1>1, <3>2 DEF Settled, Stale
  <2> QED BY <2>3, <2>4
<1>6. ProgressKnown'
  BY <1>2 DEF ProgressKnown
<1> QED BY <1>2, <1>4, <1>5, <1>6 DEF UpgradesKnown

(* The next place is still in hand.                                        *)
LEMMA UpgradesRefresh ==
  ASSUME SkillInductive, UpgradesKnown, Refresh
  PROVE  UpgradesKnown'
<1> SUFFICES ASSUME faults' = 0, ~ unnoticed' PROVE UpgradesKnown'
  BY DEF UpgradesKnown
<1>1. PICK a \in job.targets :
        job' = [Installing(a, TRUE, FALSE) EXCEPT
                  !.op = "upgrade", !.targets = job.targets \ {a}]
  BY DEF Refresh, Next1
<1>2. /\ UNCHANGED <<version, unnoticed, disk, faults>> /\ job.pc = "refresh"
      /\ job.targets \subseteq Agent
  BY DEF Refresh, SkillInductive, SkillTypeOK, SkillCommand
<1>3. /\ job'.pc = "items" /\ job'.op = "upgrade" /\ job'.agent = a
      /\ job'.targets = job.targets \ {a} /\ job'.failed = FALSE
      /\ job'.todo = Items(a) /\ job'.force = TRUE
  BY <1>1 DEF Installing, NoJob
<1>4. InHand' = InHand
  BY <1>2, <1>3 DEF InHand, Here
<1>5. \A b \in Agent \ {Claude} : PlaceOf[b] \notin InHand' => Settled(b)'
  BY <1>2, <1>4, SettledStays DEF UpgradesKnown
<1>6. CopiesKnown'
  BY <1>2 DEF UpgradesKnown, CopiesKnown
<1>7. ProgressKnown'
  BY <1>2, <1>3 DEF ProgressKnown, Items
<1> QED BY <1>3, <1>5, <1>6, <1>7 DEF UpgradesKnown

(* A command is done with its place, which is settled then.                *)
LEMMA UpgradesReport ==
  ASSUME SkillInductive, UpgradesKnown, faults = 0, ~ unnoticed,
         job.pc \in {"items", "legacy", "remove", "tree"},
         NEW what \in {"success", "error", "killed"}, Report(what),
         version' = version, unnoticed' = unnoticed,
         \A d \in Place \ {Here, Legacy} : disk'[d] = disk[d],
         \A a \in Agent \ {Claude} : PlaceOf[a] = Here => Settled(a)',
         CopiesKnown'
  PROVE  UpgradesKnown'
<1>1. SkillTypeOK /\ job.agent \in Agent /\ job.report = "none"
  BY DEF SkillInductive, SkillTypeOK, SkillCommand, CommandIsSound
<1>2. /\ job'.op = job.op
      /\ job.op = "upgrade" => job'.pc = "refresh" /\ job'.targets = job.targets
      /\ job.op # "upgrade" => job'.pc = "idle" /\ job'.targets = {}
  BY <1>1, ReportFacts
<1>3. job'.failed = FALSE
  BY <1>1 DEF Report, NoJob, SkillTypeOK, SkillCommand
<1>4. job.op # "upgrade" => job.targets = {}
  BY DEF UpgradesKnown
<1>5. InHand' = {PlaceOf[a] : a \in job.targets}
  BY <1>2, <1>4 DEF InHand
<1>6. InHand = {PlaceOf[a] : a \in job.targets} \cup {Here}
  BY DEF InHand
<1>7. ASSUME NEW a \in Agent \ {Claude}, PlaceOf[a] \notin InHand'
      PROVE  Settled(a)'
  <2>1. CASE PlaceOf[a] = Here
    BY <2>1
  <2>2. CASE PlaceOf[a] # Here
    <3>1. Settled(a)
      BY <1>5, <1>6, <1>7, <2>2 DEF UpgradesKnown
    <3>2. disk'[PlaceOf[a]] = disk[PlaceOf[a]]
      BY <2>2, AgentFacts
    <3> QED BY <3>1, <3>2, SettledStays
  <2> QED BY <2>1, <2>2
<1>8. ProgressKnown'
  BY <1>2 DEF ProgressKnown
<1> QED BY <1>2, <1>3, <1>4, <1>7, <1>8 DEF UpgradesKnown

(* Where all of a version is installed as the command has it, the place is *)
(* settled.                                                                *)
LEMMA InstalledSettles ==
  ASSUME SkillInductive, UpgradesKnown, faults = 0, ~ unnoticed, job.pc = "legacy",
         job.op # "uninstall"
  PROVE  \A a \in Agent \ {Claude} : PlaceOf[a] = Here => Settled(a)
<1>1. /\ job.op \in {"install", "upgrade"} /\ job.todo = {}
      /\ job.agent \in Agent \ {Claude} /\ version \in Version
  BY DEF SkillInductive, CommandIsSound, SkillTypeOK, SkillCommand
<1>2. /\ Bundle[version] \subseteq Items(job.agent)
      /\ Items(job.agent) \subseteq Item /\ Marker \in Bundle[version]
      /\ Here = PlaceOf[job.agent]
  BY <1>1, ItemFacts, AgentFacts DEF SkillInductive, Here
<1> SUFFICES Settled(job.agent)
  BY <1>1, <1>2, SettledTogether
<1>3. CASE job.force /\ job.symlink
  <2>1. disk[Here][Marker] = Link
    BY <1>1, <1>2, <1>3 DEF UpgradesKnown, ProgressKnown
  <2> QED BY <1>2, <2>1 DEF Settled, Linked
<1>4. CASE job.force /\ ~ job.symlink
  <2>1. \A i \in Bundle[version] : disk[Here][i] = Copy(version)
    BY <1>1, <1>2, <1>4 DEF UpgradesKnown, ProgressKnown
  <2>2. Stale(Here, version) = {}
    BY <2>1, CopyFacts DEF Stale
  <2>3. IsCopied(job.agent)
    BY <1>2, <2>1, CopyFacts DEF IsCopied, Present
  <2> QED BY <1>2, <2>2, <2>3 DEF Settled
<1>5. CASE ~ job.force
  <2>1. /\ Linked(Here) \/ Stale(Here, version) = {}
        /\ disk[Here][Marker] # None
    BY <1>1, <1>2, <1>5 DEF UpgradesKnown, ProgressKnown
  <2>2. disk[Here][Marker] = Link => Linked(Here)
    BY <1>2 DEF Linked
  <2>3. disk[Here][Marker] # Link => IsCopied(job.agent)
    BY <1>2, <2>1 DEF IsCopied, Present
  <2> QED BY <1>2, <2>1, <2>2, <2>3 DEF Settled
<1> QED BY <1>3, <1>4, <1>5

(* An item is installed, or was there and is left.                         *)
LEMMA UpgradesInstall ==
  ASSUME SkillInductive, UpgradesKnown, InstallItem
  PROVE  UpgradesKnown'
<1> SUFFICES ASSUME faults' = 0, ~ unnoticed' PROVE UpgradesKnown'
  BY DEF UpgradesKnown
<1>1. PICK i \in job.todo : i = Next1(job.todo)
  BY DEF InstallItem, Next1
<1>2. /\ SkillTypeOK /\ UNCHANGED <<version, unnoticed, faults>> /\ job.pc = "items"
      /\ job.op \in {"install", "upgrade"} /\ job.agent \in Agent \ {Claude}
      /\ job.todo \subseteq Items(job.agent) /\ version \in Version
      /\ disk \in [Place -> [Item -> Content]]
  BY DEF SkillInductive, InstallItem, CommandIsSound, SkillTypeOK, SkillCommand
<1>3. /\ job'.todo = job.todo \ {i} /\ job'.failed = FALSE
      /\ job'.pc \in {"items", "legacy"} /\ job'.op = job.op
      /\ job'.agent = job.agent /\ job'.targets = job.targets
      /\ job'.force = job.force /\ job'.symlink = job.symlink
  BY <1>1, <1>2 DEF InstallItem, ItemDone, SkillTypeOK, SkillCommand, UpgradesKnown
<1>4. /\ Here \in Place /\ Here = PlaceOf[job.agent] /\ Here' = Here
      /\ i \in Items(job.agent) /\ Items(job.agent) \subseteq Item
      /\ Bundle[version] \subseteq Items(job.agent)
      /\ Items(job.agent)' = Items(job.agent)
  BY <1>1, <1>2, <1>3, ItemFacts, SkillFacts DEF Here, Items
<1> DEFINE kept == disk[Here][i] # None /\ ~ job.force
           new == IF job.symlink THEN Link ELSE Copy(version)
<1>5. \A d \in Place, j \in Item :
        disk'[d][j] = IF d = Here /\ j = i /\ ~ kept THEN new ELSE disk[d][j]
  <2>1. CASE kept
    BY <1>1, <2>1 DEF InstallItem
  <2>2. CASE ~ kept
    <3>1. Put(Here, i, new)
      BY <1>1, <2>2 DEF InstallItem
    <3> QED BY <1>2, <1>4, <2>2, <3>1 DEF Put
  <2> QED BY <2>1, <2>2
<1>6. \A d \in Place : d # Here => disk'[d] = disk[d]
  BY <1>1, <1>2 DEF InstallItem, Put
<1>7. InHand' = InHand
  BY <1>2, <1>3, <1>4 DEF InHand
<1>8. \A a \in Agent \ {Claude} : PlaceOf[a] \notin InHand' => Settled(a)'
  <2>1. Here \in InHand
    BY <1>2 DEF InHand
  <2> QED BY <1>2, <1>6, <1>7, <2>1, AgentFacts, SettledStays DEF UpgradesKnown
<1>9. CopiesKnown'
  <2>1. SUFFICES ASSUME NEW a \in Agent \ {Claude}, NEW j \in Skill, NEW v \in Version,
                        disk'[PlaceOf[a]][j] = Copy(v)
                 PROVE  v <= version /\ j \in Bundle[v]
    BY <1>2 DEF CopiesKnown
  <2>2. j \in Item /\ PlaceOf[a] \in Place
    BY AgentFacts DEF Item
  <2>3. CASE disk'[PlaceOf[a]][j] = disk[PlaceOf[a]][j]
    BY <2>1, <2>3, <1>2 DEF UpgradesKnown, CopiesKnown
  <2>4. CASE disk'[PlaceOf[a]][j] # disk[PlaceOf[a]][j]
    <3>1. PlaceOf[a] = Here /\ j = i /\ Copy(v) = new
      BY <1>5, <2>1, <2>2, <2>4
    <3>2. v = version
      BY <3>1, CopyFacts
    <3>3. v <= version
      BY <1>2, <3>2, SkillFacts
    <3>4. j \in Bundle[version]
      BY <1>4, <3>1, AgentFacts DEF Items
    <3> QED BY <3>2, <3>3, <3>4
  <2> QED BY <2>3, <2>4
<1>10. ProgressKnown'
  <2>1. CASE job.force
    <3>1. \A j \in Items(job.agent) \ job.todo : disk[Here][j] = new
      BY <1>2, <2>1 DEF UpgradesKnown, ProgressKnown
    <3>2. \A j \in Items(job.agent) \ job'.todo : disk'[Here][j] = new
      BY <1>3, <1>4, <1>5, <2>1, <3>1
    <3> QED BY <1>2, <1>3, <1>4, <2>1, <3>2 DEF ProgressKnown
  <2>2. CASE ~ job.force
    <3>1. /\ Linked(Here) \/ Stale(Here, version) = {}
          /\ \A j \in Items(job.agent) \ job.todo : disk[Here][j] # None
      BY <1>2, <2>2 DEF UpgradesKnown, ProgressKnown
    <3>2. \A j \in Items(job.agent) \ job'.todo : disk'[Here][j] # None
      BY <1>3, <1>4, <1>5, <2>2, <3>1, CopyFacts
    <3>3. CASE Linked(Here)
      <4>1. PICK j \in Item : disk[Here][j] = Link
        BY <3>3 DEF Linked
      <4>2. disk'[Here][j] = Link
        BY <1>4, <1>5, <2>2, <4>1, CopyFacts
      <4>3. Linked(Here)'
        BY <1>4, <4>2 DEF Linked
      <4> QED BY <1>2, <1>3, <1>4, <2>2, <3>2, <4>3 DEF ProgressKnown
    <3>4. CASE Stale(Here, version) = {}
      <4>1. ASSUME NEW j \in Bundle[version], NEW w \in Version \ {version},
                   disk'[Here][j] = Copy(w)
            PROVE  FALSE
        <5>1. disk[Here][j] # Copy(w)
          BY <3>4 DEF Stale
        <5>2. Copy(w) = new
          BY <1>4, <1>5, <4>1, <5>1
        <5> QED BY <5>2, CopyFacts
      <4>2. Stale(Here, version)' = {}
        BY <1>2, <1>4, <4>1 DEF Stale
      <4> QED BY <1>2, <1>3, <1>4, <2>2, <3>2, <4>2 DEF ProgressKnown
    <3> QED BY <3>1, <3>3, <3>4
  <2> QED BY <2>1, <2>2
<1>11. job'.op # "upgrade" \/ job'.pc \in {"idle", "package"} => job'.targets = {}
  BY <1>2, <1>3 DEF UpgradesKnown
<1> QED BY <1>3, <1>8, <1>9, <1>10, <1>11 DEF UpgradesKnown

(* The flat skills of a plugin's agent are in no place that is refreshed.  *)
LEMMA UpgradesCleanup ==
  ASSUME SkillInductive, UpgradesKnown, CleanupLegacy
  PROVE  UpgradesKnown'
<1> SUFFICES ASSUME faults' = 0, ~ unnoticed' PROVE UpgradesKnown'
  BY DEF UpgradesKnown
<1>1. /\ UNCHANGED <<version, unnoticed, faults>> /\ job.pc = "legacy"
      /\ \A d \in Place \ {Legacy} : disk'[d] = disk[d]
      /\ job.agent \in Agent
  BY DEF CleanupLegacy, SkillInductive, SkillTypeOK, SkillCommand
<1>2. \A a \in Agent \ {Claude} : disk'[PlaceOf[a]] = disk[PlaceOf[a]]
  BY <1>1, AgentFacts
<1>3. CopiesKnown'
  BY <1>1, <1>2 DEF UpgradesKnown, CopiesKnown
<1>4. CASE job.op = "uninstall"
  <2>1. job' = [job EXCEPT !.pc = "tree"]
    BY <1>4 DEF CleanupLegacy
  <2>2. /\ job'.pc = "tree" /\ job'.op = job.op /\ job'.agent = job.agent
        /\ job'.targets = job.targets /\ job'.failed = job.failed
    BY <2>1 DEF SkillInductive, SkillTypeOK, SkillCommand
  <2>3. InHand' = InHand
    BY <1>1, <2>2 DEF InHand, Here
  <2>4. \A a \in Agent \ {Claude} : PlaceOf[a] \notin InHand' => Settled(a)'
    BY <1>1, <1>2, <2>3, SettledStays DEF UpgradesKnown
  <2>5. ProgressKnown'
    BY <2>2 DEF ProgressKnown
  <2> QED BY <1>1, <1>3, <1>4, <2>2, <2>4, <2>5 DEF UpgradesKnown
<1>5. CASE job.op # "uninstall"
  <2>1. PICK what \in {"error", "success"} : Report(what)
    BY <1>5 DEF CleanupLegacy
  <2>2. \A a \in Agent \ {Claude} : PlaceOf[a] = Here => Settled(a)'
    BY <1>1, <1>2, <1>5, InstalledSettles, SettledStays
  <2> QED BY <1>1, <1>3, <2>1, <2>2, UpgradesReport
<1> QED BY <1>4, <1>5

(* What an uninstall leaves of a place is not the installed version's.     *)
LEMMA UpgradesRemove ==
  ASSUME SkillInductive, UpgradesKnown, RemoveBundledSkills
  PROVE  UpgradesKnown'
<1> SUFFICES ASSUME faults' = 0, ~ unnoticed' PROVE UpgradesKnown'
  BY DEF UpgradesKnown
<1>1. /\ SkillTypeOK /\ UNCHANGED <<version, unnoticed, faults>> /\ job.pc = "remove"
      /\ job.agent \in Agent /\ job.op \in {"uninstall", "migrate"}
      /\ job.todo \subseteq Skill /\ Skill \subseteq Item /\ version \in Version
      /\ disk \in [Place -> [Item -> Content]] /\ Here \in Place
      /\ \A i \in Bundle[version] \ job.todo : disk[Here][i] = None
  BY SkillFacts
  DEF SkillInductive, RemoveBundledSkills, SkillTypeOK, SkillCommand, CommandIsSound,
      UpgradesKnown, ProgressKnown, Here, Item
<1>2. CASE job.todo = {}
  <2>1. Report("success") /\ disk' = disk
    BY <1>2 DEF RemoveBundledSkills
  <2>2. ASSUME NEW a \in Agent \ {Claude}, PlaceOf[a] = Here
        PROVE  Settled(a)'
    <3>1. \A i \in Bundle[version], v \in Version : disk[Here][i] # Copy(v)
      BY <1>1, <1>2, CopyFacts
    <3> QED BY <1>1, <2>1, <2>2, <3>1 DEF Settled, Stale
  <2>3. CopiesKnown'
    BY <1>1, <2>1 DEF UpgradesKnown, CopiesKnown
  <2> QED BY <1>1, <2>1, <2>2, <2>3, UpgradesReport
<1>3. CASE job.todo # {}
  <2>1. PICK i \in job.todo :
          Put(Here, i, None) /\ job' = [job EXCEPT !.todo = @ \ {i}]
    BY <1>3 DEF RemoveBundledSkills, Next1
  <2>2. /\ job'.pc = "remove" /\ job'.op = job.op /\ job'.agent = job.agent
        /\ job'.targets = job.targets /\ job'.failed = job.failed
        /\ job'.todo = job.todo \ {i}
    BY <1>1, <2>1 DEF SkillTypeOK, SkillCommand
  <2>3. /\ \A d \in Place \ {Here} : disk'[d] = disk[d]
        /\ \A d \in Place, j \in Item :
             disk'[d][j] = IF d = Here /\ j = i THEN None ELSE disk[d][j]
    BY <1>1, <2>1 DEF Put
  <2>4. InHand' = InHand /\ Here \in InHand /\ Here' = Here
    BY <1>1, <2>2 DEF InHand, Here
  <2>5. \A a \in Agent \ {Claude} : PlaceOf[a] \notin InHand' => Settled(a)'
    BY <1>1, <2>3, <2>4, AgentFacts, SettledStays DEF UpgradesKnown
  <2>6. CopiesKnown'
    <3>1. SUFFICES ASSUME NEW a \in Agent \ {Claude}, NEW j \in Skill,
                          NEW v \in Version, disk'[PlaceOf[a]][j] = Copy(v)
                   PROVE  v <= version /\ j \in Bundle[v]
      BY <1>1 DEF CopiesKnown
    <3>2. disk[PlaceOf[a]][j] = Copy(v)
      BY <1>1, <2>3, <3>1, AgentFacts, CopyFacts
    <3> QED BY <1>1, <3>2 DEF UpgradesKnown, CopiesKnown
  <2>7. ProgressKnown'
    <3>1. \A j \in Bundle[version] \ job'.todo : disk'[Here][j] = None
      BY <1>1, <2>2, <2>3, SkillFacts
    <3> QED BY <1>1, <2>2, <2>4, <3>1 DEF ProgressKnown
  <2> QED BY <1>1, <2>2, <2>5, <2>6, <2>7 DEF UpgradesKnown
<1> QED BY <1>2, <1>3

(* The tree of a plugin is gone altogether.                                *)
LEMMA UpgradesTree ==
  ASSUME SkillInductive, UpgradesKnown, RemoveTree
  PROVE  UpgradesKnown'
<1> SUFFICES ASSUME faults' = 0, ~ unnoticed' PROVE UpgradesKnown'
  BY DEF UpgradesKnown
<1>1. /\ UNCHANGED <<version, unnoticed, faults>> /\ job.pc = "tree" /\ Report("success")
      /\ disk \in [Place -> [Item -> Content]] /\ Here \in Place
      /\ disk' = [disk EXCEPT ![Here] = [i \in Item |-> None]]
      /\ version \in Version
  BY SkillFacts
  DEF RemoveTree, SkillInductive, SkillTypeOK, SkillCommand, Here
<1>2. /\ \A d \in Place \ {Here} : disk'[d] = disk[d]
      /\ \A i \in Item : disk'[Here][i] = None
  BY <1>1
<1>3. \A i \in Bundle[version], v \in Version : disk'[Here][i] # Copy(v)
  BY <1>1, <1>2, SkillFacts, CopyFacts DEF Item
<1>4. \A a \in Agent \ {Claude} : PlaceOf[a] = Here => Settled(a)'
  BY <1>1, <1>3 DEF Settled, Stale
<1>5. CopiesKnown'
  <2>1. SUFFICES ASSUME NEW a \in Agent \ {Claude}, NEW j \in Skill,
                        NEW v \in Version, disk'[PlaceOf[a]][j] = Copy(v)
                 PROVE  v <= version /\ j \in Bundle[v]
    BY <1>1 DEF CopiesKnown
  <2>2. disk[PlaceOf[a]][j] = Copy(v)
    BY <1>2, <2>1, AgentFacts, CopyFacts DEF Item
  <2> QED BY <1>1, <2>2 DEF UpgradesKnown, CopiesKnown
<1> QED BY <1>1, <1>2, <1>4, <1>5, UpgradesReport

LEMMA UpgradesStep ==
  ASSUME NothingReturns,
         SkillInductive, UpgradesKnown, [SkillNext]_skillVars
  PROVE  UpgradesKnown'
<1>1. CASE \/ \E a \in Agent, force, symlink \in BOOLEAN :
                InstallPluginOrSkills(a, force, symlink)
           \/ \E a \in Agent : UninstallPluginOrSkills(a)
           \/ MigrateClaudeToPlugin
           \/ \E installer \in Installer, force \in BOOLEAN :
              Upgrade(installer, force)
  BY <1>1, UpgradesBeginAll
<1>2. CASE PackageIsLatest \/ PackageFails \/ AfterUpgrade
  BY <1>2, UpgradesEnd
<1>3. CASE PackageUpgraded
  BY <1>3, UpgradesPackage
<1>4. CASE Refresh
  BY <1>4, UpgradesRefresh
<1>5. CASE InstallItem
  BY <1>5, UpgradesInstall
<1>6. CASE CleanupLegacy
  BY <1>6, UpgradesCleanup
<1>7. CASE RemoveBundledSkills
  BY <1>7, UpgradesRemove
<1>8. CASE RemoveTree
  BY <1>8, UpgradesTree
<1>11. CASE UpgradeUnnoticed
  BY <1>11 DEF UpgradeUnnoticed, UpgradesKnown
<1>9. CASE InstallFails \/ Interrupted \/ UpgradeKilled
  <2>1. faults \in Nat
    BY SkillConstants DEF SkillInductive, SkillTypeOK
  <2>2. Fault
    BY <1>9 DEF InstallFails, Interrupted, UpgradeKilled
  <2>3. faults' # 0
    BY <2>1, <2>2 DEF Fault
  <2> QED BY <2>3 DEF UpgradesKnown
<1>10. CASE UNCHANGED skillVars
  BY <1>10
  DEF skillVars, UpgradesKnown, CopiesKnown, ProgressKnown, Settled, InHand, Here,
      Items, Linked, Stale, IsCopied, Present
<1> QED
  BY <1>1, <1>2, <1>3, <1>4, <1>5, <1>6, <1>7, <1>8, <1>9, <1>10, <1>11
  DEF SkillNext

(* As long as nothing fails and no upgrade takes itself for one that did    *)
(* nothing, every place is settled but for what a command has in hand:     *)
(* whatever the package is installed with, if skills do not come back      *)
(* after they were dropped from it.                                        *)
THEOREM UpgradesAreKnown ==
  ASSUME NothingReturns
  PROVE  SkillSpec => []UpgradesKnown
<1>1. SkillInit => UpgradesKnown
  BY UpgradesStart
<1>2. SkillInductive /\ UpgradesKnown /\ [SkillNext]_skillVars => UpgradesKnown'
  BY UpgradesStep
<1> QED BY <1>1, <1>2, SkillsAreSound, PTL DEF SkillSpec

(* `upgrade` (_after_upgrade, _copied_skill_targets) brings every place     *)
(* without links up to date or says that it could not, as long as nothing  *)
(* fails and no upgrade takes itself for one that did nothing, which those *)
(* by pip may.  Skills that the package drops and takes up again are       *)
(* excluded, and copies of dropped ones are not counted.                   *)
THEOREM UpgradesForgetNothing ==
  ASSUME NothingReturns
  PROVE  SkillSpec => []UpgradeRefreshes
<1>1. UpgradesKnown => UpgradeRefreshes
  BY NothingInHand DEF Settled, Linked, UpToDate, UpgradeRefreshes
<1> QED BY <1>1, UpgradesAreKnown, PTL
==============================================================================
