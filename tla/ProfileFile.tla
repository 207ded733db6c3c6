----------------------------- MODULE ProfileFile -----------------------------
(***************************************************************************)
(* The file profiles.json and the commands that change it: each reads the  *)
(* whole file, changes what it read, and writes the whole file again.  The *)
(* commands are processes of their own and nothing locks the file.         *)
(*                                                                         *)
(* save_profiles opens the file for writing, which empties it, and the     *)
(* text lands when it is written.  A text that lands on one that another   *)
(* process wrote in the meantime covers its beginning only.                *)
(***************************************************************************)
EXTENDS ProfileConfig

CONSTANTS
    Command,     \* commands that may run at the same time
    Written,     \* what may stand in the file at first
    MaxFaults    \* how many commands may be killed

ASSUME WrittenAssumption ==
    Written \subseteq Config /\ \A c \in Written : Sound(c)
ASSUME FaultsAssumption == MaxFaults \in Nat

VARIABLES
    file,      \* profiles.json
    cmd,       \* cmd[c]: where command c stands, and its local variables
    told,      \* told[n]: what the last save of n reported to have saved
    overlapped, \* names whose last save was reported while another command
               \* held what it had read before
    killed     \* commands killed so far

profileVars == <<file, cmd, told, overlapped, killed>>

NoFile == [is |-> "absent", config |-> NoProfiles]
Emptied == [is |-> "empty", config |-> NoProfiles]
Torn == [is |-> "torn", config |-> NoProfiles]
Whole(config) == [is |-> "whole", config |-> config]

\* load_profiles returns; json.load fails on a file emptied or torn.
Readable == file.is \in {"absent", "whole"}

\* op is what is done to the configuration, on the profile key; to is the new
\* name when one is renamed.  from is the old name, that an edit which renames
\* has still to remove.
Job == [pc : {"idle", "edit", "load", "open", "write"},
        op : {"none", "add", "remove", "rename", "default"},
        key : Name \cup {NoName},
        to : Name \cup {NoName},
        from : Name \cup {NoName},
        settings : Settings \cup {NoSettings},
        asDefault : BOOLEAN,
        config : Config]

Idle == [pc |-> "idle", op |-> "none", key |-> NoName, to |-> NoName,
         from |-> NoName, settings |-> NoSettings, asDefault |-> FALSE,
         config |-> NoProfiles]

ProfilesTypeOK ==
    /\ file \in [is : {"absent", "empty", "torn", "whole"}, config : Config]
    /\ cmd \in [Command -> Job]
    /\ told \in [Name -> Settings \cup {NoSettings}]
    /\ overlapped \subseteq Name
    /\ killed \in 0 .. MaxFaults

ProfilesInit ==
    /\ file \in {NoFile} \cup {Whole(c) : c \in Written}
    /\ cmd = [c \in Command |-> Idle]
    /\ told = [n \in Name |-> NoSettings]
    /\ overlapped = {}
    /\ killed = 0

-----------------------------------------------------------------------------
(* The commands begin.                                                     *)

Begin(c, job) ==
    /\ cmd[c].pc = "idle"
    /\ cmd' = [cmd EXCEPT ![c] = job]
    /\ UNCHANGED <<file, told, overlapped, killed>>

\* A profile that the command line adds has no permissions: it grants all.
CmdAddProfile(c, name, settings, asDefault) ==
    /\ settings \in Granting
    /\ Begin(c, [Idle EXCEPT !.pc = "load", !.op = "add", !.key = name,
                             !.settings = settings, !.asDefault = asDefault])

CmdRemoveProfile(c, name) ==
    Begin(c, [Idle EXCEPT !.pc = "load", !.op = "remove", !.key = name])

CmdSetDefault(c, name) ==
    Begin(c, [Idle EXCEPT !.pc = "load", !.op = "default", !.key = name])

CallRenameProfile(c, name, to) ==
    Begin(c, [Idle EXCEPT !.pc = "load", !.op = "rename", !.key = name,
                          !.to = to])

\* The old name is removed before the new one is saved.
BadCmdEditProfile(c, name, newName) ==
    /\ Readable
    /\ name \in Keys(file.config)
    /\ Begin(c, [Idle EXCEPT !.pc = "load",
                             !.op = IF newName = name THEN "add" ELSE "remove",
                             !.key = name,
                             !.from = IF newName = name THEN NoName ELSE newName,
                             !.settings = SettingsOf(file.config, name)])

\* The edited profile is read, and prompts and a connection test follow.
CmdEditProfile(c, name, newName) ==
    /\ Readable
    /\ name \in Keys(file.config)
    /\ Begin(c, [Idle EXCEPT !.pc = "edit", !.op = "add", !.key = newName,
                             !.from = IF newName = name THEN NoName ELSE name,
                             !.settings = SettingsOf(file.config, name)])

\* What was not edited is taken from what was read; the permissions always.
SubmitEdit(c, settings) ==
    /\ cmd[c].pc = "edit"
    /\ settings \in Granting <=> cmd[c].settings \in Granting
    /\ cmd' = [cmd EXCEPT ![c].pc = "load", ![c].settings = settings]
    /\ UNCHANGED <<file, told, overlapped, killed>>

AbandonEdit(c) ==
    /\ cmd[c].pc = "edit"
    /\ cmd' = [cmd EXCEPT ![c] = Idle]
    /\ UNCHANGED <<file, told, overlapped, killed>>

-----------------------------------------------------------------------------
(* Read, change, write.                                                    *)

Applies(job, config) ==
    \/ job.op = "add"
    \/ job.op \in {"remove", "default"} /\ job.key \in Keys(config)
    \/ /\ job.op = "rename"
       /\ job.key \in Keys(config)
       /\ job.to \notin Keys(config)

Changed(job, config) ==
    CASE job.op = "add" ->
            AddProfile(config, job.key, job.settings, job.asDefault)
      [] job.op = "remove" -> RemoveProfile(config, job.key)
      [] job.op = "rename" -> RenameProfile(config, job.key, job.to)
      [] OTHER -> SetDefaultProfile(config, job.key)

\* A file that does not parse is taken for one without profiles.
BadLoad(c) ==
    /\ cmd[c].pc = "load"
    /\ Applies(cmd[c], file.config)
    /\ cmd' = [cmd EXCEPT ![c].pc = "open",
                          ![c].config = Changed(cmd[c], file.config)]
    /\ UNCHANGED <<file, told, overlapped, killed>>

\* load_profiles, and what the function makes of it.
Load(c) ==
    /\ cmd[c].pc = "load"
    /\ Readable
    /\ Applies(cmd[c], file.config)
    /\ cmd' = [cmd EXCEPT ![c].pc = "open",
                          ![c].config = Changed(cmd[c], file.config)]
    /\ UNCHANGED <<file, told, overlapped, killed>>

\* The file does not parse, or it does not have what the command is about.
GiveUp(c) ==
    /\ cmd[c].pc = "load"
    /\ ~ (Readable /\ Applies(cmd[c], file.config))
    /\ cmd' = [cmd EXCEPT ![c] = Idle]
    /\ UNCHANGED <<file, told, overlapped, killed>>

\* open(config_path, "w") empties the file.
Open(c) ==
    /\ cmd[c].pc = "open"
    /\ file' = Emptied
    /\ cmd' = [cmd EXCEPT ![c].pc = "write"]
    /\ UNCHANGED <<told, overlapped, killed>>

\* What a reader finds once the text has landed.
Landed(config) ==
    {Whole(config)}
        \cup (IF file \in {Emptied, Whole(config)} THEN {} ELSE {Torn})

\* An edit that renames goes on to remove the old name.
AfterSave(job) ==
    IF job.from = NoName
    THEN Idle
    ELSE [Idle EXCEPT !.pc = "load", !.op = "remove", !.key = job.from,
                      !.to = job.key]

Reported(job) ==
    CASE job.op = "add" -> [told EXCEPT ![job.key] = job.settings]
      [] job.op = "remove" -> [told EXCEPT ![job.key] = NoSettings]
      [] job.op = "rename" ->
            [told EXCEPT ![job.key] = NoSettings,
                         ![job.to] = SettingsOf(job.config, job.to)]
      [] OTHER -> told

\* The names whose settings the job is about.
About(job) ==
    IF job.op \in {"add", "remove"} THEN {job.key}
    ELSE IF job.op = "rename" THEN {job.key, job.to}
    ELSE {}

\* What was read before is still to be written over whatever the file has.
Holds(job) == job.pc \in {"open", "write"}

\* json.dump, and the file is closed.
Write(c) ==
    /\ cmd[c].pc = "write"
    /\ file' \in Landed(cmd[c].config)
    /\ cmd' = [cmd EXCEPT ![c] = AfterSave(cmd[c])]
    /\ told' = Reported(cmd[c])
    /\ overlapped' = IF \E d \in Command \ {c} : Holds(cmd[d])
                     THEN overlapped \cup About(cmd[c])
                     ELSE overlapped \ About(cmd[c])
    /\ UNCHANGED killed

\* The command is killed, or the file cannot be written.
Kill(c) ==
    /\ killed < MaxFaults
    /\ cmd[c].pc # "idle"
    /\ cmd' = [cmd EXCEPT ![c] = Idle]
    /\ killed' = killed + 1
    /\ UNCHANGED <<file, told, overlapped>>

-----------------------------------------------------------------------------

CommandBegins(c) ==
    \E name \in Name :
        \/ CmdRemoveProfile(c, name)
        \/ CmdSetDefault(c, name)
        \/ \E s \in Settings, d \in BOOLEAN : CmdAddProfile(c, name, s, d)
        \/ \E other \in Name \ {name} : CallRenameProfile(c, name, other)
        \/ \E newName \in Name : CmdEditProfile(c, name, newName)

CommandGoesOn(c) ==
    \/ \E s \in Settings : SubmitEdit(c, s)
    \/ AbandonEdit(c)
    \/ Load(c)
    \/ GiveUp(c)
    \/ Open(c)
    \/ Write(c)
    \/ Kill(c)

ProfilesNext == \E c \in Command : CommandBegins(c) \/ CommandGoesOn(c)

ProfilesSpec == ProfilesInit /\ [][ProfilesNext]_profileVars
==============================================================================
