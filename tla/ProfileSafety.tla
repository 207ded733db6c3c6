---------------------------- MODULE ProfileSafety ----------------------------
(***************************************************************************)
(* What the profile commands guarantee, alone and together.                *)
(***************************************************************************)
EXTENDS ProfileFile

\* The configuration that the file holds, or is about to hold: a command that
\* is alone has changed it when it empties the file.
Current ==
    IF file.is = "empty"
    THEN cmd[CHOOSE c \in Command : cmd[c].pc = "write"].config
    ELSE file.config

SavedProfiles == [n \in Name |-> SettingsOf(Current, n)]

Registry == INSTANCE ProfileRegistry
                WITH saved <- SavedProfiles, default <- Current.default

-----------------------------------------------------------------------------

\* Commands that run one after the other, none of them killed, carry out the
\* registry: each load, change and save of config.py is one change of the
\* profile that the command names, though the file is empty in between.
KeepsRegistry == Registry!Spec

\* However commands interleave, and wherever they are killed, a file that can
\* be read has a default profile exactly when it has profiles, and the default
\* is one of them: a tool call without a profile always finds one.
DefaultIsKnown == file.is = "whole" => Sound(file.config)

\* The file is unreadable (load_profiles raises) only while a command is
\* writing it, as long as there is one command at a time and none is killed.
ReadableAtRest == Readable \/ \E c \in Command : cmd[c].pc = "write"

\* A profile that a command reported as saved (cli.py: "saved successfully")
\* is in the file, as it was saved, until it is reported as changed or removed:
\* whatever other commands run, and wherever they are killed.  The one save
\* that may get lost is one reported while another command held what it had
\* read before (load_profiles and save_profiles, without a lock).
SavedStays ==
    file.is = "whole" =>
        \A n \in Name \ overlapped :
            told[n] \in {NoSettings, SettingsOf(file.config, n)}

\* The names that an edit which renames has to do with, while it saves the new
\* one and while it then removes the old one.
RenamedBy(job) ==
    IF job.op = "add" /\ job.from # NoName THEN {job.key, job.from}
    ELSE IF job.op = "remove" /\ job.to # NoName THEN {job.key, job.to}
    ELSE {}

\* An edit that renames (cmd_edit_profile) never leaves a file that has the
\* profile under neither name: a command that dies between saving the new name
\* and removing the old one leaves both.
EditKeepsProfile ==
    \A c \in Command :
        (file.is = "whole" /\ RenamedBy(cmd[c]) # {})
            => RenamedBy(cmd[c]) \cap Keys(file.config) # {}

-----------------------------------------------------------------------------
(* The invariant behind DefaultIsKnown.                                    *)

\* What a command that is under way knows.
JobKnown(job) ==
    /\ job.pc # "idle" => job.key \in Name /\ job.op # "none"
    /\ (job.pc # "idle" /\ job.op = "add") => job.settings \in Settings
    /\ job.op = "rename" => job.to \in Name

\* The file, and every configuration on its way into it, are sound: a command
\* writes what it made of a file that it read when that was whole.
ProfilesInductive ==
    /\ ProfilesTypeOK
    /\ Sound(file.config)
    /\ \A c \in Command :
        /\ JobKnown(cmd[c])
        /\ Sound(cmd[c].config)

-----------------------------------------------------------------------------
(* The invariant behind KeepsRegistry: one command at a time, none killed.  *)

\* The file is empty while the command writes, and what the command is about
\* to write is what it made of the file as it is.
AloneInductive ==
    /\ ProfilesInductive
    /\ file.is # "torn"
    /\ file.is = "empty" => file = Emptied
    /\ \A c \in Command :
        /\ cmd[c].pc = "write" <=> file.is = "empty"
        /\ cmd[c].pc = "open"
            => /\ Applies(cmd[c], file.config)
               /\ cmd[c].config = Changed(cmd[c], file.config)
    /\ file.is = "empty" => Command # {}

-----------------------------------------------------------------------------
(* The invariant behind SavedStays, for any number of commands.             *)

\* Of the names, what was reported as saved is in the configuration.
ToldTruly(names, config) ==
    \A n \in names : told[n] \in {NoSettings, SettingsOf(config, n)}

\* The file has all that was reported, and so has what a command makes of it,
\* but for what that command is about and what others reported since it read.
SavesInductive ==
    /\ ProfilesInductive
    /\ file.is \in {"absent", "whole"}
        => ToldTruly(Name \ overlapped, file.config)
    /\ \A c \in Command :
        Holds(cmd[c])
            => /\ ToldTruly(Name \ (overlapped \cup About(cmd[c])),
                            cmd[c].config)
               /\ cmd[c].op = "add"
                    => SettingsOf(cmd[c].config, cmd[c].key) = cmd[c].settings

-----------------------------------------------------------------------------
(* The invariant behind EditKeepsProfile: one command at a time, which may  *)
(* be killed wherever it stands.                                           *)

\* An edit that renames has the old name in the file until it has saved the new
\* one, and that one while it removes the old.
EditKnown(job, config) ==
    /\ job.op = "add" /\ job.from # NoName => job.from \in Keys(config)
    /\ job.op = "remove" /\ job.to # NoName => job.to \in Keys(config)

\* A command writes into a file that it emptied itself; a file that nobody
\* fills any more stays empty, and no command gets past it.
OneInductive ==
    /\ ProfilesInductive
    /\ file.is # "torn"
    /\ file.is = "empty" => file = Emptied
    /\ \A c \in Command :
        /\ cmd[c].from # NoName => cmd[c].op = "add"
        /\ cmd[c].pc = "open"
            => /\ file.is # "empty"
               /\ Applies(cmd[c], file.config)
               /\ cmd[c].config = Changed(cmd[c], file.config)
        /\ cmd[c].pc = "write"
            => /\ file.is = "empty"
               /\ cmd[c].op = "add"
                    => SettingsOf(cmd[c].config, cmd[c].key) = cmd[c].settings
        /\ file.is # "empty" => EditKnown(cmd[c], file.config)
==============================================================================
