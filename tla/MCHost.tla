------------------------------- MODULE MCHost --------------------------------
(***************************************************************************)
(* Instances for TLC of the commands and starts on one host that share no  *)
(* file with each other: the profile commands one after the other, the     *)
(* skills of other agents, the secret key and the options of `serve`.      *)
(* They share no variable either, so interleaving them would show nothing  *)
(* more: the initial state says which of them moves.                       *)
(***************************************************************************)
EXTENDS MCProfiles, SkillFiles, SecretKey, ServeSettings

CONSTANTS codex, agents, agy, claude, shared, tree, flat, legacy,
          cli, reports, json, other, p1, p2, p3

\* codex and agents have one directory.
DirectoryOf ==
    [a \in {codex, agents, agy, claude} |->
        IF a \in {codex, agents} THEN shared
        ELSE IF a = agy THEN tree ELSE flat]

\* The second version has a skill more.
TwoVersions == <<{cli}, {cli, reports}>>

VARIABLE part

hostVars == <<part, profileVars, skillVars, keyVars, settingsVars>>

Profiles(A) == /\ part = "profiles" /\ A
               /\ UNCHANGED <<part, skillVars, keyVars, settingsVars>>
Skills(A) == /\ part = "skills" /\ A
             /\ UNCHANGED <<part, profileVars, keyVars, settingsVars>>
TheKey(A) == /\ part = "key" /\ A
             /\ UNCHANGED <<part, profileVars, skillVars, settingsVars>>
TheOptions(A) == /\ part = "settings" /\ A
                 /\ UNCHANGED <<part, profileVars, skillVars, keyVars>>

AnOption == CHOOSE o \in Options : TRUE

\* What does not move is in one of its initial states.
HostInit ==
    /\ part \in {"profiles", "skills", "key", "settings"}
    /\ ProfilesInit
    /\ part # "profiles" => file = NoFile
    /\ SkillInit
    /\ part # "skills" => disk[legacy][cli] = None /\ disk[flat][cli] = None
    /\ KeyInit
    /\ SettingsInit
    /\ part # "settings" => options = AnOption

HostNext ==
    \/ Profiles(ProfilesNext)
    \/ Skills(SkillNext)
    \/ TheKey(KeyNext)
    \/ TheOptions(SettingsNext)

\* Fair as KeyFairSpec and SettingsFairSpec are.
HostSpec ==
    /\ HostInit /\ [][HostNext]_hostVars
    /\ WF_hostVars(TheKey(DeleteAsAdvised))
    /\ \A p \in Process :
        WF_hostVars(TheKey(Start(p))) /\ WF_hostVars(TheKey(LoadOrCreateKey(p)))
    /\ WF_hostVars(TheOptions(Serve))
    /\ WF_hostVars(TheOptions(FollowAdvice))

\* The types, and what is known of a command that handles skills, of processes
\* that share the key, and of what serve advertises.
HostSound ==
    /\ ProfilesInductive
    /\ ReadableAtRest
    /\ OneInductive
    /\ SkillInductive
    /\ NothingReturns => UpgradesKnown
    /\ KeyInductive
    /\ OneKey
    /\ SettingsInductive

\* Recovers, when processes are started.
StartsRecover == part = "key" => Recovers
==============================================================================
