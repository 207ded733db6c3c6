---------------------------- MODULE ProfileConfig ----------------------------
(***************************************************************************)
(* What profiles.json holds (config.py): the profiles under their keys, in *)
(* the order of the dictionary, and the key of the default one, with what  *)
(* each function of the module makes of it.                                *)
(*                                                                         *)
(* Settings stands for the rest of a profile: the server, the credentials  *)
(* and the permissions.  The ones in Granting permit the operation that    *)
(* the model follows.                                                      *)
(*                                                                         *)
(* Definitions named Bad... are mutations, as in AuthStore.                *)
(***************************************************************************)
EXTENDS Naturals, SequencesExt

CONSTANTS
    Name,        \* names of profiles
    NoName,      \* None, where a name is optional
    Settings,    \* everything of a profile but its name
    NoSettings,  \* None, where a profile is optional
    Granting     \* the settings that permit the operation

ASSUME NoNameAssumption == NoName \notin Name
ASSUME SettingsAssumption ==
    Granting \subseteq Settings /\ NoSettings \notin Settings

\* The name that a profile carries is written apart from its key.
Entry == [key : Name, name : Name, settings : Settings]

Config == [profiles : Seq(Entry), default : Name \cup {NoName}]

NoProfiles == [profiles |-> <<>>, default |-> NoName]

Keys(config) == {config.profiles[i].key : i \in DOMAIN config.profiles}

Position(config, key) ==
    CHOOSE i \in DOMAIN config.profiles : config.profiles[i].key = key

\* config.profiles.get(key)
SettingsOf(config, key) ==
    IF key \in Keys(config)
    THEN config.profiles[Position(config, key)].settings
    ELSE NoSettings

-----------------------------------------------------------------------------

\* Assigning to a key that is there keeps its place in the dictionary.
AddProfile(config, key, settings, asDefault) ==
    LET entry == [key |-> key, name |-> key, settings |-> settings]
    IN [profiles |->
            IF key \in Keys(config)
            THEN ReplaceAt(config.profiles, Position(config, key), entry)
            ELSE Append(config.profiles, entry),
        default |->
            IF asDefault \/ config.default = NoName
            THEN key
            ELSE config.default]

\* The default stays where it was.
BadRemoveProfile(config, key) ==
    [config EXCEPT !.profiles = RemoveAt(@, Position(config, key))]

\* When the default goes, the first of the others takes its place.
RemoveProfile(config, key) ==
    LET left == RemoveAt(config.profiles, Position(config, key))
    IN [profiles |-> left,
        default |->
            IF config.default # key THEN config.default
            ELSE IF left = <<>> THEN NoName
            ELSE Head(left).key]

\* The default does not follow.
BadRenameProfile(config, key, to) ==
    LET moved == [config.profiles[Position(config, key)] EXCEPT !.key = to]
    IN [profiles |->
            Append(RemoveAt(config.profiles, Position(config, key)), moved),
        default |-> config.default]

\* The entry goes to the end under its new key; the name it carries stays.
RenameProfile(config, key, to) ==
    LET moved == [config.profiles[Position(config, key)] EXCEPT !.key = to]
    IN [profiles |->
            Append(RemoveAt(config.profiles, Position(config, key)), moved),
        default |-> IF config.default = key THEN to ELSE config.default]

SetDefaultProfile(config, key) == [config EXCEPT !.default = key]

-----------------------------------------------------------------------------

\* One entry for each key, as in any dictionary.
KeysDistinct(config) ==
    \A i, j \in DOMAIN config.profiles :
        config.profiles[i].key = config.profiles[j].key => i = j

\* There is a default exactly when there are profiles, and it is one of them.
HasDefault(config) ==
    IF config.profiles = <<>>
    THEN config.default = NoName
    ELSE config.default \in Keys(config)

Sound(config) == KeysDistinct(config) /\ HasDefault(config)
==============================================================================
