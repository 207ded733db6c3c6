----------------------------- MODULE HostProofs ------------------------------
(***************************************************************************)
(* What shares a host but no file: the secret key, the options of `serve`, *)
(* and both with the profile commands and the skills, as one               *)
(* specification.                                                          *)
(***************************************************************************)
EXTENDS MCHost, ProfileProofs, SkillProofs, TLAPS

-----------------------------------------------------------------------------
(* With a careful operator the key file is safe, for any number of         *)
(* processes, keys and kills: KeyInductive is inductive, and the secrets   *)
(* survive.                                                                *)


(* The values of a file are different, and a file with a key is whole.     *)
LEMMA FileValues ==
  /\ Absent.is = "absent" /\ Empty.is = "empty" /\ Absent # Empty
  /\ \A k \in Key : Holding(k).is = "whole" /\ Holding(k).key = k
                    /\ Holding(k) # Empty /\ Holding(k) # Absent
BY DEF Absent, Empty, Holding

(* A whole file has a key.                                                 *)
LEMMA WholeHasKey ==
  ASSUME KeyTypeOK, keyFile.is = "whole"
  PROVE  keyFile.key \in Key /\ keyFile = Holding(keyFile.key)
BY FileValues DEF KeyTypeOK

LEMMA KeyInitHolds == KeyInit => KeyInductive
<1> SUFFICES ASSUME KeyInit PROVE KeyInductive
  OBVIOUS
<1>1. /\ Down \in [pc : {"down", "look", "read", "create", "write", "up"},
                  key : Key \cup {NoKey}]
      /\ Down.pc = "down"
  BY DEF Down
<1>2. 0 \in 0 .. MaxKeys /\ 0 \in 0 .. MaxKills
  BY KeyConstants
<1>3. process \in [Process -> [pc : {"down", "look", "read", "create", "write", "up"},
                              key : Key \cup {NoKey}]]
  BY <1>1 DEF KeyInit
<1>4. KeyTypeOK
  BY <1>1, <1>2, <1>3 DEF KeyInit, KeyTypeOK
<1> QED
  BY <1>1, <1>4 DEF KeyInit, KeyInductive, SecretsSurvive

(* A process that goes to a place where it has no key yet, or down, keeps  *)
(* the invariant when the file stays as it is.                             *)
LEMMA KeylessStep ==
  ASSUME KeyInductive, NEW p \in Process,
         NEW where \in [pc : {"down", "look", "read", "create"},
                        key : Key \cup {NoKey}],
         process' = [process EXCEPT ![p] = where],
         keyFile' = keyFile, stored' = stored, advised' \in BOOLEAN,
         generated' = generated, kills' \in 0 .. MaxKills
  PROVE  KeyInductive'
<1>1. KeyTypeOK'
  BY DEF KeyInductive, KeyTypeOK
<1>2. \A q \in Process :
        process'[q] = process[q] \/ process'[q].pc \notin {"write", "up"}
  BY DEF KeyInductive, KeyTypeOK
<1> QED
  BY <1>1, <1>2 DEF KeyInductive, SecretsSurvive

(* Every step of the processes and of a careful operator keeps it.         *)
LEMMA KeyStep ==
  ASSUME Careful, KeyInductive, [KeyNext]_keyVars
  PROVE  KeyInductive'
<1>0. KeyTypeOK /\ MaxKills \in Nat /\ MaxKeys \in Nat
  BY KeyConstants DEF KeyInductive
<1>1. ASSUME NEW p \in Process, Start(p) PROVE KeyInductive'
  <2> DEFINE where == [process[p] EXCEPT !.pc = "look"]
  <2>1. where \in [pc : {"down", "look", "read", "create"}, key : Key \cup {NoKey}]
    BY <1>0 DEF KeyTypeOK
  <2>2. process' = [process EXCEPT ![p] = where]
    BY <1>1 DEF Start, Goes
  <2> HIDE DEF where
  <2> QED BY <1>0, <1>1, <2>1, <2>2, KeylessStep DEF Start, KeyTypeOK
<1>2. ASSUME NEW p \in Process, Look(p) PROVE KeyInductive'
  <2> DEFINE where == [process[p] EXCEPT
                         !.pc = IF keyFile.is = "absent" THEN "create" ELSE "read"]
  <2>1. where \in [pc : {"down", "look", "read", "create"}, key : Key \cup {NoKey}]
    BY <1>0 DEF KeyTypeOK
  <2>2. process' = [process EXCEPT ![p] = where]
    BY <1>2 DEF Look, Goes
  <2> HIDE DEF where
  <2> QED BY <1>0, <1>2, <2>1, <2>2, KeylessStep DEF Look, KeyTypeOK
<1>3. ASSUME NEW p \in Process, ReadKey(p) PROVE KeyInductive'
  <2>1. keyFile.key \in Key
    BY <1>0, <1>3, WholeHasKey DEF ReadKey
  <2>2. KeyTypeOK'
    BY <1>0, <1>3, <2>1 DEF ReadKey, KeyTypeOK
  <2>3. \A q \in Process : process'[q].pc = "write" => process[q].pc = "write"
    BY <1>0, <1>3 DEF ReadKey, KeyTypeOK
  <2> QED
    BY <1>0, <1>3, <2>2, <2>3 DEF ReadKey, KeyInductive, KeyTypeOK, SecretsSurvive
<1>4. ASSUME NEW p \in Process,
             ReadEmpty(p) \/ ReadGone(p) \/ CreateExists(p) \/ Stop(p)
      PROVE  KeyInductive'
  <2>1. /\ process' = [process EXCEPT ![p] = Down]
        /\ Down \in [pc : {"down", "look", "read", "create"}, key : Key \cup {NoKey}]
        /\ keyFile' = keyFile /\ stored' = stored /\ generated' = generated
        /\ advised' \in BOOLEAN /\ kills' \in 0 .. MaxKills
    <3>1. Down \in [pc : {"down", "look", "read", "create"}, key : Key \cup {NoKey}]
      BY DEF Down
    <3>2. kills + 1 \in 0 .. MaxKills \/ ~ kills < MaxKills
      BY <1>0 DEF KeyTypeOK
    <3>3. kills \in 0 .. MaxKills /\ advised \in BOOLEAN
      BY <1>0 DEF KeyTypeOK
    <3> QED
      BY <1>4, <3>1, <3>2, <3>3 DEF ReadEmpty, ReadGone, CreateExists, Stop, Ends
  <2> QED BY <2>1, KeylessStep
<1>5. ASSUME NEW p \in Process, CreateKey(p) PROVE KeyInductive'
  <2>1. generated' \in Key
    BY <1>0, <1>5 DEF CreateKey, KeyTypeOK, Key
  <2>2. KeyTypeOK'
    BY <1>0, <1>5, <2>1 DEF CreateKey, KeyTypeOK, Key
  <2>3. \A q \in Process : process[q].pc \notin {"write", "up"}
    BY <1>5, FileValues DEF CreateKey, KeyInductive
  <2>4. stored = {}
    BY <1>5 DEF CreateKey, KeyInductive, SecretsSurvive
  <2> QED
    BY <1>0, <1>5, <2>2, <2>3, <2>4
    DEF CreateKey, KeyInductive, KeyTypeOK, SecretsSurvive
<1>6. ASSUME NEW p \in Process, WriteKey(p) PROVE KeyInductive'
  <2>1. process[p].key \in Key /\ keyFile = Empty
    BY <1>0, <1>6 DEF WriteKey, KeyInductive, KeyTypeOK
  <2>2. KeyTypeOK'
    BY <1>0, <1>6, <2>1 DEF WriteKey, Goes, KeyTypeOK
  <2>3. \A q \in Process \ {p} : process[q].pc \notin {"write", "up"}
    BY <1>6, <2>1, FileValues DEF WriteKey, KeyInductive
  <2>4. stored = {}
    BY <2>1, FileValues DEF KeyInductive, SecretsSurvive
  <2>5. keyFile'.is = "whole" /\ keyFile'.key = process[p].key
    BY <1>6, <2>1, FileValues DEF WriteKey
  <2> QED
    BY <1>0, <1>6, <2>2, <2>3, <2>4, <2>5
    DEF WriteKey, Goes, KeyInductive, KeyTypeOK, SecretsSurvive
<1>7. ASSUME NEW p \in Process, StoreSecret(p) PROVE KeyInductive'
  <2>1. process[p].key \in Key /\ keyFile.is = "whole"
                               /\ keyFile.key = process[p].key
    BY <1>0, <1>7 DEF StoreSecret, KeyInductive, KeyTypeOK
  <2> QED
    BY <1>0, <1>7, <2>1 DEF StoreSecret, KeyInductive, KeyTypeOK, SecretsSurvive
<1>8. ASSUME DeleteAsAdvised PROVE KeyInductive'
  <2>1. keyFile.is = "empty"
    BY <1>8 DEF DeleteAsAdvised
  <2>2. stored = {}
    BY <2>1 DEF KeyInductive, SecretsSurvive
  <2>3. \A q \in Process : process[q].pc \notin {"write", "up"}
    BY <1>8, <2>1 DEF DeleteAsAdvised, KeyInductive
  <2> QED
    BY <1>0, <1>8, <2>2, <2>3
    DEF DeleteAsAdvised, KeyInductive, KeyTypeOK, SecretsSurvive
<1>9. CASE UNCHANGED keyVars
  BY <1>9 DEF keyVars, KeyInductive, KeyTypeOK, SecretsSurvive
<1> QED
  BY <1>1, <1>2, <1>3, <1>4, <1>5, <1>6, <1>7, <1>8, <1>9
  DEF KeyNext, LoadOrCreateKey

(* Whatever order processes start, stop and are killed in, there is at     *)
(* most one that writes a key, and those that are up have the one in the   *)
(* file.                                                                   *)
THEOREM KeysAreSafe ==
  ASSUME Careful
  PROVE  KeySpec => []KeyInductive
<1>1. KeyInductive /\ [KeyNext]_keyVars => KeyInductive'
  BY KeyStep
<1> QED BY KeyInitHolds, <1>1, PTL DEF KeySpec

(* The secrets in the database can be decrypted by the next process that   *)
(* starts, as long as the operator deletes empty files only.               *)
THEOREM SecretsAreKept ==
  ASSUME Careful
  PROVE  KeySpec => []SecretsSurvive
<1>1. KeyInductive => SecretsSurvive
  BY DEF KeyInductive
<1> QED BY <1>1, KeysAreSafe, PTL

(* Processes that are up agree on the key.                                 *)
THEOREM KeysAgree ==
  ASSUME Careful
  PROVE  KeySpec => []OneKey
<1>1. KeyInductive => OneKey
  BY DEF KeyInductive, OneKey
<1> QED BY <1>1, KeysAreSafe, PTL

(* A key that was written is neither replaced nor removed.                 *)
THEOREM KeyIsKept ==
  ASSUME Careful
  PROVE  KeySpec => KeyStays
<1>1. ASSUME KeyInductive, [KeyNext]_keyVars, keyFile.is = "whole"
      PROVE  keyFile' = keyFile
  <2>1. \A p \in Process : ~ CreateKey(p) /\ ~ WriteKey(p)
    BY <1>1, FileValues DEF CreateKey, WriteKey, KeyInductive
  <2>2. ~ DeleteAsAdvised
    BY <1>1 DEF DeleteAsAdvised
  <2> QED
    BY <1>1, <2>1, <2>2
    DEF KeyNext, keyVars, LoadOrCreateKey, Start, Look, ReadKey, ReadEmpty,
        ReadGone, CreateExists, StoreSecret, Stop
<1>2. KeyInductive /\ [KeyNext]_keyVars
        => [keyFile.is = "whole" => keyFile' = keyFile]_keyVars
  BY <1>1
<1> QED BY <1>2, KeysAreSafe, PTL DEF KeySpec, KeyStays

-----------------------------------------------------------------------------
(* The options of `serve`, for any paths and URLs.                         *)

LEMMA PathFacts ==
  /\ Root \in Path /\ DEFAULT_PATH \in Path
  /\ \A p \in Path : Stripped(p) \in Path /\ Stripped(p).name = p.name
BY SettingsConstants DEF Root, DEFAULT_PATH, Path, Stripped

(* NoUrl is told from a URL by its scheme.                                 *)
LEMMA UrlFacts ==
  /\ NoUrl \notin Url
  /\ NoUrl.path = Root
BY DEF NoUrl, Url

(* What is advertised is a URL, with the path that is served.              *)
LEMMA ResourceIsServed ==
  ASSUME SettingsTypeOK,
         ~ UrlRefused, ~ PathsDiffer, ~ PathMissing, ~ RuntimeRefused
  PROVE  /\ Served \in Path
         /\ ResourceUrl \in Url
         /\ ResourceUrl.path = Served
<1>1. /\ options.bind \in {"loopback", "other"}
      /\ options.auth \in {"oauth", "local"}
      /\ options.path \in Path
      /\ options.url \in Url \cup {NoUrl}
  BY DEF SettingsTypeOK
<1>2. Served \in Path
  BY <1>1, PathFacts DEF Served
<1>3. CASE options.url = NoUrl
  <2>1. options.auth = "local"
    BY <1>1, <1>3 DEF UrlRefused
  <2>2. options.bind = "loopback"
    BY <1>1, <2>1 DEF RuntimeRefused
  <2>3. ResourceUrl = [scheme |-> "http", host |-> "loopback", path |-> Served,
                       query |-> FALSE]
    BY <1>3, <2>2 DEF ResourceUrl, NoUrl
  <2> QED BY <1>2, <2>3 DEF Url
<1>4. CASE options.url # NoUrl
  <2>1. options.url \in Url
    BY <1>1, <1>4
  <2>2. PublicPath = Served \/ ~ HasPublicPath
    BY <1>4 DEF PathsDiffer
  <2>3. ResourceUrl = [options.url EXCEPT !.path = Served]
    BY <1>4, <2>2 DEF ResourceUrl
  <2> QED BY <1>2, <2>1, <2>3 DEF Url
<1> QED BY <1>2, <1>3, <1>4

LEMMA SettingsStart == SettingsInit => SettingsInductive
<1> SUFFICES ASSUME SettingsInit PROVE SettingsInductive
  OBVIOUS
<1> QED
  BY PathFacts
  DEF SettingsInit, SettingsInductive, SettingsTypeOK, ServedWhereAdvertised,
      Advised, Options, State

LEMMA SettingsStep ==
  SettingsInductive /\ [SettingsNext]_settingsVars => SettingsInductive'
<1> SUFFICES ASSUME SettingsInductive, [SettingsNext]_settingsVars
             PROVE  SettingsInductive'
  OBVIOUS
<1>0. SettingsTypeOK
  BY DEF SettingsInductive
<1>1. CASE Serve
  <2>1. CASE Refused("refused")
    BY <1>0, <1>1, <2>1
    DEF Serve, Refused, SettingsInductive, SettingsTypeOK, ServedWhereAdvertised,
        Advised, State
  <2>2. CASE \/ PathsDiffer /\ Refused("pass_path")
             \/ PathMissing /\ Refused("append_path")
    BY <1>0, <1>1, <2>2
    DEF Serve, Refused, PathsDiffer, PathMissing, SettingsInductive,
        SettingsTypeOK, ServedWhereAdvertised, State
  <2>3. CASE /\ ~ UrlRefused /\ ~ PathsDiffer /\ ~ PathMissing
             /\ ~ RuntimeRefused
             /\ state' = "up" /\ mounted' = Served /\ resource' = ResourceUrl
             /\ UNCHANGED options
    BY <1>0, <2>3, ResourceIsServed
    DEF SettingsInductive, SettingsTypeOK, ServedWhereAdvertised, Advised, State
  <2> QED BY <1>1, <2>1, <2>2, <2>3 DEF Serve
<1>2. CASE FollowAdvice
  <2>1. /\ options \in [bind : {"loopback", "other"}, auth : {"oauth", "local"},
                        path : Path, url : Url \cup {NoUrl}]
        /\ options.url \in Url
    BY <1>0, <1>2 DEF FollowAdvice, SettingsInductive, SettingsTypeOK
  <2>2. PublicPath \in Path /\ Served \in Path
    BY <2>1, PathFacts DEF PublicPath, Served, Url
  <2>3. [options.url EXCEPT !.path = Served] \in Url
    BY <2>1, <2>2 DEF Url
  <2>4. Advice \in [bind : {"loopback", "other"}, auth : {"oauth", "local"},
                    path : Path, url : Url \cup {NoUrl}]
    <3> DEFINE url == [options.url EXCEPT !.path = Served]
    <3>1. CASE state = "pass_path"
      BY <2>1, <2>2, <3>1 DEF Advice
    <3>2. CASE state # "pass_path"
      <4>1. Advice = [options EXCEPT !.url = url]
        BY <2>1, <3>2 DEF Advice
      <4> HIDE DEF url
      <4> QED BY <2>1, <2>3, <4>1 DEF url
    <3> QED BY <3>1, <3>2
  <2> QED
    BY <1>0, <1>2, <2>4
    DEF FollowAdvice, SettingsInductive, SettingsTypeOK, ServedWhereAdvertised,
        Advised, State
<1>3. CASE TryAgain
  BY <1>0, <1>3, PathFacts
  DEF TryAgain, SettingsInductive, SettingsTypeOK, ServedWhereAdvertised, Advised,
      State
<1>4. CASE UNCHANGED settingsVars
  BY <1>0, <1>4
  DEF settingsVars, SettingsInductive, SettingsTypeOK, ServedWhereAdvertised,
      Advised
<1> QED BY <1>1, <1>2, <1>3, <1>4 DEF SettingsNext

(* The options and the server are what the invariant says, however often   *)
(* the operator tries again.                                               *)
THEOREM SettingsAreSound == SettingsSpec => []SettingsInductive
<1> QED BY SettingsStart, SettingsStep, PTL DEF SettingsSpec

(* The path that is advertised is the one that is served                   *)
(* (HttpServeConfig), whatever slashes the options have.                   *)
THEOREM AdvertisedIsServed == SettingsSpec => []ServedWhereAdvertised
<1>1. SettingsInductive => ServedWhereAdvertised
  BY DEF SettingsInductive
<1> QED BY <1>1, SettingsAreSound, PTL

-----------------------------------------------------------------------------
(* The four of them in one specification, as TLC checks it.                *)

(* Each of them behaves as it does alone: they share nothing.              *)
LEMMA HostComposes ==
  HostSpec => ProfilesSpec /\ SkillSpec /\ KeySpec /\ SettingsSpec
<1>1. HostInit => ProfilesInit /\ SkillInit /\ KeyInit /\ SettingsInit
  BY DEF HostInit
<1>2. [HostNext]_hostVars
        => /\ [ProfilesNext]_profileVars /\ [SkillNext]_skillVars
           /\ [KeyNext]_keyVars /\ [SettingsNext]_settingsVars
  BY DEF HostNext, Profiles, Skills, TheKey, TheOptions, hostVars
<1>3. HostSpec => HostInit /\ [][HostNext]_hostVars
  BY PTL DEF HostSpec
<1> QED
  BY <1>1, <1>2, <1>3, PTL DEF ProfilesSpec, SkillSpec, KeySpec, SettingsSpec

(* What the run `host` checks of every state it finds: profile commands    *)
(* one at a time and not killed, a careful operator, any skills.           *)
THEOREM HostIsSound ==
  ASSUME Alone, Careful
  PROVE  HostSpec => []HostSound
<1>1. OneAtATime
  BY DEF Alone, OneAtATime
<1>2. ProfilesInductive /\ ReadableAtRest /\ OneInductive /\ SkillInductive
        /\ (NothingReturns => UpgradesKnown)
        /\ KeyInductive /\ OneKey /\ SettingsInductive
        => HostSound
  BY DEF HostSound
<1>3. ProfilesSpec => []OneInductive
  BY <1>1, OneCommandIsSound
<1>4. ProfilesSpec => []ReadableAtRest
  BY FileIsReadableAtRest
<1>5. KeySpec => []KeyInductive /\ []OneKey
  BY KeysAreSafe, KeysAgree
<1>6. SkillSpec => [](NothingReturns => UpgradesKnown)
  <2>1. CASE NothingReturns
    <3>1. SkillSpec => []UpgradesKnown
      BY <2>1, UpgradesAreKnown
    <3> QED BY <3>1, PTL
  <2>2. CASE ~ NothingReturns
    <3>1. NothingReturns => UpgradesKnown
      BY <2>2
    <3> QED BY <3>1, PTL
  <2> QED BY <2>1, <2>2
<1> QED
  BY <1>2, <1>3, <1>4, <1>5, <1>6, HostComposes, ProfilesAreSound, SkillsAreSound,
     SettingsAreSound, PTL
==============================================================================
