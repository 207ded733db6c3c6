---------------------------- MODULE ProfileProofs ----------------------------
(***************************************************************************)
(* Proofs about the profile commands: types, a default that exists, and    *)
(* that commands which run alone implement the registry of profiles.       *)
(***************************************************************************)
EXTENDS ProfileSafety, SequenceTheorems, TLAPS

\* What SequencesExt!RemoveAt leaves of a sequence.
LEMMA RemoveAtLeaves ==
    ASSUME NEW S, NEW s \in Seq(S), NEW i \in DOMAIN s
    PROVE  /\ RemoveAt(s, i) \in Seq(S)
           /\ Len(RemoveAt(s, i)) = Len(s) - 1
           /\ DOMAIN RemoveAt(s, i) = 1 .. Len(s) - 1
           /\ \A j \in 1 .. Len(s) - 1 :
                RemoveAt(s, i)[j] = IF j < i THEN s[j] ELSE s[j + 1]
  <1>1. i \in 1 .. Len(s)
    OBVIOUS
  <1>2. /\ SubSeq(s, 1, i - 1) \in Seq(S)
        /\ Len(SubSeq(s, 1, i - 1)) = i - 1
        /\ \A j \in 1 .. i - 1 : SubSeq(s, 1, i - 1)[j] = s[j]
    BY <1>1
  <1>3. /\ SubSeq(s, i + 1, Len(s)) \in Seq(S)
        /\ Len(SubSeq(s, i + 1, Len(s))) = Len(s) - i
        /\ \A j \in 1 .. Len(s) - i : SubSeq(s, i + 1, Len(s))[j] = s[i + j]
    <2>1. \A j \in i + 1 .. Len(s) : s[j] \in S
      BY <1>1
    <2>2. i + 1 \in Int /\ Len(s) \in Int
      BY <1>1
    <2> QED
      BY <1>1, <2>1, <2>2, SubSeqProperties
  <1> DEFINE a == SubSeq(s, 1, i - 1)
  <1> DEFINE b == SubSeq(s, i + 1, Len(s))
  <1>4. RemoveAt(s, i) = a \o b
    BY DEF RemoveAt
  <1> HIDE DEF a, b
  <1>5. /\ a \o b \in Seq(S)
        /\ Len(a \o b) = Len(a) + Len(b)
        /\ \A j \in 1 .. Len(a) + Len(b) :
              (a \o b)[j] = IF j <= Len(a) THEN a[j] ELSE b[j - Len(a)]
    BY <1>2, <1>3, ConcatProperties DEF a, b
  <1>6. /\ Len(s) \in Nat
        /\ Len(a) = i - 1
        /\ \A j \in 1 .. i - 1 : a[j] = s[j]
    BY <1>2 DEF a
  <1>b. /\ Len(b) = Len(s) - i
        /\ \A j \in 1 .. Len(s) - i : b[j] = s[i + j]
    BY <1>3 DEF b
  <1>7. ASSUME NEW j \in 1 .. Len(s) - 1
        PROVE  (a \o b)[j] = IF j < i THEN s[j] ELSE s[j + 1]
    <2>1. CASE j < i
      <3>1. (a \o b)[j] = a[j]
        BY <2>1, <1>1, <1>5, <1>6, <1>b
      <3> QED
        BY <3>1, <2>1, <1>1, <1>6
    <2>2. CASE ~ (j < i)
      <3>1. (a \o b)[j] = b[j - (i - 1)]
        <4>1. j \in 1 .. Len(a) + Len(b)
          BY <1>1, <1>6, <1>b
        <4>2. ~ (j <= Len(a))
          BY <2>2, <1>1, <1>6
        <4>3. (a \o b)[j] = b[j - Len(a)]
          BY <4>1, <4>2, <1>5
        <4> QED
          BY <4>3, <1>6
      <3>2. b[j - (i - 1)] = s[i + (j - (i - 1))]
        <4>1. j - (i - 1) \in 1 .. Len(s) - i
          BY <2>2, <1>1, <1>6
        <4> QED
          BY <4>1, <1>b
      <3>3. i + (j - (i - 1)) = j + 1
        BY <1>1, <1>6
      <3> QED
        BY <3>1, <3>2, <3>3, <2>2
    <2> QED
      BY <2>1, <2>2
  <1>8. Len(a \o b) = Len(s) - 1
    BY <1>1, <1>5, <1>6, <1>b
  <1> QED
    BY <1>4, <1>5, <1>7, <1>8

\* The place of a key that is there.
LEMMA PositionOfKey ==
    ASSUME NEW config \in Config, NEW key \in Keys(config)
    PROVE  /\ Position(config, key) \in DOMAIN config.profiles
           /\ config.profiles[Position(config, key)].key = key
  <1>1. \E i \in DOMAIN config.profiles : config.profiles[i].key = key
    BY DEF Keys
  <1> QED
    BY <1>1 DEF Position

\* The keys of a configuration are names.
LEMMA KeysAreNames ==
    ASSUME NEW config \in Config
    PROVE  Keys(config) \subseteq Name
  <1>1. \A i \in DOMAIN config.profiles : config.profiles[i] \in Entry
    BY DEF Config
  <1> QED
    BY <1>1 DEF Entry, Keys

\* What a key is found to stand for: settings, if it is there.
LEMMA SettingsFound ==
    ASSUME NEW config \in Config, NEW key
    PROVE  /\ SettingsOf(config, key) \in Settings \cup {NoSettings}
           /\ key \in Keys(config) => SettingsOf(config, key) \in Settings
  <1>1. \A i \in DOMAIN config.profiles : config.profiles[i] \in Entry
    BY DEF Config
  <1>2. CASE key \in Keys(config)
    BY <1>1, <1>2, PositionOfKey DEF SettingsOf, Entry
  <1>3. CASE key \notin Keys(config)
    BY <1>3 DEF SettingsOf
  <1> QED
    BY <1>2, <1>3

\* With distinct keys, what stands at a place is what its key stands for.
LEMMA SettingsAt ==
    ASSUME NEW config, config.profiles \in Seq(Entry), KeysDistinct(config),
           NEW i \in DOMAIN config.profiles
    PROVE  SettingsOf(config, config.profiles[i].key)
             = config.profiles[i].settings
  <1> DEFINE key == config.profiles[i].key
  <1>1. key \in Keys(config)
    BY DEF Keys
  <1>2. /\ Position(config, key) \in DOMAIN config.profiles
        /\ config.profiles[Position(config, key)].key = key
    BY DEF Position
  <1>3. Position(config, key) = i
    BY <1>2 DEF KeysDistinct
  <1> QED
    BY <1>1, <1>3 DEF SettingsOf

-----------------------------------------------------------------------------
(* What becomes of the keys and the settings when the list of profiles      *)
(* changes at one place.                                                    *)

\* An entry is removed: its key goes, and the others keep what they had.
LEMMA WithoutKey ==
    ASSUME NEW config \in Config, KeysDistinct(config),
           NEW key \in Keys(config), NEW rest,
           rest.profiles = RemoveAt(config.profiles, Position(config, key))
    PROVE  /\ rest.profiles \in Seq(Entry)
           /\ KeysDistinct(rest)
           /\ Keys(rest) = Keys(config) \ {key}
           /\ \A k \in Name \ {key} :
                SettingsOf(rest, k) = SettingsOf(config, k)
  <1> DEFINE old == config.profiles
  <1> DEFINE p == Position(config, key)
  <1> DEFINE n == Len(old)
  <1> DEFINE left == rest.profiles
  <1>1. old \in Seq(Entry) /\ n \in Nat /\ DOMAIN old = 1 .. n
    BY DEF Config
  <1>2. p \in 1 .. n /\ old[p].key = key
    BY <1>1, PositionOfKey
  <1>3. /\ left \in Seq(Entry)
        /\ DOMAIN left = 1 .. n - 1
        /\ \A j \in 1 .. n - 1 : left[j] = IF j < p THEN old[j] ELSE old[j + 1]
    BY <1>1, <1>2, RemoveAtLeaves
  <1>4. \A i, j \in 1 .. n : old[i].key = old[j].key => i = j
    BY <1>1 DEF KeysDistinct
  <1> HIDE DEF old, p, n, left
  <1>5. \A j \in 1 .. n - 1 :
          \E i \in 1 .. n \ {p} : i = (IF j < p THEN j ELSE j + 1) /\ left[j] = old[i]
    BY <1>1, <1>2, <1>3
  <1>6. \A i \in 1 .. n \ {p} :
          \E j \in 1 .. n - 1 : left[j] = old[i]
    <2> TAKE i \in 1 .. n \ {p}
    <2>1. CASE i < p
      <3>1. i \in 1 .. n - 1
        BY <2>1, <1>1, <1>2
      <3> QED
        BY <3>1, <2>1, <1>3
    <2>2. CASE i > p
      <3>1. i - 1 \in 1 .. n - 1 /\ ~ (i - 1 < p) /\ (i - 1) + 1 = i
        BY <2>2, <1>1, <1>2
      <3> QED
        BY <3>1, <1>3
    <2> QED
      BY <2>1, <2>2, <1>1, <1>2
  <1>7. \A i, j \in 1 .. n - 1 : left[i].key = left[j].key => i = j
    <2> TAKE i, j \in 1 .. n - 1
    <2> HAVE left[i].key = left[j].key
    <2> DEFINE at(m) == IF m < p THEN m ELSE m + 1
    <2>1. at(i) \in 1 .. n /\ at(j) \in 1 .. n
      BY <1>1, <1>2
    <2>2. left[i] = old[at(i)] /\ left[j] = old[at(j)]
      BY <1>3
    <2>3. at(i) = at(j)
      BY <2>1, <2>2, <1>4
    <2> QED
      BY <2>3, <1>1, <1>2
  <1>8. Keys(config) = {old[i].key : i \in 1 .. n}
    BY <1>1 DEF Keys, old
  <1>9. Keys(rest) = {left[j].key : j \in 1 .. n - 1}
    BY <1>3 DEF Keys, left
  <1>10. Keys(rest) = Keys(config) \ {key}
    <2>1. \A i \in 1 .. n \ {p} : old[i].key # key
      BY <1>2, <1>4
    <2>2. Keys(rest) \subseteq Keys(config) \ {key}
      BY <1>5, <1>8, <1>9, <2>1
    <2>3. ASSUME NEW k \in Keys(config) \ {key}
          PROVE  k \in Keys(rest)
      <3>1. PICK i \in 1 .. n : old[i].key = k
        BY <1>8
      <3>2. i \in 1 .. n \ {p}
        BY <3>1, <1>2
      <3>3. PICK j \in 1 .. n - 1 : left[j] = old[i]
        BY <3>2, <1>6
      <3> QED
        BY <3>1, <3>3, <1>9
    <2> QED
      BY <2>2, <2>3
  <1>11. KeysDistinct(rest)
    BY <1>3, <1>7 DEF KeysDistinct, left
  <1>12. ASSUME NEW k \in Name \ {key}
         PROVE  SettingsOf(rest, k) = SettingsOf(config, k)
    <2>1. CASE k \in Keys(rest)
      <3>1. PICK j \in 1 .. n - 1 : left[j].key = k
        BY <2>1, <1>9
      <3>2. PICK i \in 1 .. n : left[j] = old[i]
        BY <1>5
      <3>3. SettingsOf(rest, k) = left[j].settings
        BY <3>1, <1>3, <1>11, SettingsAt DEF left
      <3>4. SettingsOf(config, k) = old[i].settings
        BY <3>1, <3>2, <1>1, SettingsAt DEF old
      <3> QED
        BY <3>2, <3>3, <3>4
    <2>2. CASE k \notin Keys(rest)
      BY <2>2, <1>10 DEF SettingsOf
    <2> QED
      BY <2>1, <2>2
  <1> QED
    BY <1>3, <1>10, <1>11, <1>12 DEF left

\* An entry with a new key comes last: the others keep what they had.
LEMMA WithKey ==
    ASSUME NEW config, config.profiles \in Seq(Entry), KeysDistinct(config),
           NEW entry \in Entry, entry.key \notin Keys(config), NEW more,
           more.profiles = Append(config.profiles, entry)
    PROVE  /\ more.profiles \in Seq(Entry)
           /\ more.profiles # <<>>
           /\ KeysDistinct(more)
           /\ Keys(more) = Keys(config) \cup {entry.key}
           /\ SettingsOf(more, entry.key) = entry.settings
           /\ \A k \in Name \ {entry.key} :
                SettingsOf(more, k) = SettingsOf(config, k)
  <1> DEFINE old == config.profiles
  <1> DEFINE new == more.profiles
  <1> DEFINE n == Len(old)
  <1>1. /\ n \in Nat
        /\ DOMAIN old = 1 .. n
        /\ new \in Seq(Entry)
        /\ DOMAIN new = 1 .. n + 1
        /\ \A i \in 1 .. n : new[i] = old[i]
        /\ new[n + 1] = entry
    OBVIOUS
  <1> HIDE DEF old, new, n
  <1>2. Keys(config) = {old[i].key : i \in 1 .. n}
    BY <1>1 DEF Keys, old
  <1>3. Keys(more) = {new[i].key : i \in 1 .. n + 1}
    BY <1>1 DEF Keys, new
  <1>4. \A i \in 1 .. n + 1 : i \in 1 .. n \/ i = n + 1
    BY <1>1
  <1>5. Keys(more) = Keys(config) \cup {entry.key}
    BY <1>1, <1>2, <1>3, <1>4
  <1>6. \A i, j \in 1 .. n : old[i].key = old[j].key => i = j
    BY <1>1 DEF KeysDistinct, old
  <1>7. \A i \in 1 .. n : old[i].key # entry.key
    BY <1>2
  <1>8. KeysDistinct(more)
    <2>1. \A i, j \in 1 .. n + 1 : new[i].key = new[j].key => i = j
      BY <1>1, <1>4, <1>6, <1>7
    <2> QED
      BY <2>1, <1>1 DEF KeysDistinct, new
  <1>9. SettingsOf(more, entry.key) = entry.settings
    <2>1. n + 1 \in DOMAIN new
      BY <1>1
    <2> QED
      BY <2>1, <1>1, <1>8, SettingsAt DEF new
  <1>10. ASSUME NEW k \in Name \ {entry.key}
         PROVE  SettingsOf(more, k) = SettingsOf(config, k)
    <2>1. CASE k \in Keys(config)
      <3>1. PICK i \in 1 .. n : old[i].key = k
        BY <2>1, <1>2
      <3>2. i \in DOMAIN new /\ i \in DOMAIN old /\ new[i] = old[i]
        BY <1>1
      <3>3. SettingsOf(more, k) = new[i].settings
        BY <3>1, <3>2, <1>1, <1>8, SettingsAt DEF new
      <3>4. SettingsOf(config, k) = old[i].settings
        BY <3>1, <3>2, SettingsAt DEF old
      <3> QED
        BY <3>2, <3>3, <3>4
    <2>2. CASE k \notin Keys(config)
      BY <2>2, <1>5 DEF SettingsOf
    <2> QED
      BY <2>1, <2>2
  <1>11. new # <<>>
    BY <1>1
  <1> QED
    BY <1>1, <1>5, <1>8, <1>9, <1>10, <1>11 DEF new

\* An entry is replaced under its key: the others keep what they had.
LEMMA ReplacedKey ==
    ASSUME NEW config \in Config, KeysDistinct(config), NEW entry \in Entry,
           entry.key \in Keys(config), NEW new,
           new.profiles = ReplaceAt(config.profiles,
                                    Position(config, entry.key), entry)
    PROVE  /\ new.profiles \in Seq(Entry)
           /\ new.profiles # <<>>
           /\ KeysDistinct(new)
           /\ Keys(new) = Keys(config)
           /\ SettingsOf(new, entry.key) = entry.settings
           /\ \A k \in Name \ {entry.key} :
                SettingsOf(new, k) = SettingsOf(config, k)
  <1> DEFINE old == config.profiles
  <1> DEFINE p == Position(config, entry.key)
  <1> DEFINE list == new.profiles
  <1>1. list = [old EXCEPT ![p] = entry]
    BY DEF ReplaceAt
  <1>2. p \in DOMAIN old /\ old[p].key = entry.key
    BY PositionOfKey
  <1>3. old \in Seq(Entry)
    BY DEF Config
  <1> HIDE DEF old, p, list
  <1>4. /\ list \in Seq(Entry)
        /\ DOMAIN list = DOMAIN old
        /\ list[p] = entry
        /\ \A i \in DOMAIN old \ {p} : list[i] = old[i]
    BY <1>1, <1>2, <1>3
  <1>5. \A i \in DOMAIN old : list[i].key = old[i].key
    BY <1>2, <1>4
  <1>6. Keys(new) = Keys(config)
    <2>1. Keys(new) = {list[i].key : i \in DOMAIN old}
      BY <1>4 DEF Keys, list
    <2>2. Keys(config) = {old[i].key : i \in DOMAIN old}
      BY DEF Keys, old
    <2> QED
      BY <2>1, <2>2, <1>5
  <1>7. KeysDistinct(new)
    BY <1>4, <1>5 DEF KeysDistinct, list, old
  <1>8. SettingsOf(new, entry.key) = entry.settings
    BY <1>2, <1>4, <1>7, SettingsAt DEF list
  <1>9. ASSUME NEW k \in Name \ {entry.key}
        PROVE  SettingsOf(new, k) = SettingsOf(config, k)
    <2>1. CASE k \in Keys(config)
      <3>1. PICK i \in DOMAIN old : old[i].key = k
        BY <2>1 DEF Keys, old
      <3>2. list[i] = old[i]
        BY <3>1, <1>2, <1>4
      <3>3. SettingsOf(new, k) = list[i].settings
        BY <3>1, <3>2, <1>4, <1>7, SettingsAt DEF list
      <3>4. SettingsOf(config, k) = old[i].settings
        BY <3>1, <1>3, SettingsAt DEF old
      <3> QED
        BY <3>2, <3>3, <3>4
    <2>2. CASE k \notin Keys(config)
      BY <2>2, <1>6 DEF SettingsOf
    <2> QED
      BY <2>1, <2>2
  <1>10. list # <<>>
    BY <1>2, <1>3, <1>4
  <1> QED
    BY <1>4, <1>6, <1>7, <1>8, <1>9, <1>10 DEF list

-----------------------------------------------------------------------------
(* What each function of config.py makes of a configuration.               *)

\* A saved profile stands under its name, the others stay, and there is a
\* default (add_profile).
LEMMA AddKeeps ==
    ASSUME NEW config \in Config, Sound(config), NEW key \in Name,
           NEW settings \in Settings, NEW asDefault \in BOOLEAN,
           NEW new, new = AddProfile(config, key, settings, asDefault)
    PROVE  /\ new \in Config
           /\ Sound(new)
           /\ SettingsOf(new, key) = settings
           /\ \A k \in Name \ {key} :
                SettingsOf(new, k) = SettingsOf(config, k)
           /\ new.default \in {key, config.default}
           /\ config.default = NoName => new.default = key
  <1> DEFINE entry == [key |-> key, name |-> key, settings |-> settings]
  <1>1. entry \in Entry /\ entry.key = key /\ entry.settings = settings
    BY DEF Entry
  <1>2. /\ new.profiles =
              IF key \in Keys(config)
              THEN ReplaceAt(config.profiles, Position(config, key), entry)
              ELSE Append(config.profiles, entry)
        /\ new.default =
              IF asDefault \/ config.default = NoName
              THEN key ELSE config.default
        /\ new = [profiles |-> new.profiles, default |-> new.default]
    BY DEF AddProfile
  <1> HIDE DEF entry
  <1>3. config.profiles \in Seq(Entry) /\ KeysDistinct(config)
    BY DEF Config, Sound
  <1>4. /\ new.profiles \in Seq(Entry)
        /\ new.profiles # <<>>
        /\ KeysDistinct(new)
        /\ Keys(new) = Keys(config) \cup {key}
        /\ SettingsOf(new, key) = settings
        /\ \A k \in Name \ {key} : SettingsOf(new, k) = SettingsOf(config, k)
    <2>1. CASE key \in Keys(config)
      <3>1. new.profiles =
              ReplaceAt(config.profiles, Position(config, entry.key), entry)
        BY <1>1, <1>2, <2>1
      <3> QED
        BY <1>1, <1>3, <2>1, <3>1, ReplacedKey
    <2>2. CASE key \notin Keys(config)
      <3>1. new.profiles = Append(config.profiles, entry)
        BY <1>2, <2>2
      <3> QED
        BY <1>1, <1>3, <2>2, <3>1, WithKey
    <2> QED
      BY <2>1, <2>2
  <1>5. config.default \in Keys(config) \cup {NoName}
    BY DEF Sound, HasDefault
  <1>6. new.default \in Keys(new)
    BY <1>2, <1>4, <1>5
  <1>7. new.default \in Name \cup {NoName}
    BY <1>2 DEF Config
  <1> QED
    BY <1>2, <1>4, <1>6, <1>7 DEF Config, Sound, HasDefault

\* A removed profile is gone, the others stay, and one of them is the default
\* if there are any (remove_profile).
LEMMA RemoveKeeps ==
    ASSUME NEW config \in Config, Sound(config), NEW key \in Keys(config),
           NEW new, new = RemoveProfile(config, key)
    PROVE  /\ new \in Config
           /\ Sound(new)
           /\ SettingsOf(new, key) = NoSettings
           /\ \A k \in Name \ {key} :
                SettingsOf(new, k) = SettingsOf(config, k)
           /\ config.default # key => new.default = config.default
  <1> DEFINE left == RemoveAt(config.profiles, Position(config, key))
  <1>1. /\ new.profiles = left
        /\ new.default = IF config.default # key THEN config.default
                         ELSE IF left = <<>> THEN NoName
                         ELSE Head(left).key
        /\ new = [profiles |-> new.profiles, default |-> new.default]
    BY DEF RemoveProfile
  <1>2. /\ new.profiles \in Seq(Entry)
        /\ KeysDistinct(new)
        /\ Keys(new) = Keys(config) \ {key}
        /\ \A k \in Name \ {key} : SettingsOf(new, k) = SettingsOf(config, k)
    BY <1>1, WithoutKey DEF Sound
  <1> HIDE DEF left
  <1>3. SettingsOf(new, key) = NoSettings
    BY <1>2 DEF SettingsOf
  <1>4. left # <<>> => 1 \in DOMAIN left /\ Head(left) = left[1]
    BY <1>1, <1>2
  <1>5. config.default \in Keys(config)
    <2>1. config.profiles # <<>>
      BY DEF Keys
    <2> QED
      BY <2>1 DEF Sound, HasDefault
  <1>6. HasDefault(new)
    <2>1. CASE config.default # key
      <3>1. new.default \in Keys(new)
        BY <1>1, <1>2, <1>5, <2>1
      <3>2. new.profiles # <<>>
        BY <3>1 DEF Keys
      <3> QED
        BY <3>1, <3>2 DEF HasDefault
    <2>2. CASE config.default = key
      <3>1. CASE left = <<>>
        BY <1>1, <2>2, <3>1 DEF HasDefault
      <3>2. CASE left # <<>>
        <4>1. new.default = left[1].key
          BY <1>1, <1>4, <2>2, <3>2
        <4>2. left[1].key \in Keys(new)
          BY <1>1, <1>4, <3>2 DEF Keys
        <4> QED
          BY <1>1, <3>2, <4>1, <4>2 DEF HasDefault
      <3> QED
        BY <3>1, <3>2
    <2> QED
      BY <2>1, <2>2
  <1>7. new.default \in Name \cup {NoName}
    <2>1. left \in Seq(Entry)
      BY <1>1, <1>2
    <2>2. left # <<>> => Head(left).key \in Name
      <3>1. \A i \in DOMAIN left : left[i] \in Entry
        BY <2>1
      <3> QED
        BY <1>4, <3>1 DEF Entry
    <2> QED
      BY <1>1, <2>2 DEF Config
  <1> QED
    BY <1>1, <1>2, <1>3, <1>6, <1>7 DEF Config, Sound

\* A renamed profile stands under its new name only, and the default follows
\* it (rename_profile).
LEMMA RenameKeeps ==
    ASSUME NEW config \in Config, Sound(config), NEW key \in Keys(config),
           NEW to \in Name, to \notin Keys(config),
           NEW new, new = RenameProfile(config, key, to)
    PROVE  /\ new \in Config
           /\ Sound(new)
           /\ SettingsOf(new, key) = NoSettings
           /\ SettingsOf(new, to) = SettingsOf(config, key)
           /\ \A k \in Name \ {key, to} :
                SettingsOf(new, k) = SettingsOf(config, k)
           /\ new.default =
                IF config.default = key THEN to ELSE config.default
  <1> DEFINE p == Position(config, key)
  <1> DEFINE moved == [config.profiles[p] EXCEPT !.key = to]
  <1> DEFINE rest == [profiles |-> RemoveAt(config.profiles, p),
                      default |-> NoName]
  <1>1. /\ new.profiles = Append(rest.profiles, moved)
        /\ new.default = IF config.default = key THEN to ELSE config.default
        /\ new = [profiles |-> new.profiles, default |-> new.default]
    BY DEF RenameProfile
  <1>2. /\ rest.profiles \in Seq(Entry)
        /\ KeysDistinct(rest)
        /\ Keys(rest) = Keys(config) \ {key}
        /\ \A k \in Name \ {key} : SettingsOf(rest, k) = SettingsOf(config, k)
    <2>1. rest.profiles = RemoveAt(config.profiles, Position(config, key))
      OBVIOUS
    <2> QED
      BY <2>1, WithoutKey DEF Sound
  <1>3. p \in DOMAIN config.profiles
    BY PositionOfKey
  <1>4. config.profiles[p] \in Entry
    BY <1>3 DEF Config
  <1>5. /\ moved \in Entry
        /\ moved.key = to
        /\ moved.settings = config.profiles[p].settings
    BY <1>4 DEF Entry
  <1>6. moved.settings = SettingsOf(config, key)
    BY <1>5 DEF SettingsOf
  <1> HIDE DEF p, moved, rest
  <1>7. /\ new.profiles \in Seq(Entry)
        /\ new.profiles # <<>>
        /\ KeysDistinct(new)
        /\ Keys(new) = Keys(rest) \cup {to}
        /\ SettingsOf(new, to) = moved.settings
        /\ \A k \in Name \ {to} : SettingsOf(new, k) = SettingsOf(rest, k)
    <2>1. moved.key \notin Keys(rest)
      BY <1>2, <1>5
    <2> QED
      BY <1>1, <1>2, <1>5, <2>1, WithKey
  <1>8. key \in Name /\ key # to
    BY KeysAreNames
  <1>9. SettingsOf(new, key) = NoSettings
    BY <1>2, <1>7, <1>8 DEF SettingsOf
  <1>10. \A k \in Name \ {key, to} : SettingsOf(new, k) = SettingsOf(config, k)
    BY <1>2, <1>7
  <1>11. config.default \in Keys(config)
    <2>1. config.profiles # <<>>
      BY DEF Keys
    <2> QED
      BY <2>1 DEF Sound, HasDefault
  <1>12. HasDefault(new)
    BY <1>1, <1>2, <1>7, <1>11 DEF HasDefault
  <1>13. new.default \in Name \cup {NoName}
    BY <1>1 DEF Config
  <1> QED
    BY <1>1, <1>6, <1>7, <1>9, <1>10, <1>12, <1>13 DEF Config, Sound

\* Another default is chosen and nothing else changes (set_default_profile).
LEMMA ChoiceKeeps ==
    ASSUME NEW config \in Config, Sound(config), NEW key \in Keys(config),
           NEW new, new = SetDefaultProfile(config, key)
    PROVE  /\ new \in Config
           /\ Sound(new)
           /\ \A k \in Name : SettingsOf(new, k) = SettingsOf(config, k)
           /\ new.default = key
  <1>1. /\ new.profiles = config.profiles
        /\ new.default = key
        /\ new = [profiles |-> new.profiles, default |-> new.default]
    BY DEF SetDefaultProfile, Config
  <1>2. config.profiles # <<>>
    BY DEF Keys
  <1>3. key \in Name
    BY KeysAreNames
  <1> QED
    BY <1>1, <1>2, <1>3
    DEF Config, Sound, HasDefault, KeysDistinct, Keys, SettingsOf, Position

-----------------------------------------------------------------------------
(* The invariant of the profile commands.                                  *)

\* A command that does not run holds nothing that could be wrong.
LEMMA IdleIsSound ==
    Idle \in Job /\ JobKnown(Idle) /\ Sound(Idle.config) /\ NoProfiles \in Config
  <1>1. <<>> \in Seq(Entry)
    OBVIOUS
  <1>2. NoProfiles \in Config
    BY <1>1 DEF NoProfiles, Config
  <1>3. Sound(NoProfiles)
    BY DEF NoProfiles, Sound, KeysDistinct, HasDefault
  <1> QED
    BY <1>2, <1>3 DEF Idle, Job, JobKnown

\* The change that a command makes to a sound configuration leaves it sound.
LEMMA ChangedKeeps ==
    ASSUME NEW config \in Config, Sound(config), NEW job \in Job,
           JobKnown(job), job.pc # "idle", Applies(job, config)
    PROVE  Changed(job, config) \in Config /\ Sound(Changed(job, config))
  <1>1. /\ job.op \in {"none", "add", "remove", "rename", "default"}
        /\ job.op # "none"
        /\ job.key \in Name
        /\ job.asDefault \in BOOLEAN
    BY DEF Job, JobKnown
  <1>2. CASE job.op = "add"
    <2>1. job.settings \in Settings
      BY <1>2 DEF JobKnown
    <2>2. Changed(job, config)
            = AddProfile(config, job.key, job.settings, job.asDefault)
      BY <1>2 DEF Changed
    <2> QED
      BY <1>1, <2>1, <2>2, AddKeeps
  <1>3. CASE job.op = "remove"
    <2>1. Changed(job, config) = RemoveProfile(config, job.key)
      BY <1>3 DEF Changed
    <2>2. job.key \in Keys(config)
      BY <1>3 DEF Applies
    <2> QED
      BY <2>1, <2>2, RemoveKeeps
  <1>4. CASE job.op = "rename"
    <2>1. Changed(job, config) = RenameProfile(config, job.key, job.to)
      BY <1>4 DEF Changed
    <2>2. /\ job.key \in Keys(config)
          /\ job.to \in Name
          /\ job.to \notin Keys(config)
      BY <1>4 DEF Applies, JobKnown
    <2> QED
      BY <2>1, <2>2, RenameKeeps
  <1>5. CASE job.op = "default"
    <2>1. Changed(job, config) = SetDefaultProfile(config, job.key)
      BY <1>5 DEF Changed
    <2>2. job.key \in Keys(config)
      BY <1>5 DEF Applies
    <2> QED
      BY <2>1, <2>2, ChoiceKeeps
  <1> QED
    BY <1>1, <1>2, <1>3, <1>4, <1>5

\* One command takes a step to a sound state, and the others stay.
LEMMA CommandMoves ==
    ASSUME ProfilesInductive, NEW c \in Command, NEW job \in Job,
           JobKnown(job), Sound(job.config), cmd' = [cmd EXCEPT ![c] = job]
    PROVE  /\ cmd' \in [Command -> Job]
           /\ \A d \in Command : JobKnown(cmd'[d]) /\ Sound(cmd'[d].config)
  <1>1. /\ cmd \in [Command -> Job]
        /\ \A d \in Command : JobKnown(cmd[d]) /\ Sound(cmd[d].config)
    BY DEF ProfilesInductive, ProfilesTypeOK
  <1>2. \A d \in Command : cmd'[d] = IF d = c THEN job ELSE cmd[d]
    BY <1>1
  <1> QED
    BY <1>1, <1>2

\* A step that leaves the file alone keeps the invariant.
LEMMA FileStays ==
    ASSUME ProfilesInductive, NEW c \in Command, NEW job \in Job,
           JobKnown(job), Sound(job.config), cmd' = [cmd EXCEPT ![c] = job],
           UNCHANGED <<file, told, overlapped>>,
           killed' \in 0 .. MaxFaults
    PROVE  ProfilesInductive'
  BY CommandMoves DEF ProfilesInductive, ProfilesTypeOK

\* The configuration that profiles.json and every command hold stays sound:
\* each step of a command.
LEMMA CommandKeeps ==
    ASSUME ProfilesInductive, NEW c \in Command,
           CommandBegins(c) \/ CommandGoesOn(c)
    PROVE  ProfilesInductive'
  <1> DEFINE job == cmd[c]
  <1>1. /\ file \in [is : {"absent", "empty", "torn", "whole"}, config : Config]
        /\ file.config \in Config
        /\ Sound(file.config)
        /\ cmd \in [Command -> Job]
        /\ job \in Job
        /\ JobKnown(job)
        /\ Sound(job.config)
        /\ job.config \in Config
        /\ told \in [Name -> Settings \cup {NoSettings}]
        /\ overlapped \subseteq Name
        /\ killed \in 0 .. MaxFaults
    BY DEF ProfilesInductive, ProfilesTypeOK, Job
  <1> HIDE DEF job
  <1>2. ASSUME NEW name \in Name, CmdRemoveProfile(c, name)
        PROVE  ProfilesInductive'
    <2> DEFINE new == [Idle EXCEPT !.pc = "load", !.op = "remove", !.key = name]
    <2>1. /\ cmd' = [cmd EXCEPT ![c] = new]
          /\ UNCHANGED <<file, told, overlapped, killed>>
      BY <1>2 DEF CmdRemoveProfile, Begin
    <2>2. new \in Job /\ JobKnown(new) /\ Sound(new.config)
      BY IdleIsSound DEF Job, JobKnown, Idle
    <2> QED
      BY <1>1, <2>1, <2>2, FileStays
  <1>3. ASSUME NEW name \in Name, CmdSetDefault(c, name)
        PROVE  ProfilesInductive'
    <2> DEFINE new == [Idle EXCEPT !.pc = "load", !.op = "default", !.key = name]
    <2>1. /\ cmd' = [cmd EXCEPT ![c] = new]
          /\ UNCHANGED <<file, told, overlapped, killed>>
      BY <1>3 DEF CmdSetDefault, Begin
    <2>2. new \in Job /\ JobKnown(new) /\ Sound(new.config)
      BY IdleIsSound DEF Job, JobKnown, Idle
    <2> QED
      BY <1>1, <2>1, <2>2, FileStays
  <1>4. ASSUME NEW name \in Name, NEW s \in Settings, NEW d \in BOOLEAN,
               CmdAddProfile(c, name, s, d)
        PROVE  ProfilesInductive'
    <2> DEFINE new == [Idle EXCEPT !.pc = "load", !.op = "add", !.key = name,
                                   !.settings = s, !.asDefault = d]
    <2>1. /\ cmd' = [cmd EXCEPT ![c] = new]
          /\ UNCHANGED <<file, told, overlapped, killed>>
      BY <1>4 DEF CmdAddProfile, Begin
    <2>2. new \in Job /\ JobKnown(new) /\ Sound(new.config)
      BY IdleIsSound DEF Job, JobKnown, Idle
    <2> QED
      BY <1>1, <2>1, <2>2, FileStays
  <1>5. ASSUME NEW name \in Name, NEW other \in Name,
               CallRenameProfile(c, name, other)
        PROVE  ProfilesInductive'
    <2> DEFINE new == [Idle EXCEPT !.pc = "load", !.op = "rename", !.key = name,
                                   !.to = other]
    <2>1. /\ cmd' = [cmd EXCEPT ![c] = new]
          /\ UNCHANGED <<file, told, overlapped, killed>>
      BY <1>5 DEF CallRenameProfile, Begin
    <2>2. new \in Job /\ JobKnown(new) /\ Sound(new.config)
      BY IdleIsSound DEF Job, JobKnown, Idle
    <2> QED
      BY <1>1, <2>1, <2>2, FileStays
  <1>6. ASSUME NEW name \in Name, NEW newName \in Name,
               CmdEditProfile(c, name, newName)
        PROVE  ProfilesInductive'
    <2> DEFINE new == [Idle EXCEPT !.pc = "edit", !.op = "add", !.key = newName,
                         !.from = IF newName = name THEN NoName ELSE name,
                         !.settings = SettingsOf(file.config, name)]
    <2>1. /\ cmd' = [cmd EXCEPT ![c] = new]
          /\ UNCHANGED <<file, told, overlapped, killed>>
          /\ name \in Keys(file.config)
      BY <1>6 DEF CmdEditProfile, Begin
    <2>2. SettingsOf(file.config, name) \in Settings
      BY <1>1, <2>1, SettingsFound
    <2>3. new \in Job /\ JobKnown(new) /\ Sound(new.config)
      BY <2>2, IdleIsSound DEF Job, JobKnown, Idle
    <2> QED
      BY <1>1, <2>1, <2>3, FileStays
  <1>7. ASSUME NEW s \in Settings, SubmitEdit(c, s)
        PROVE  ProfilesInductive'
    <2> DEFINE new == [job EXCEPT !.pc = "load", !.settings = s]
    <2>1. /\ cmd' = [cmd EXCEPT ![c] = new]
          /\ UNCHANGED <<file, told, overlapped, killed>>
          /\ job.pc = "edit"
      BY <1>1, <1>7 DEF SubmitEdit, job
    <2>2. new \in Job /\ JobKnown(new) /\ Sound(new.config)
      BY <1>1, <2>1 DEF Job, JobKnown
    <2> QED
      BY <1>1, <2>1, <2>2, FileStays
  <1>8. CASE AbandonEdit(c)
    BY <1>1, <1>8, IdleIsSound, FileStays DEF AbandonEdit
  <1>9. CASE Load(c)
    <2> DEFINE new == [job EXCEPT !.pc = "open",
                                  !.config = Changed(job, file.config)]
    <2>1. /\ cmd' = [cmd EXCEPT ![c] = new]
          /\ UNCHANGED <<file, told, overlapped, killed>>
          /\ job.pc = "load"
          /\ Applies(job, file.config)
      BY <1>1, <1>9 DEF Load, job
    <2>2. /\ Changed(job, file.config) \in Config
          /\ Sound(Changed(job, file.config))
      BY <1>1, <2>1, ChangedKeeps
    <2>3. new \in Job /\ JobKnown(new) /\ Sound(new.config)
      BY <1>1, <2>1, <2>2 DEF Job, JobKnown
    <2> QED
      BY <1>1, <2>1, <2>3, FileStays
  <1>10. CASE GiveUp(c)
    BY <1>1, <1>10, IdleIsSound, FileStays DEF GiveUp
  <1>11. CASE Open(c)
    <2> DEFINE new == [job EXCEPT !.pc = "write"]
    <2>1. /\ cmd' = [cmd EXCEPT ![c] = new]
          /\ UNCHANGED <<told, overlapped, killed>>
          /\ file' = Emptied
          /\ job.pc = "open"
      BY <1>1, <1>11 DEF Open, job
    <2>2. new \in Job /\ JobKnown(new) /\ Sound(new.config)
      BY <1>1, <2>1 DEF Job, JobKnown
    <2>3. /\ cmd' \in [Command -> Job]
          /\ \A d \in Command : JobKnown(cmd'[d]) /\ Sound(cmd'[d].config)
      BY <2>1, <2>2, CommandMoves
    <2>4. /\ file' \in [is : {"absent", "empty", "torn", "whole"}, config : Config]
          /\ Sound(file'.config)
      BY <2>1, IdleIsSound DEF Emptied, Idle
    <2> QED
      BY <1>1, <2>1, <2>3, <2>4 DEF ProfilesInductive, ProfilesTypeOK
  <1>12. CASE Write(c)
    <2> DEFINE new == AfterSave(job)
    <2>1. /\ cmd' = [cmd EXCEPT ![c] = new]
          /\ told' = Reported(job)
          /\ UNCHANGED killed
          /\ file' \in Landed(job.config)
          /\ job.pc = "write"
      BY <1>1, <1>12 DEF Write, job
    <2>2. new \in Job /\ JobKnown(new) /\ Sound(new.config)
      BY <1>1, <2>1, IdleIsSound DEF Job, JobKnown, Idle, AfterSave
    <2>3. /\ cmd' \in [Command -> Job]
          /\ \A d \in Command : JobKnown(cmd'[d]) /\ Sound(cmd'[d].config)
      BY <2>1, <2>2, CommandMoves
    <2>4. /\ file' \in [is : {"absent", "empty", "torn", "whole"}, config : Config]
          /\ Sound(file'.config)
      <3>1. file' = Whole(job.config) \/ file' = Torn
        BY <2>1 DEF Landed
      <3> QED
        BY <1>1, <3>1, IdleIsSound DEF Whole, Torn, Idle
    <2>5. told' \in [Name -> Settings \cup {NoSettings}]
      <3>1. SettingsOf(job.config, job.to) \in Settings \cup {NoSettings}
        BY <1>1, SettingsFound
      <3>2. job.settings \in Settings \cup {NoSettings}
        BY <1>1 DEF Job
      <3> QED
        BY <1>1, <2>1, <3>1, <3>2 DEF Reported
    <2>6. overlapped' \subseteq Name
      <3>1. About(job) \subseteq Name
        BY <1>1, <2>1 DEF About, JobKnown
      <3> QED
        BY <1>1, <1>12, <3>1 DEF Write, job
    <2> QED
      BY <1>1, <2>1, <2>3, <2>4, <2>5, <2>6 DEF ProfilesInductive, ProfilesTypeOK
  <1>13. CASE Kill(c)
    <2>1. killed' \in 0 .. MaxFaults
      BY <1>1, <1>13, FaultsAssumption DEF Kill
    <2> QED
      BY <1>13, <2>1, IdleIsSound, FileStays DEF Kill
  <1> QED
    BY <1>2, <1>3, <1>4, <1>5, <1>6, <1>7, <1>8, <1>9, <1>10, <1>11, <1>12,
       <1>13 DEF CommandBegins, CommandGoesOn

\* The program starts with a file that is absent or sound.
LEMMA ProfilesInitSound == ProfilesInit => ProfilesInductive
  <1> SUFFICES ASSUME ProfilesInit
               PROVE  ProfilesInductive
    OBVIOUS
  <1>1. /\ file \in [is : {"absent", "empty", "torn", "whole"}, config : Config]
        /\ Sound(file.config)
    BY IdleIsSound, WrittenAssumption DEF ProfilesInit, NoFile, Whole, Idle
  <1>2. /\ cmd \in [Command -> Job]
        /\ \A c \in Command : JobKnown(cmd[c]) /\ Sound(cmd[c].config)
    BY IdleIsSound DEF ProfilesInit
  <1>3. /\ told \in [Name -> Settings \cup {NoSettings}]
        /\ overlapped \subseteq Name
        /\ killed \in 0 .. MaxFaults
    BY FaultsAssumption DEF ProfilesInit
  <1> QED
    BY <1>1, <1>2, <1>3 DEF ProfilesInductive, ProfilesTypeOK

\* Steps that are none of the commands' keep the invariant.
LEMMA ProfilesStutter ==
    ASSUME ProfilesInductive, UNCHANGED profileVars
    PROVE  ProfilesInductive'
  BY DEF profileVars, ProfilesInductive, ProfilesTypeOK, Sound, KeysDistinct,
         HasDefault, Keys, JobKnown

\* However the commands of any number of processes interleave and wherever
\* they are killed, profiles.json and what they are about to write to it
\* name each profile once and have a default that exists (config.py).
THEOREM ProfilesAreSound == ProfilesSpec => []ProfilesInductive
  <1>1. ASSUME ProfilesInductive, ProfilesNext
        PROVE  ProfilesInductive'
    BY <1>1, CommandKeeps DEF ProfilesNext
  <1> QED
    BY <1>1, ProfilesInitSound, ProfilesStutter, PTL DEF ProfilesSpec

\* Every variable of the profile commands keeps its type.
THEOREM ProfilesTypes == ProfilesSpec => []ProfilesTypeOK
  <1>1. ProfilesInductive => ProfilesTypeOK
    BY DEF ProfilesInductive
  <1> QED
    BY <1>1, ProfilesAreSound, PTL

\* A file that can be read has a default profile exactly when it has
\* profiles, for any number of commands, names and kills (config.py).
THEOREM DefaultStaysKnown == ProfilesSpec => []DefaultIsKnown
  <1>1. ProfilesInductive => DefaultIsKnown
    BY DEF ProfilesInductive, DefaultIsKnown
  <1> QED
    BY <1>1, ProfilesAreSound, PTL

-----------------------------------------------------------------------------
(* Commands that run one at a time, and are not killed, implement the      *)
(* registry: load, change and save are one change of it.                   *)

\* No two commands, and no kills.
Alone == (\A c, d \in Command : c = d) /\ MaxFaults = 0

\* The names with settings are the keys of the file, and the default agrees.
LEMMA SoundIsConsistent ==
    ASSUME NEW config \in Config, Sound(config), NEW saved,
           saved = [n \in Name |-> SettingsOf(config, n)]
    PROVE  /\ Registry!Named(saved) = Keys(config)
           /\ Registry!Consistent(saved, config.default)
  <1>1. Keys(config) \subseteq Name
    BY KeysAreNames
  <1>2. \A n \in Name : SettingsOf(config, n) # NoSettings <=> n \in Keys(config)
    BY SettingsFound, SettingsAssumption DEF SettingsOf
  <1>3. Registry!Named(saved) = Keys(config)
    BY <1>1, <1>2 DEF Registry!Named
  <1>4. Keys(config) = {} <=> config.profiles = <<>>
    <2>1. config.profiles \in Seq(Entry)
      BY DEF Config
    <2>2. config.profiles # <<>> => 1 \in DOMAIN config.profiles
      BY <2>1
    <2>3. config.profiles = <<>> => DOMAIN config.profiles = {}
      OBVIOUS
    <2>4. Keys(config) = {} <=> DOMAIN config.profiles = {}
      BY DEF Keys
    <2> QED
      BY <2>2, <2>3, <2>4
  <1> QED
    BY <1>3, <1>4 DEF Registry!Consistent, Sound, HasDefault

\* The change that a command makes is one of the registry.
LEMMA ChangeIsRegistryStep ==
    ASSUME ProfilesInductive, NEW config \in Config, Sound(config),
           NEW job \in Job, JobKnown(job), job.pc # "idle",
           Applies(job, config),
           Current = config, Current' = Changed(job, config)
    PROVE  Registry!Next
  <1>1. /\ Changed(job, config) \in Config
        /\ Sound(Changed(job, config))
    BY ChangedKeeps
  <1>2. /\ SavedProfiles = [n \in Name |-> SettingsOf(config, n)]
        /\ SavedProfiles' = [n \in Name |-> SettingsOf(Changed(job, config), n)]
    BY DEF SavedProfiles
  <1>3. /\ job.op \in {"none", "add", "remove", "rename", "default"}
        /\ job.op # "none"
        /\ job.key \in Name
        /\ job.asDefault \in BOOLEAN
    BY DEF Job, JobKnown
  <1>4. Registry!Named(SavedProfiles) = Keys(config)
    BY <1>2, SoundIsConsistent
  <1>5. CASE job.op = "add"
    <2>1. job.settings \in Settings
      BY <1>5 DEF JobKnown
    <2>2. Changed(job, config)
            = AddProfile(config, job.key, job.settings, job.asDefault)
      BY <1>5 DEF Changed
    <2>3. /\ SettingsOf(Changed(job, config), job.key) = job.settings
          /\ \A k \in Name \ {job.key} :
               SettingsOf(Changed(job, config), k) = SettingsOf(config, k)
          /\ Changed(job, config).default \in {job.key, config.default}
          /\ config.default = NoName => Changed(job, config).default = job.key
      BY <1>3, <2>1, <2>2, AddKeeps
    <2>4. Registry!Save(job.key, job.settings)
      BY <1>2, <1>3, <2>3 DEF Registry!Save
    <2> QED
      BY <1>3, <2>1, <2>4 DEF Registry!Next
  <1>6. CASE job.op = "remove"
    <2>1. Changed(job, config) = RemoveProfile(config, job.key)
      BY <1>6 DEF Changed
    <2>2. job.key \in Keys(config)
      BY <1>6 DEF Applies
    <2>3. /\ SettingsOf(Changed(job, config), job.key) = NoSettings
          /\ \A k \in Name \ {job.key} :
               SettingsOf(Changed(job, config), k) = SettingsOf(config, k)
          /\ config.default # job.key
               => Changed(job, config).default = config.default
      BY <2>1, <2>2, RemoveKeeps
    <2>4. Registry!Consistent(SavedProfiles', Changed(job, config).default)
      BY <1>1, <1>2, SoundIsConsistent
    <2>5. Changed(job, config).default \in Name \cup {NoName}
      BY <1>1 DEF Config
    <2>6. Registry!Drop(job.key)
      BY <1>2, <1>3, <1>4, <2>2, <2>3, <2>4, <2>5 DEF Registry!Drop
    <2> QED
      BY <1>3, <2>6 DEF Registry!Next
  <1>7. CASE job.op = "rename"
    <2>1. Changed(job, config) = RenameProfile(config, job.key, job.to)
      BY <1>7 DEF Changed
    <2>2. /\ job.key \in Keys(config)
          /\ job.to \in Name
          /\ job.to \notin Keys(config)
      BY <1>7 DEF Applies, JobKnown
    <2>3. /\ SettingsOf(Changed(job, config), job.key) = NoSettings
          /\ SettingsOf(Changed(job, config), job.to)
               = SettingsOf(config, job.key)
          /\ \A k \in Name \ {job.key, job.to} :
               SettingsOf(Changed(job, config), k) = SettingsOf(config, k)
          /\ Changed(job, config).default =
               IF config.default = job.key THEN job.to ELSE config.default
      BY <2>1, <2>2, RenameKeeps
    <2>4. Registry!Rename(job.key, job.to)
      BY <1>2, <1>3, <1>4, <2>2, <2>3 DEF Registry!Rename
    <2> QED
      BY <1>3, <2>2, <2>4 DEF Registry!Next
  <1>8. CASE job.op = "default"
    <2>1. Changed(job, config) = SetDefaultProfile(config, job.key)
      BY <1>8 DEF Changed
    <2>2. job.key \in Keys(config)
      BY <1>8 DEF Applies
    <2>3. /\ \A k \in Name :
               SettingsOf(Changed(job, config), k) = SettingsOf(config, k)
          /\ Changed(job, config).default = job.key
      BY <2>1, <2>2, ChoiceKeeps
    <2>4. Registry!Choose(job.key)
      BY <1>2, <1>4, <2>2, <2>3 DEF Registry!Choose
    <2> QED
      BY <1>3, <2>4 DEF Registry!Next
  <1> QED
    BY <1>3, <1>5, <1>6, <1>7, <1>8

-----------------------------------------------------------------------------
(* One command at a time.                                                  *)

\* What the file is about to hold, while there is at most one command.
LEMMA CurrentIs ==
    ASSUME Alone, AloneInductive, NEW c \in Command
    PROVE  Current = IF file.is = "empty" THEN cmd[c].config ELSE file.config
  <1>1. CASE file.is = "empty"
    <2>1. cmd[c].pc = "write"
      BY <1>1 DEF AloneInductive
    <2> DEFINE w == CHOOSE d \in Command : cmd[d].pc = "write"
    <2>2. w \in Command
      BY <2>1
    <2>3. Current = cmd[w].config
      BY <1>1 DEF Current
    <2> HIDE DEF w
    <2> QED
      BY <1>1, <2>2, <2>3 DEF Alone
  <1>2. CASE file.is # "empty"
    BY <1>2 DEF Current
  <1> QED
    BY <1>1, <1>2

\* Nothing but emptying the file changes what it is about to hold, and that
\* is a step of the registry.
LEMMA AloneSteps ==
    ASSUME Alone, AloneInductive, ProfilesNext
    PROVE  AloneInductive' /\ [Registry!Next]_(Registry!registry)
  <1>1. PICK c \in Command : CommandBegins(c) \/ CommandGoesOn(c)
    BY DEF ProfilesNext
  <1> DEFINE job == cmd[c]
  <1>2. /\ ProfilesInductive
        /\ cmd \in [Command -> Job]
        /\ job \in Job
        /\ JobKnown(job)
        /\ file.config \in Config
        /\ file.is \in {"absent", "empty", "whole"}
        /\ Sound(file.config)
        /\ killed = 0
        /\ file.is = "empty" => file = Emptied
        /\ job.pc = "write" <=> file.is = "empty"
        /\ job.pc = "open"
             => /\ Applies(job, file.config)
                /\ job.config = Changed(job, file.config)
    BY DEF AloneInductive, ProfilesInductive, ProfilesTypeOK, Alone
  <1>3. \A d \in Command : d = c
    BY DEF Alone
  <1>4. ProfilesInductive'
    BY <1>1, <1>2, CommandKeeps
  <1>5. Current = IF file.is = "empty" THEN job.config ELSE file.config
    BY CurrentIs
  <1>6. ASSUME AloneInductive'
        PROVE  Current' = IF file'.is = "empty" THEN cmd'[c].config
                          ELSE file'.config
    <2>1. CASE file'.is = "empty"
      <3>1. cmd'[c].pc = "write"
        BY <1>6, <2>1 DEF AloneInductive
      <3> DEFINE w == CHOOSE d \in Command : cmd'[d].pc = "write"
      <3>2. w \in Command
        BY <3>1
      <3>3. Current' = cmd'[w].config
        BY <2>1 DEF Current
      <3> HIDE DEF w
      <3> QED
        BY <1>3, <2>1, <3>2, <3>3
    <2>2. CASE file'.is # "empty"
      BY <2>2 DEF Current
    <2> QED
      BY <2>1, <2>2
  <1> HIDE DEF job
  <1>7. ASSUME AloneInductive', Current' = Current
        PROVE  [Registry!Next]_(Registry!registry)
    BY <1>7 DEF SavedProfiles, Registry!registry
  <1>8. ASSUME NEW new, cmd' = [cmd EXCEPT ![c] = new], UNCHANGED file,
               job.pc # "write", new.pc # "write",
               new.pc = "open"
                 => /\ Applies(new, file.config)
                    /\ new.config = Changed(new, file.config)
        PROVE  AloneInductive' /\ [Registry!Next]_(Registry!registry)
    <2>1. cmd'[c] = new
      BY <1>2, <1>8
    <2>2. AloneInductive'
      BY <1>2, <1>3, <1>4, <1>8, <2>1 DEF AloneInductive
    <2>3. Current' = Current
      BY <1>2, <1>5, <1>6, <1>8, <2>2
    <2> QED
      BY <1>7, <2>2, <2>3
  <1>9. CASE CommandBegins(c)
    <2>1. /\ job.pc = "idle"
          /\ UNCHANGED file
      BY <1>9 DEF CommandBegins, CmdAddProfile, CmdRemoveProfile,
                  CmdSetDefault, CallRenameProfile, CmdEditProfile, Begin, job
    <2>2. \E new : /\ cmd' = [cmd EXCEPT ![c] = new]
                  /\ new.pc \in {"load", "edit"}
      <3> DEFINE Begun == \E new : /\ cmd' = [cmd EXCEPT ![c] = new]
                                  /\ new.pc \in {"load", "edit"}
      <3>1. \A new : Begin(c, new) /\ new.pc \in {"load", "edit"} => Begun
        BY DEF Begin
      <3>2. Idle \in Job
        BY IdleIsSound
      <3> HIDE DEF Begun
      <3>3. ASSUME NEW name \in Name,
                   CmdRemoveProfile(c, name) \/ CmdSetDefault(c, name)
            PROVE  Begun
        BY <3>1, <3>2, <3>3 DEF CmdRemoveProfile, CmdSetDefault, Job
      <3>4. ASSUME NEW name \in Name, NEW s \in Settings, NEW d \in BOOLEAN,
                   CmdAddProfile(c, name, s, d)
            PROVE  Begun
        BY <3>1, <3>2, <3>4 DEF CmdAddProfile, Job
      <3>5. ASSUME NEW name \in Name, NEW other \in Name,
                   CallRenameProfile(c, name, other)
            PROVE  Begun
        BY <3>1, <3>2, <3>5 DEF CallRenameProfile, Job
      <3>6. ASSUME NEW name \in Name, NEW newName \in Name,
                   CmdEditProfile(c, name, newName)
            PROVE  Begun
        BY <3>1, <3>2, <3>6 DEF CmdEditProfile, Job
      <3>7. Begun
        BY <1>9, <3>3, <3>4, <3>5, <3>6 DEF CommandBegins
      <3> QED
        BY <3>7 DEF Begun
    <2> QED
      BY <1>8, <2>1, <2>2
  <1>10. CASE \/ \E s \in Settings : SubmitEdit(c, s)
              \/ AbandonEdit(c)
              \/ GiveUp(c)
    <2>1. /\ job.pc \in {"edit", "load"}
          /\ UNCHANGED file
      BY <1>10 DEF SubmitEdit, AbandonEdit, GiveUp, job
    <2>2. \E new : /\ cmd' = [cmd EXCEPT ![c] = new]
                  /\ new.pc \in {"load", "idle"}
      <3>1. ASSUME NEW s \in Settings, SubmitEdit(c, s)
            PROVE  \E new : /\ cmd' = [cmd EXCEPT ![c] = new]
                           /\ new.pc \in {"load", "idle"}
        <4> DEFINE new == [job EXCEPT !.pc = "load", !.settings = s]
        <4>1. cmd' = [cmd EXCEPT ![c] = new]
          BY <1>2, <3>1 DEF SubmitEdit, job
        <4>2. new.pc = "load"
          BY <1>2 DEF Job
        <4> QED
          BY <4>1, <4>2
      <3>2. Idle.pc = "idle"
        BY DEF Idle
      <3> QED
        BY <1>10, <3>1, <3>2 DEF AbandonEdit, GiveUp
    <2> QED
      BY <1>8, <2>1, <2>2
  <1>11. CASE Load(c)
    <2> DEFINE new == [job EXCEPT !.pc = "open",
                                  !.config = Changed(job, file.config)]
    <2>1. /\ cmd' = [cmd EXCEPT ![c] = new]
          /\ UNCHANGED file
          /\ job.pc = "load"
          /\ Applies(job, file.config)
      BY <1>2, <1>11 DEF Load, job
    <2>2. /\ new.pc = "open"
          /\ new.op = job.op
          /\ new.key = job.key
          /\ new.to = job.to
          /\ new.settings = job.settings
          /\ new.asDefault = job.asDefault
          /\ new.config = Changed(job, file.config)
      BY <1>2 DEF Job
    <2> HIDE DEF new
    <2>3. /\ Applies(new, file.config)
          /\ new.config = Changed(new, file.config)
      BY <2>1, <2>2 DEF Applies, Changed
    <2> QED
      BY <1>8, <2>1, <2>2, <2>3
  <1>12. CASE Open(c)
    <2> DEFINE new == [job EXCEPT !.pc = "write"]
    <2>1. /\ cmd' = [cmd EXCEPT ![c] = new]
          /\ file' = Emptied
          /\ job.pc = "open"
      BY <1>2, <1>12 DEF Open, job
    <2>2. cmd'[c] = new /\ new.pc = "write" /\ new.config = job.config
      BY <1>2, <2>1 DEF Job
    <2> HIDE DEF new
    <2>3. file'.is = "empty"
      BY <2>1 DEF Emptied
    <2>4. AloneInductive'
      BY <1>2, <1>3, <1>4, <2>1, <2>2, <2>3 DEF AloneInductive, Emptied
    <2>5. /\ Current = file.config
          /\ Current' = Changed(job, file.config)
      BY <1>2, <1>5, <1>6, <2>1, <2>2, <2>3, <2>4
    <2>6. Registry!Next
      BY <1>2, <2>1, <2>5, ChangeIsRegistryStep
    <2> QED
      BY <2>4, <2>6
  <1>13. CASE Write(c)
    <2> DEFINE new == AfterSave(job)
    <2>1. /\ cmd' = [cmd EXCEPT ![c] = new]
          /\ file' \in Landed(job.config)
          /\ job.pc = "write"
      BY <1>2, <1>13 DEF Write, job
    <2>2. file' = Whole(job.config)
      BY <1>2, <2>1 DEF Landed
    <2>3. file'.is = "whole" /\ file'.config = job.config
      BY <2>2 DEF Whole
    <2>4. cmd'[c] = new /\ new.pc \in {"idle", "load"}
      BY <1>2, <2>1 DEF AfterSave, Idle
    <2> HIDE DEF new
    <2>5. AloneInductive'
      BY <1>2, <1>3, <1>4, <2>1, <2>3, <2>4 DEF AloneInductive
    <2>6. Current' = Current
      BY <1>2, <1>5, <1>6, <2>1, <2>3, <2>5
    <2> QED
      BY <1>7, <2>5, <2>6
  <1>14. CASE Kill(c)
    BY <1>2, <1>14 DEF Kill, Alone
  <1> QED
    BY <1>1, <1>9, <1>10, <1>11, <1>12, <1>13, <1>14 DEF CommandGoesOn

\* They start as the registry does.
LEMMA AloneStarts == ProfilesInit => AloneInductive /\ Registry!Init
  <1> SUFFICES ASSUME ProfilesInit
               PROVE  AloneInductive /\ Registry!Init
    OBVIOUS
  <1>1. ProfilesInductive
    BY ProfilesInitSound
  <1>2. file.is \in {"absent", "whole"} /\ \A c \in Command : cmd[c].pc = "idle"
    BY DEF ProfilesInit, NoFile, Whole, Idle
  <1>3. AloneInductive
    BY <1>1, <1>2 DEF AloneInductive
  <1>4. /\ Current = file.config
        /\ file.config \in Config
        /\ Sound(file.config)
    BY <1>1, <1>2 DEF Current, ProfilesInductive, ProfilesTypeOK
  <1>5. \A n : SettingsOf(file.config, n) \in Settings \cup {NoSettings}
    BY <1>4, SettingsFound
  <1>6. SavedProfiles = [n \in Name |-> SettingsOf(file.config, n)]
    BY <1>4 DEF SavedProfiles
  <1>7. Registry!Consistent(SavedProfiles, Current.default)
    BY <1>4, <1>6, SoundIsConsistent
  <1>8. Current.default \in Name \cup {NoName}
    BY <1>4 DEF Config
  <1> QED
    BY <1>3, <1>5, <1>6, <1>7, <1>8 DEF Registry!Init

\* Each of their steps is one of the registry, or none.
LEMMA AloneKeeps ==
    ASSUME Alone
    PROVE  AloneInductive /\ [ProfilesNext]_profileVars
             => AloneInductive' /\ [Registry!Next]_(Registry!registry)
  <1>1. CASE ProfilesNext
    BY <1>1, AloneSteps
  <1>2. CASE UNCHANGED profileVars
    <2>1. UNCHANGED <<file, cmd, told, overlapped, killed>>
      BY <1>2 DEF profileVars
    <2>2. AloneInductive => AloneInductive'
      BY <1>2, <2>1, ProfilesStutter
      DEF AloneInductive, Applies, Changed
    <2>3. UNCHANGED <<SavedProfiles, Current>>
      BY <2>1 DEF SavedProfiles, Current
    <2> QED
      BY <2>2, <2>3 DEF Registry!registry
  <1> QED
    BY <1>1, <1>2

\* Commands one at a time and not killed carry out the registry, whatever the
\* names, the settings and the file that they start with: each of them makes
\* one change, to the profile it names (config.py, cli.py).
THEOREM CommandsKeepRegistry ==
    ASSUME Alone
    PROVE  ProfilesSpec => KeepsRegistry
  <1>1. AloneInductive /\ [ProfilesNext]_profileVars
          => AloneInductive' /\ [Registry!Next]_(Registry!registry)
    BY AloneKeeps
  <1> QED
    BY AloneStarts, <1>1, PTL DEF ProfilesSpec, KeepsRegistry, Registry!Spec

\* Between them the file can be read (load_profiles): it is unreadable only
\* while a command writes it.
THEOREM FileIsReadableAtRest ==
    ASSUME Alone
    PROVE  ProfilesSpec => []ReadableAtRest
  <1>1. AloneInductive /\ [ProfilesNext]_profileVars => AloneInductive'
    BY AloneKeeps
  <1>2. AloneInductive => ReadableAtRest
    <2> SUFFICES ASSUME AloneInductive, file.is = "empty"
                 PROVE  \E c \in Command : cmd[c].pc = "write"
      BY DEF AloneInductive, ProfilesInductive, ProfilesTypeOK, ReadableAtRest,
             Readable
    <2> QED
      BY DEF AloneInductive
  <1> QED
    BY AloneStarts, <1>1, <1>2, PTL DEF ProfilesSpec

-----------------------------------------------------------------------------
(* What was reported as saved stays, however commands interleave.           *)

\* A change leaves every other name alone, and saves what it adds.
LEMMA ChangedSettles ==
    ASSUME NEW config \in Config, Sound(config), NEW job \in Job,
           JobKnown(job), job.pc # "idle", Applies(job, config)
    PROVE  /\ \A n \in Name \ About(job) :
                SettingsOf(Changed(job, config), n) = SettingsOf(config, n)
           /\ job.op = "add"
                => SettingsOf(Changed(job, config), job.key) = job.settings
  <1>1. /\ job.op \in {"none", "add", "remove", "rename", "default"}
        /\ job.op # "none"
        /\ job.key \in Name
        /\ job.asDefault \in BOOLEAN
    BY DEF Job, JobKnown
  <1>2. CASE job.op = "add"
    <2>1. job.settings \in Settings
      BY <1>2 DEF JobKnown
    <2>2. Changed(job, config)
            = AddProfile(config, job.key, job.settings, job.asDefault)
      BY <1>2 DEF Changed
    <2>3. About(job) = {job.key}
      BY <1>2 DEF About
    <2> QED
      BY <1>1, <2>1, <2>2, <2>3, AddKeeps
  <1>3. CASE job.op = "remove"
    <2>1. Changed(job, config) = RemoveProfile(config, job.key)
      BY <1>3 DEF Changed
    <2>2. job.key \in Keys(config) /\ About(job) = {job.key}
      BY <1>3 DEF Applies, About
    <2> QED
      BY <1>3, <2>1, <2>2, RemoveKeeps
  <1>4. CASE job.op = "rename"
    <2>1. Changed(job, config) = RenameProfile(config, job.key, job.to)
      BY <1>4 DEF Changed
    <2>2. /\ job.key \in Keys(config)
          /\ job.to \in Name
          /\ job.to \notin Keys(config)
          /\ About(job) = {job.key, job.to}
      BY <1>4 DEF Applies, JobKnown, About
    <2> QED
      BY <1>4, <2>1, <2>2, RenameKeeps
  <1>5. CASE job.op = "default"
    <2>1. Changed(job, config) = SetDefaultProfile(config, job.key)
      BY <1>5 DEF Changed
    <2>2. job.key \in Keys(config)
      BY <1>5 DEF Applies
    <2> QED
      BY <1>5, <2>1, <2>2, ChoiceKeeps
  <1> QED
    BY <1>1, <1>2, <1>3, <1>4, <1>5

\* What a command reports about a profile is in the configuration it wrote.
LEMMA ReportedTruly ==
    ASSUME NEW config, NEW job \in Job, JobKnown(job), job.pc = "write",
           job.config = config, told \in [Name -> Settings \cup {NoSettings}],
           job.op = "add" => SettingsOf(config, job.key) = job.settings,
           told' = Reported(job)
    PROVE  \A n \in About(job) :
                told'[n] \in {NoSettings, SettingsOf(config, n)}
  <1>1. /\ job.op \in {"none", "add", "remove", "rename", "default"}
        /\ job.op # "none"
        /\ job.key \in Name
    BY DEF Job, JobKnown
  <1>2. CASE job.op = "add"
    BY <1>1, <1>2 DEF Reported, About
  <1>3. CASE job.op = "remove"
    BY <1>1, <1>3 DEF Reported, About
  <1>4. CASE job.op = "rename"
    <2>1. job.to \in Name
      BY <1>4 DEF JobKnown
    <2> DEFINE moved == SettingsOf(job.config, job.to)
    <2>2. told' = [told EXCEPT ![job.key] = NoSettings, ![job.to] = moved]
      BY <1>4 DEF Reported
    <2>3. moved = SettingsOf(config, job.to)
      OBVIOUS
    <2> HIDE DEF moved
    <2>4. \A n \in Name :
            told'[n] = IF n = job.to THEN moved
                       ELSE IF n = job.key THEN NoSettings ELSE told[n]
      BY <1>1, <2>1, <2>2
    <2> QED
      BY <1>1, <1>4, <2>1, <2>3, <2>4 DEF About
  <1>5. CASE job.op = "default"
    BY <1>5 DEF Reported, About
  <1> QED
    BY <1>1, <1>2, <1>3, <1>4, <1>5

\* A step that leaves the file and the reports alone keeps what is known, if the
\* command knows it of what it holds now.
LEMMA SavesStay ==
    ASSUME SavesInductive, ProfilesInductive', NEW c \in Command, NEW new,
           cmd' = [cmd EXCEPT ![c] = new],
           UNCHANGED <<told, overlapped>>,
           file' = file \/ file' = Emptied,
           Holds(new)
             => /\ ToldTruly(Name \ (overlapped \cup About(new)), new.config)
                /\ new.op = "add"
                     => SettingsOf(new.config, new.key) = new.settings
    PROVE  SavesInductive'
  <1>1. cmd \in [Command -> Job]
    BY DEF SavesInductive, ProfilesInductive, ProfilesTypeOK
  <1>2. \A d \in Command : cmd'[d] = IF d = c THEN new ELSE cmd[d]
    BY <1>1
  <1>3. ASSUME file'.is \in {"absent", "whole"}
        PROVE  ToldTruly(Name \ overlapped, file.config)'
    <2>1. file' = file
      BY <1>3 DEF Emptied
    <2> QED
      BY <1>3, <2>1 DEF SavesInductive, ToldTruly
  <1>4. ASSUME NEW d \in Command, Holds(cmd[d])'
        PROVE  /\ ToldTruly(Name \ (overlapped \cup About(cmd[d])),
                            cmd[d].config)'
               /\ (cmd[d].op = "add"
                     => SettingsOf(cmd[d].config, cmd[d].key) = cmd[d].settings)'
    <2>1. CASE d = c
      <3>1. cmd'[d] = new
        BY <1>2, <2>1
      <3>2. Holds(new)
        BY <1>4, <3>1 DEF Holds
      <3> QED
        BY <3>1, <3>2 DEF ToldTruly, About
    <2>2. CASE d # c
      <3>1. cmd'[d] = cmd[d]
        BY <1>2, <2>2
      <3>2. Holds(cmd[d])
        BY <1>4, <3>1 DEF Holds
      <3> QED
        BY <3>1, <3>2 DEF SavesInductive, ToldTruly, About
    <2> QED
      BY <2>1, <2>2
  <1> QED
    BY <1>3, <1>4 DEF SavesInductive

\* A command that writes: its report is in the file, and what another command
\* still holds lacks only what has been reported since that one read.
LEMMA WriteKeepsSaves ==
    ASSUME SavesInductive, ProfilesInductive', NEW c \in Command, Write(c)
    PROVE  SavesInductive'
  <1> DEFINE job == cmd[c]
             new == AfterSave(job)
  <1>1. /\ cmd \in [Command -> Job]
        /\ job \in Job /\ JobKnown(job)
        /\ told \in [Name -> Settings \cup {NoSettings}]
        /\ overlapped \subseteq Name
    BY DEF SavesInductive, ProfilesInductive, ProfilesTypeOK
  <1>2. /\ job.pc = "write"
        /\ file' \in Landed(job.config)
        /\ cmd' = [cmd EXCEPT ![c] = new]
        /\ told' = Reported(job)
        /\ overlapped' = IF \E d \in Command \ {c} : Holds(cmd[d])
                         THEN overlapped \cup About(job)
                         ELSE overlapped \ About(job)
    BY DEF Write
  <1>3. /\ ToldTruly(Name \ (overlapped \cup About(job)), job.config)
        /\ job.op = "add" => SettingsOf(job.config, job.key) = job.settings
    BY <1>2 DEF SavesInductive, Holds
  <1>4. new.pc \in {"idle", "load"}
    BY DEF AfterSave, Idle
  <1> HIDE DEF new, job
  <1>5. \A n \in Name \ About(job) : told'[n] = told[n]
    BY <1>1, <1>2 DEF Reported, About, JobKnown
  <1>6. \A n \in About(job) : told'[n] \in {NoSettings, SettingsOf(job.config, n)}
    BY <1>1, <1>2, <1>3, ReportedTruly
  <1>7. \A d \in Command : cmd'[d] = IF d = c THEN new ELSE cmd[d]
    BY <1>1, <1>2
  <1>8. ASSUME file'.is \in {"absent", "whole"}
        PROVE  ToldTruly(Name \ overlapped, file.config)'
    <2>1. file' = Whole(job.config)
      BY <1>2, <1>8 DEF Landed, Torn
    <2>2. file'.config = job.config
      BY <2>1 DEF Whole
    <2>3. ASSUME NEW n \in Name \ overlapped'
          PROVE  told'[n] \in {NoSettings, SettingsOf(job.config, n)}
      <3>1. CASE n \in About(job)
        BY <1>6, <3>1
      <3>2. CASE n \notin About(job)
        <4>1. n \notin overlapped
          BY <1>2, <2>3, <3>2
        <4> QED
          BY <1>3, <1>5, <3>2, <4>1 DEF ToldTruly
      <3> QED
        BY <3>1, <3>2
    <2> QED
      BY <2>2, <2>3 DEF ToldTruly
  <1>9. ASSUME NEW d \in Command, Holds(cmd[d])'
        PROVE  /\ ToldTruly(Name \ (overlapped \cup About(cmd[d])),
                            cmd[d].config)'
               /\ (cmd[d].op = "add"
                     => SettingsOf(cmd[d].config, cmd[d].key) = cmd[d].settings)'
    <2>1. d # c
      BY <1>4, <1>7, <1>9 DEF Holds
    <2>2. cmd'[d] = cmd[d]
      BY <1>7, <2>1
    <2>3. Holds(cmd[d])
      BY <1>9, <2>2 DEF Holds
    <2>4. overlapped' = overlapped \cup About(job)
      BY <1>2, <2>1, <2>3
    <2>5. \A n \in Name \ (overlapped' \cup About(cmd[d])) :
            told'[n] \in {NoSettings, SettingsOf(cmd[d].config, n)}
      BY <1>5, <2>3, <2>4 DEF SavesInductive, ToldTruly
    <2> QED
      BY <2>2, <2>3, <2>5 DEF SavesInductive, ToldTruly, About
  <1> QED
    BY <1>8, <1>9 DEF SavesInductive

\* Each step of a command keeps what is known of the saves.
LEMMA CommandSaves ==
    ASSUME SavesInductive, NEW c \in Command,
           CommandBegins(c) \/ CommandGoesOn(c)
    PROVE  SavesInductive'
  <1> DEFINE job == cmd[c]
  <1>1. /\ cmd \in [Command -> Job]
        /\ job \in Job /\ JobKnown(job)
        /\ file.config \in Config /\ Sound(file.config)
        /\ ProfilesInductive
    BY DEF SavesInductive, ProfilesInductive, ProfilesTypeOK
  <1>2. ProfilesInductive'
    BY <1>1, CommandKeeps
  <1> HIDE DEF job
  <1>3. ASSUME NEW new, cmd' = [cmd EXCEPT ![c] = new],
               UNCHANGED <<file, told, overlapped>>,
               new.pc \in {"idle", "edit", "load"}
        PROVE  SavesInductive'
    <2>1. ~ Holds(new)
      BY <1>3 DEF Holds
    <2> QED
      BY <1>2, <1>3, <2>1, SavesStay
  <1>4. CASE CommandBegins(c)
    <2>1. ASSUME NEW new, Begin(c, new), new.pc \in {"edit", "load"}
          PROVE  SavesInductive'
      BY <1>3, <2>1 DEF Begin
    <2>2. Idle \in Job
      BY IdleIsSound
    <2> QED
      BY <1>4, <2>1, <2>2
      DEF CommandBegins, CmdAddProfile, CmdRemoveProfile, CmdSetDefault,
          CallRenameProfile, CmdEditProfile, Job
  <1>5. ASSUME NEW s \in Settings, SubmitEdit(c, s)
        PROVE  SavesInductive'
    <2> DEFINE new == [job EXCEPT !.pc = "load", !.settings = s]
    <2>1. cmd' = [cmd EXCEPT ![c] = new] /\ UNCHANGED <<file, told, overlapped>>
      BY <1>1, <1>5 DEF SubmitEdit, job
    <2>2. new.pc = "load"
      BY <1>1 DEF Job
    <2> HIDE DEF new
    <2> QED
      BY <1>3, <2>1, <2>2
  <1>6. CASE AbandonEdit(c) \/ GiveUp(c) \/ Kill(c)
    <2>1. Idle.pc = "idle"
      BY DEF Idle
    <2> QED
      BY <1>3, <1>6, <2>1 DEF AbandonEdit, GiveUp, Kill
  <1>7. CASE Load(c)
    <2> DEFINE new == [job EXCEPT !.pc = "open",
                                  !.config = Changed(job, file.config)]
    <2>1. /\ cmd' = [cmd EXCEPT ![c] = new]
          /\ UNCHANGED <<file, told, overlapped>>
          /\ job.pc = "load"
          /\ Readable
          /\ Applies(job, file.config)
      BY <1>1, <1>7 DEF Load, job
    <2>2. /\ new.op = job.op /\ new.key = job.key /\ new.to = job.to
          /\ new.settings = job.settings
          /\ new.config = Changed(job, file.config)
      BY <1>1 DEF Job
    <2> HIDE DEF new
    <2>3. ToldTruly(Name \ overlapped, file.config)
      BY <2>1 DEF SavesInductive, Readable
    <2>4. /\ \A n \in Name \ About(job) :
               SettingsOf(Changed(job, file.config), n)
                 = SettingsOf(file.config, n)
          /\ job.op = "add"
               => SettingsOf(Changed(job, file.config), job.key) = job.settings
      BY <1>1, <2>1, ChangedSettles
    <2>5. ToldTruly(Name \ (overlapped \cup About(new)), new.config)
      BY <2>2, <2>3, <2>4 DEF ToldTruly, About
    <2> QED
      BY <1>2, <2>1, <2>2, <2>4, <2>5, SavesStay
  <1>8. CASE Open(c)
    <2> DEFINE new == [job EXCEPT !.pc = "write"]
    <2>1. /\ cmd' = [cmd EXCEPT ![c] = new]
          /\ file' = Emptied
          /\ UNCHANGED <<told, overlapped>>
          /\ job.pc = "open"
      BY <1>1, <1>8 DEF Open, job
    <2>2. /\ new.op = job.op /\ new.key = job.key /\ new.to = job.to
          /\ new.settings = job.settings /\ new.config = job.config
      BY <1>1 DEF Job
    <2> HIDE DEF new
    <2>3. /\ ToldTruly(Name \ (overlapped \cup About(job)), job.config)
          /\ job.op = "add" => SettingsOf(job.config, job.key) = job.settings
      BY <2>1 DEF SavesInductive, Holds, job
    <2>4. ToldTruly(Name \ (overlapped \cup About(new)), new.config)
      BY <2>2, <2>3 DEF ToldTruly, About
    <2> QED
      BY <1>2, <2>1, <2>2, <2>3, <2>4, SavesStay
  <1>9. CASE Write(c)
    BY <1>2, <1>9, WriteKeepsSaves
  <1> QED
    BY <1>4, <1>5, <1>6, <1>7, <1>8, <1>9 DEF CommandGoesOn

\* What a command reported as saved is in the file until it is reported as
\* changed or removed, for any number of commands that interleave and are
\* killed anywhere, unless it was reported while another command held what it
\* had read before (cli.py, "saved successfully").
THEOREM SavedProfilesStay == ProfilesSpec => []SavedStays
  <1>1. ProfilesInit => SavesInductive
    <2> SUFFICES ASSUME ProfilesInit PROVE SavesInductive
      OBVIOUS
    <2>1. \A c \in Command : ~ Holds(cmd[c])
      BY DEF ProfilesInit, Idle, Holds
    <2>2. ToldTruly(Name \ overlapped, file.config)
      BY DEF ProfilesInit, ToldTruly
    <2> QED
      BY <2>1, <2>2, ProfilesInitSound DEF SavesInductive
  <1>2. SavesInductive /\ [ProfilesNext]_profileVars => SavesInductive'
    <2>1. CASE ProfilesNext
      BY <2>1, CommandSaves DEF ProfilesNext
    <2>2. CASE UNCHANGED profileVars
      <3>1. UNCHANGED <<file, cmd, told, overlapped, killed>>
        BY <2>2 DEF profileVars
      <3> QED
        BY <2>2, <3>1, ProfilesStutter
        DEF SavesInductive, ToldTruly, Holds, About
    <2> QED
      BY <2>1, <2>2
  <1>3. SavesInductive => SavedStays
    BY DEF SavesInductive, SavedStays, ToldTruly
  <1> QED
    BY <1>1, <1>2, <1>3, PTL DEF ProfilesSpec

-----------------------------------------------------------------------------
(* One command at a time, killed wherever it stands: an edit that renames   *)
(* loses no profile.                                                       *)

OneAtATime == \A c, d \in Command : c = d

\* Each step of the command keeps what is known of it and of the file.
LEMMA OneSteps ==
    ASSUME OneAtATime, OneInductive, ProfilesNext
    PROVE  OneInductive'
  <1>1. PICK c \in Command : CommandBegins(c) \/ CommandGoesOn(c)
    BY DEF ProfilesNext
  <1> DEFINE job == cmd[c]
  <1>2. /\ ProfilesInductive
        /\ cmd \in [Command -> Job]
        /\ job \in Job
        /\ JobKnown(job)
        /\ told \in [Name -> Settings \cup {NoSettings}]
        /\ file.config \in Config
        /\ file.is \in {"absent", "empty", "whole"}
        /\ Sound(file.config)
        /\ file.is = "empty" => file = Emptied
        /\ job.from # NoName => job.op = "add"
        /\ job.pc = "open"
             => /\ file.is # "empty"
                /\ Applies(job, file.config)
                /\ job.config = Changed(job, file.config)
        /\ job.pc = "write"
             => /\ file.is = "empty"
                /\ job.op = "add"
                     => SettingsOf(job.config, job.key) = job.settings
        /\ file.is # "empty" => EditKnown(job, file.config)
    BY DEF OneInductive, ProfilesInductive, ProfilesTypeOK
  <1>3. \A d \in Command : d = c
    BY DEF OneAtATime
  <1>4. ProfilesInductive'
    BY <1>1, <1>2, CommandKeeps
  <1> HIDE DEF job
  <1>5. ASSUME NEW new, cmd' = [cmd EXCEPT ![c] = new], UNCHANGED <<file, told>>,
               new.pc # "write", new.from # NoName => new.op = "add",
               new.pc = "open"
                 => /\ file.is # "empty"
                    /\ Applies(new, file.config)
                    /\ new.config = Changed(new, file.config),
               file.is # "empty" => EditKnown(new, file.config)
        PROVE  OneInductive'
    <2>1. cmd'[c] = new
      BY <1>2, <1>5
    <2> QED
      BY <1>2, <1>3, <1>4, <1>5, <2>1 DEF OneInductive
  <1>6. Idle.pc = "idle" /\ Idle.from = NoName /\ EditKnown(Idle, file.config)
    BY DEF Idle, EditKnown
  <1>7. CASE CommandBegins(c)
    <2>1. UNCHANGED <<file, told>>
      BY <1>7 DEF CommandBegins, CmdAddProfile, CmdRemoveProfile,
                  CmdSetDefault, CallRenameProfile, CmdEditProfile, Begin
    <2>2. \E new : /\ cmd' = [cmd EXCEPT ![c] = new]
                   /\ new.pc \in {"load", "edit"}
                   /\ new.from # NoName => new.op = "add"
                   /\ EditKnown(new, file.config)
      <3> DEFINE Begun == \E new : /\ cmd' = [cmd EXCEPT ![c] = new]
                                   /\ new.pc \in {"load", "edit"}
                                   /\ new.from # NoName => new.op = "add"
                                   /\ EditKnown(new, file.config)
      <3>1. \A new : /\ Begin(c, new) /\ new.pc \in {"load", "edit"}
                     /\ new.from # NoName => new.op = "add"
                     /\ EditKnown(new, file.config)
                     => Begun
        BY DEF Begin
      <3>2. Idle \in Job /\ Idle.from = NoName /\ Idle.to = NoName
        BY IdleIsSound DEF Idle
      <3> HIDE DEF Begun
      <3>3. ASSUME NEW name \in Name,
                   CmdRemoveProfile(c, name) \/ CmdSetDefault(c, name)
            PROVE  Begun
        BY <3>1, <3>2, <3>3 DEF CmdRemoveProfile, CmdSetDefault, Job, EditKnown
      <3>4. ASSUME NEW name \in Name, NEW s \in Settings, NEW d \in BOOLEAN,
                   CmdAddProfile(c, name, s, d)
            PROVE  Begun
        BY <3>1, <3>2, <3>4 DEF CmdAddProfile, Job, EditKnown
      <3>5. ASSUME NEW name \in Name, NEW other \in Name,
                   CallRenameProfile(c, name, other)
            PROVE  Begun
        BY <3>1, <3>2, <3>5 DEF CallRenameProfile, Job, EditKnown
      <3>6. ASSUME NEW name \in Name, NEW newName \in Name,
                   CmdEditProfile(c, name, newName)
            PROVE  Begun
        BY <3>1, <3>2, <3>6 DEF CmdEditProfile, Job, EditKnown
      <3>7. Begun
        BY <1>7, <3>3, <3>4, <3>5, <3>6 DEF CommandBegins
      <3> QED
        BY <3>7 DEF Begun
    <2>3. PICK new : /\ cmd' = [cmd EXCEPT ![c] = new]
                     /\ new.pc \in {"load", "edit"}
                     /\ new.from # NoName => new.op = "add"
                     /\ EditKnown(new, file.config)
      BY <2>2
    <2>4. new.pc # "write" /\ new.pc # "open"
      BY <2>3
    <2> QED
      BY <1>5, <2>1, <2>3, <2>4
  <1>8. ASSUME NEW s \in Settings, SubmitEdit(c, s)
        PROVE  OneInductive'
    <2> DEFINE new == [job EXCEPT !.pc = "load", !.settings = s]
    <2>1. cmd' = [cmd EXCEPT ![c] = new] /\ UNCHANGED <<file, told>>
      BY <1>2, <1>8 DEF SubmitEdit, job
    <2>2. /\ new.pc = "load" /\ new.op = job.op /\ new.from = job.from
          /\ new.key = job.key /\ new.to = job.to
      BY <1>2 DEF Job
    <2> HIDE DEF new
    <2>3. file.is # "empty" => EditKnown(new, file.config)
      BY <1>2, <2>2 DEF EditKnown
    <2> QED
      BY <1>2, <1>5, <2>1, <2>2, <2>3
  <1>9. CASE AbandonEdit(c) \/ GiveUp(c) \/ Kill(c)
    BY <1>5, <1>6, <1>9 DEF AbandonEdit, GiveUp, Kill
  <1>10. CASE Load(c)
    <2> DEFINE new == [job EXCEPT !.pc = "open",
                                  !.config = Changed(job, file.config)]
    <2>1. /\ cmd' = [cmd EXCEPT ![c] = new]
          /\ UNCHANGED <<file, told>>
          /\ job.pc = "load"
          /\ Readable
          /\ Applies(job, file.config)
      BY <1>2, <1>10 DEF Load, job
    <2>2. /\ new.pc = "open"
          /\ new.op = job.op
          /\ new.key = job.key
          /\ new.to = job.to
          /\ new.from = job.from
          /\ new.settings = job.settings
          /\ new.asDefault = job.asDefault
          /\ new.config = Changed(job, file.config)
      BY <1>2 DEF Job
    <2> HIDE DEF new
    <2>3. /\ file.is # "empty"
          /\ Applies(new, file.config)
          /\ new.config = Changed(new, file.config)
      BY <2>1, <2>2 DEF Applies, Changed, Readable
    <2>4. EditKnown(new, file.config)
      BY <1>2, <2>2, <2>3 DEF EditKnown
    <2> QED
      BY <1>2, <1>5, <2>1, <2>2, <2>3, <2>4
  <1>11. CASE Open(c)
    <2> DEFINE new == [job EXCEPT !.pc = "write"]
    <2>1. /\ cmd' = [cmd EXCEPT ![c] = new]
          /\ file' = Emptied /\ told' = told
          /\ job.pc = "open"
      BY <1>2, <1>11 DEF Open, job
    <2>2. /\ cmd'[c] = new /\ new.pc = "write" /\ new.config = job.config
          /\ new.op = job.op /\ new.key = job.key /\ new.to = job.to
          /\ new.settings = job.settings /\ new.from = job.from
      BY <1>2, <2>1 DEF Job
    <2> HIDE DEF new
    <2>3. file'.is = "empty"
      BY <2>1 DEF Emptied
    <2>4. job.config = Changed(job, file.config)
      BY <1>2, <2>1
    <2>5. job.op = "add" => SettingsOf(job.config, job.key) = job.settings
      BY <1>2, <2>1, <2>4, ChangedSettles
    <2>6. \A d \in Command : d = c
      BY <1>3
    <2>7. cmd'[c].op = "add"
            => SettingsOf(cmd'[c].config, cmd'[c].key) = cmd'[c].settings
      BY <2>2, <2>5
    <2> QED
      BY <1>2, <1>4, <2>1, <2>2, <2>3, <2>6, <2>7 DEF OneInductive
  <1>12. CASE Write(c)
    <2> DEFINE new == AfterSave(job)
    <2>1. /\ cmd' = [cmd EXCEPT ![c] = new]
          /\ file' \in Landed(job.config)
          /\ told' = Reported(job)
          /\ job.pc = "write"
      BY <1>2, <1>12 DEF Write, job
    <2>2. file' = Whole(job.config)
      BY <1>2, <2>1 DEF Landed
    <2>3. file'.is = "whole" /\ file'.config = job.config
      BY <2>2 DEF Whole
    <2>4. cmd'[c] = new /\ new.pc \in {"idle", "load"}
      BY <1>2, <2>1 DEF AfterSave, Idle
    <2>5. EditKnown(new, job.config)
      <3>1. CASE job.from = NoName
        BY <3>1 DEF AfterSave, Idle, EditKnown
      <3>2. CASE job.from # NoName
        <4>1. /\ job.op = "add" /\ job.settings \in Settings
              /\ SettingsOf(job.config, job.key) = job.settings
          BY <1>2, <2>1, <3>2 DEF JobKnown
        <4>2. job.key \in Keys(job.config)
          BY <4>1, SettingsAssumption DEF SettingsOf
        <4>3. new.op = "remove" /\ new.to = job.key
          BY <3>2 DEF AfterSave, Idle
        <4> QED
          BY <4>2, <4>3 DEF EditKnown
      <3> QED
        BY <3>1, <3>2
    <2>a. new.from # NoName => new.op = "add"
      BY DEF AfterSave, Idle
    <2> HIDE DEF new
    <2> QED
      BY <1>2, <1>3, <1>4, <2>3, <2>4, <2>5, <2>a DEF OneInductive
  <1> QED
    BY <1>1, <1>7, <1>8, <1>9, <1>10, <1>11, <1>12 DEF CommandGoesOn

\* One command at a time, whatever it is and wherever it is killed.
THEOREM OneCommandIsSound ==
    ASSUME OneAtATime
    PROVE  ProfilesSpec => []OneInductive
  <1>1. ProfilesInit => OneInductive
    <2> SUFFICES ASSUME ProfilesInit PROVE OneInductive
      OBVIOUS
    <2>1. file.is \in {"absent", "whole"} /\ \A c \in Command : cmd[c] = Idle
      BY DEF ProfilesInit, NoFile, Whole
    <2>2. Idle.pc = "idle" /\ Idle.from = NoName /\ EditKnown(Idle, file.config)
      BY DEF Idle, EditKnown
    <2> QED
      BY <2>1, <2>2, ProfilesInitSound DEF OneInductive
  <1>2. OneInductive /\ [ProfilesNext]_profileVars => OneInductive'
    <2>1. CASE ProfilesNext
      BY <2>1, OneSteps
    <2>2. CASE UNCHANGED profileVars
      <3>1. UNCHANGED <<file, cmd, told, overlapped, killed>>
        BY <2>2 DEF profileVars
      <3> QED
        BY <2>2, <3>1, ProfilesStutter
        DEF OneInductive, Applies, Changed, EditKnown
    <2> QED
      BY <2>1, <2>2
  <1> QED
    BY <1>1, <1>2, PTL DEF ProfilesSpec

\* An edit that renames leaves the profile under one of its names at least,
\* wherever it is killed (cmd_edit_profile).
THEOREM EditsKeepProfiles ==
    ASSUME OneAtATime
    PROVE  ProfilesSpec => []EditKeepsProfile
  <1>1. OneInductive => EditKeepsProfile
    BY DEF OneInductive, EditKnown, EditKeepsProfile, RenamedBy
  <1> QED
    BY <1>1, OneCommandIsSound, PTL
=============================================================================
