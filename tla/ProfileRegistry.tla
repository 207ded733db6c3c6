--------------------------- MODULE ProfileRegistry ---------------------------
(***************************************************************************)
(* What the user of the profile commands is promised: named profiles, one  *)
(* of them the default, and every change made at once and to the profile   *)
(* it names.  There is no file here and no order.                          *)
(***************************************************************************)
CONSTANTS Name, NoName, Settings, NoSettings

VARIABLES
    saved,     \* saved[n]: the settings of profile n, if there is one
    default    \* the name of the default profile, if there is one

registry == <<saved, default>>

Named(s) == {n \in Name : s[n] # NoSettings}

\* A default exactly when there are profiles, and one of them.
Consistent(s, d) == IF Named(s) = {} THEN d = NoName ELSE d \in Named(s)

Init ==
    /\ saved \in [Name -> Settings \cup {NoSettings}]
    /\ default \in Name \cup {NoName}
    /\ Consistent(saved, default)

\* The first profile becomes the default.
Save(n, settings) ==
    /\ saved' = [saved EXCEPT ![n] = settings]
    /\ default' \in IF default = NoName THEN {n} ELSE {default, n}

\* When the default goes, another profile takes its place.
Drop(n) ==
    /\ n \in Named(saved)
    /\ saved' = [saved EXCEPT ![n] = NoSettings]
    /\ IF default = n
       THEN Consistent(saved', default') /\ default' \in Name \cup {NoName}
       ELSE default' = default

Rename(n, to) ==
    /\ n \in Named(saved)
    /\ to \notin Named(saved)
    /\ saved' = [saved EXCEPT ![n] = NoSettings, ![to] = saved[n]]
    /\ default' = IF default = n THEN to ELSE default

Choose(n) ==
    /\ n \in Named(saved)
    /\ default' = n
    /\ saved' = saved

Next ==
    \E n \in Name :
        \/ \E s \in Settings : Save(n, s)
        \/ Drop(n)
        \/ \E to \in Name : Rename(n, to)
        \/ Choose(n)

Spec == Init /\ [][Next]_registry
==============================================================================
