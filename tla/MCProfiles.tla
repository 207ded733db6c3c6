----------------------------- MODULE MCProfiles ------------------------------
(* Instances of the profile commands for TLC. *)
EXTENDS ProfileSafety

CONSTANTS n1, n2, n3, k1, k2, full, readonly

\* Written by hand: permissions can be given in no other way.
OneProfile ==
    [profiles |-> <<[key |-> n1, name |-> n1, settings |-> readonly]>>,
     default |-> n1]

TwoProfiles ==
    [profiles |-> <<[key |-> n1, name |-> n1, settings |-> readonly],
                    [key |-> n2, name |-> n2, settings |-> full]>>,
     default |-> n2]

ByHand == {OneProfile, TwoProfiles}

\* Which command does what is all the same.
Swaps == Permutations(Command)
==============================================================================
