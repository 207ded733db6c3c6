------------------------------- MODULE MCTools -------------------------------
(* Instances of the server and its tools for TLC. *)
EXTENDS ToolSafety

CONSTANTS n1, n2, full, other, readonly, u1, u2, t1, t2, q1, k1

EntryFor(name, settings) == [key |-> name, name |-> name, settings |-> settings]

\* The default profile does not permit the operation; another one does.
TwoProfiles ==
    [profiles |-> <<EntryFor(n1, readonly), EntryFor(n2, full)>>,
     default |-> n1]

ByHand == {TwoProfiles}

\* Both profiles permit everything.
BothFull ==
    [profiles |-> <<EntryFor(n1, full), EntryFor(n2, readonly)>>,
     default |-> n1]

AllGranted == {BothFull}

NoUserProfiles == <<>>

\* Two users of the same database have profiles of the same name.
SameDatabase ==
    [u \in {u1, u2} |->
        [name |-> n1, settings |-> IF u = u1 THEN full ELSE other]]

\* Bound: the server is started once, and metadata are all that is asked for.
CacheNext ==
    \/ \E named \in Name \cup {NoName}, oauth \in Modes :
            StartServer(named, oauth)
    \/ \E t \in Call :
        \/ CallBegins(t)
        \/ CheckTool(t) \/ CheckOperation(t) \/ GetClient(t)
        \/ Lookup(t) \/ Evict(t) \/ ReadMetadata(t) \/ StoreMetadata(t)
        \/ CallFails(t) \/ FinishCall(t)
    \/ Tick

CacheSpec == Init /\ [][CacheNext]_vars

Swaps == Permutations(Call)
==============================================================================
