----------------------------- MODULE MCCommands ------------------------------
(***************************************************************************)
(* Profile commands beside a server, and beside each other, for TLC.  What *)
(* commands do to each other does not depend on the server, which only     *)
(* reads the file: the initial state says which of them move.              *)
(***************************************************************************)
EXTENDS MCTools, ProfileSafety

CONSTANT k2

VARIABLE part

allVars == <<part, vars>>

CommandsInit ==
    /\ part \in {"server", "overlap"}
    /\ Init
    /\ part = "overlap" => file = NoFile

\* Bound: what commands save is one of these, or what they have read.
Save(some) == \A c \in Command : cmd'[c].settings \in some \cup {NoSettings}

OneAtOnce == \A c, d \in Command : c # d => cmd'[c] = Idle \/ cmd'[d] = Idle

Beside(A) ==
    part = "server" /\ A /\ OneAtOnce /\ Save({full, readonly}) /\ UNCHANGED part

Overlapping(A) ==
    part = "overlap" /\ A /\ Save({full}) /\ UNCHANGED <<part, callVars>>

\* Bound: no metadata are asked for, and time does not pass.
CommandsNext ==
    \/ Overlapping(ProfilesNext)
    \/ Beside(ProfilesNext /\ UNCHANGED callVars)
    \/ \E named \in Name \cup {NoName}, oauth \in Modes :
            Beside(StartServer(named, oauth))
    \/ Beside(StopServer)
    \/ \E t \in Call :
        \/ Beside(CallBegins(t)) \/ Beside(CheckTool(t))
        \/ Beside(CheckOperation(t)) \/ Beside(GetClient(t))
        \/ Beside(GetVersion(t)) \/ Beside(Send(t))
        \/ Beside(CallFails(t)) \/ Beside(FinishCall(t))

\* Which command does what is all the same.
Exchanges == Permutations(Command)

CommandsSpec == CommandsInit /\ [][CommandsNext]_allVars
==============================================================================
