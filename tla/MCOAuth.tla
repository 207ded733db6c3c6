------------------------------- MODULE MCOAuth -------------------------------
(* Instances of the authorization server for TLC. *)
EXTENDS OAuthDelegation, TLC

CONSTANTS c1, c2, h1, h2, k1, s1, s2

\* Every handler in one process, or each in a process of its own.
OneServer == [t \in Handler |-> s1]
TwoServers == (h1 :> s1) @@ (h2 :> s2)

\* Swapping the two processes, with the handler of each, maps behaviours to
\* behaviours, and so does swapping the clients.
SwapServers == (h1 :> h2) @@ (h2 :> h1) @@ (s1 :> s2) @@ (s2 :> s1)
Swaps == {SwapServers} \cup Permutations(Client)
           \cup {SwapServers @@ p : p \in Permutations(Client)}

\* Bound: where something fails, h2 is idle, and stays so.  A step of a task
\* that has been started is never bounded, so fairness is what it was.
FaultsAlone == faults' > 0 => pc[h2] = "idle" /\ pc'[h2] = "idle"
=============================================================================
