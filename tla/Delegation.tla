----------------------------- MODULE Delegation -----------------------------
(***************************************************************************)
(* What the authorization server is for, without its database: a user      *)
(* signs in for a client, which stores a credential; the credential is     *)
(* delegated to that client, at most once; the client's requests are       *)
(* served with it while the delegation stands; the delegation is withdrawn *)
(* and the credential erased, in this order.                               *)
(***************************************************************************)
CONSTANTS
    Client,    \* those a credential is delegated to
    Task       \* those that serve requests

VARIABLES
    stored,    \* <<k, c>>: credential k is stored, signed in for client c
    spent,     \* the credentials delegated so far
    granted,   \* <<k, c>>: credential k is delegated to client c
    requests   \* <<t, <<k, c>>>>: t serves a request of c with k

vars == <<stored, spent, granted, requests>>

Init ==
    /\ stored = {}
    /\ spent = {}
    /\ granted = {}
    /\ requests = {}

SignIn(k, c) ==
    /\ c \in Client
    /\ k \notin spent
    /\ \A p \in stored : p[1] # k
    /\ stored' = stored \cup {<<k, c>>}
    /\ UNCHANGED <<spent, granted, requests>>

Delegate(k, c) ==
    /\ k \notin spent
    /\ granted' = granted \cup {<<k, c>>}
    /\ spent' = spent \cup {k}
    /\ UNCHANGED <<stored, requests>>

Withdraw(k, c) ==
    /\ granted' = granted \ {<<k, c>>}
    /\ UNCHANGED <<stored, spent, requests>>

Erase(k) ==
    /\ \A p \in granted : p[1] # k
    /\ stored' = {p \in stored : p[1] # k}
    /\ UNCHANGED <<spent, granted, requests>>

\* A request starts under a standing delegation.  It works with a copy of the
\* credential, so a withdrawal does not stop it.
Begin(t, p) ==
    /\ \A r \in requests : r[1] # t
    /\ requests' = requests \cup {<<t, p>>}
    /\ UNCHANGED <<stored, spent, granted>>

\* Some requests end: one by one, or all those of a killed process.
End ==
    /\ requests' \subseteq requests
    /\ UNCHANGED <<stored, spent, granted>>

\* A sign-in is for any credential that was not stored before.
Next ==
    \/ \E p \in stored' : SignIn(p[1], p[2])
    \/ \E p \in stored : Delegate(p[1], p[2])
    \/ \E p \in granted : Withdraw(p[1], p[2])
    \/ \E k \in spent : Erase(k)
    \/ \E t \in Task, p \in granted : Begin(t, p)
    \/ End

Spec == Init /\ [][Next]_vars
=============================================================================
