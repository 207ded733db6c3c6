--------------------------- MODULE OAuthDelegation ---------------------------
(***************************************************************************)
(* The authorization server implements Delegation: what is stored and      *)
(* delegated is read off the tables, what was delegated once off the       *)
(* history of opened grants, and the requests off the handlers.            *)
(***************************************************************************)
EXTENDS OAuthInvariant

StoredFor ==
    {<<s.cred, s.client>> : s \in {s \in signins : s.cred \in creds}}

DelegatedTo == {<<g.cred, g.client>> : g \in grants}

InUse ==
    {<<t, <<ctx[t].cred, ctx[t].client>>>> : t \in {t \in Task : Using(t)}}

Abstract == INSTANCE Delegation WITH
    stored <- StoredFor,
    spent <- {o.cred : o \in opened},
    granted <- DelegatedTo,
    requests <- InUse

(* Every step of every handler, command and process is a step of           *)
(* Delegation or leaves it as it was: a credential is delegated once, to   *)
(* the client it was signed in for; a request starts under a standing      *)
(* delegation; a credential is erased only after its delegation was        *)
(* withdrawn, and nothing else erases one.                                 *)
Delegates == Abstract!Spec
=============================================================================
