--------------------------- MODULE OAuthInvariant ---------------------------
(***************************************************************************)
(* The inductive invariant behind the safety properties of OAuthSafety.    *)
(*                                                                         *)
(* A credential, and the code minted with it, moves through three holders: *)
(* the code's row, the task that redeems it, and the opening of a grant,   *)
(* which history keeps.  Custody says that no credential and no code is    *)
(* with two of them, nor twice with one of them; everything about grants   *)
(* is then read off their openings.                                        *)
(***************************************************************************)
EXTENDS OAuthSafety

Holding(t) == pc[t] \in {"put_code", "create_grant"}
Redeeming(t) == pc[t] = "create_grant"
Issuing(t) == pc[t] \in {"put_access", "put_refresh"}
Using(t) == pc[t] \in {"get_credential", "serving"}
Revoking(t) == pc[t] \in {"delete_grant", "count_grants", "delete_credential"}

\* Ids are handed out once: what is stored or remembered is at most the last
\* id of its kind, and ids are keys.
Fresh ==
    /\ \A k \in creds : k <= minted["cred"]
    /\ \A c \in codes : c.id <= minted["code"] /\ c.cred <= minted["cred"]
    /\ \A g \in grants : g.id <= minted["grant"]
    /\ \A a \in access \cup refresh : a.grant <= minted["grant"]
    /\ \A s \in signins : s.cred <= minted["cred"]
    /\ \A o \in opened : /\ o.code <= minted["code"]
                         /\ o.cred <= minted["cred"]
                         /\ o.grant <= minted["grant"]
    /\ \A t \in Task : /\ ctx[t].code <= minted["code"]
                       /\ ctx[t].cred <= minted["cred"]
                       /\ ctx[t].grant <= minted["grant"]

Keys ==
    /\ \A c, d \in codes : c.id = d.id => c = d
    /\ \A g, h \in grants : g.id = h.id => g = h

\* The foreign keys the database enforces.
References ==
    /\ \A c \in codes : c.cred \in creds
    /\ \A g \in grants : g.cred \in creds
    /\ \A a \in access \cup refresh : HasGrant(a.grant)

Custody ==
    /\ \A c, d \in codes : c.cred = d.cred => c = d
    /\ \A t \in Task, c \in codes : Holding(t) => ctx[t].cred # c.cred
    /\ \A t \in Task, c \in codes : Redeeming(t) => ctx[t].code # c.id
    /\ \A t, u \in Task :
            Holding(t) /\ Holding(u) /\ ctx[t].cred = ctx[u].cred => t = u
    /\ \A t, u \in Task :
            Redeeming(t) /\ Redeeming(u) /\ ctx[t].code = ctx[u].code => t = u
    /\ \A o \in opened, c \in codes : o.cred # c.cred /\ o.code # c.id
    /\ \A o \in opened, t \in Task : Holding(t) => o.cred # ctx[t].cred
    /\ \A o \in opened, t \in Task : Redeeming(t) => o.code # ctx[t].code
    /\ \A o, p \in opened :
            o.cred = p.cred \/ o.code = p.code \/ o.grant = p.grant => o = p

\* Every grant, and every task that uses or revokes one, goes back to an
\* opening.
Openings ==
    /\ \A g \in grants : \E o \in opened :
            o.grant = g.id /\ o.cred = g.cred /\ o.client = g.client
    /\ \A t \in Task : Using(t) => \E o \in opened :
            o.grant = ctx[t].grant /\ o.cred = ctx[t].cred
              /\ o.client = ctx[t].client
    /\ \A t \in Task : Revoking(t) => \E o \in opened :
            o.grant = ctx[t].grant /\ o.cred = ctx[t].cred
    /\ \A t \in Task :
            pc[t] \in {"count_grants", "delete_credential"} =>
                ~HasGrant(ctx[t].grant)

\* The client on a code or an opening is the one its user signed in for.
SignedIn(k, c) == \E s \in signins : s.cred = k /\ s.client = c

Provenance ==
    /\ \A c \in codes : SignedIn(c.cred, c.client)
    /\ \A t \in Task : Holding(t) => SignedIn(ctx[t].cred, ctx[t].client)
    /\ \A o \in opened : SignedIn(o.cred, o.client)

\* One refresh chain and one access token for each grant.
Succession ==
    /\ \A r, s \in refresh : r.grant = s.grant => r = s
    /\ \A t \in Task, r \in refresh : Issuing(t) => ctx[t].grant # r.grant
    /\ \A t, u \in Task :
            Issuing(t) /\ Issuing(u) /\ ctx[t].grant = ctx[u].grant => t = u
    /\ \A a, b \in access : a.grant = b.grant => a = b
    /\ \A t \in Task, a \in access :
            pc[t] = "put_access" => ctx[t].grant # a.grant

(* The inductive invariant: ids are fresh, every credential and every code *)
(* is in one place, every grant and every task that works for one goes     *)
(* back to an opening, and no grant has two chains.                        *)
Inductive ==
    /\ TypeOK
    /\ Fresh
    /\ Keys
    /\ References
    /\ CredentialStays
    /\ Custody
    /\ Openings
    /\ Provenance
    /\ Succession

-----------------------------------------------------------------------------
(* The logins tried for one transaction: while its row is there, each of   *)
(* them is counted in the row, in flight, or lost in a fault.              *)

LoginLabels == {"validating", "put_code", "close_txn", "read_attempts",
                "cancel_txn"}

\* The handlers whose login for transaction x is not counted yet, or never will
\* be because it succeeded, and those that have counted it.
Trying(x) ==
    {t \in Handler : /\ pc[t] \in {"validating", "put_code", "close_txn"}
                     /\ ctx[t].txn = x}
Counting(x) ==
    {t \in Handler : pc[t] \in {"read_attempts", "cancel_txn"} /\ ctx[t].txn = x}

\* A fault ends every handler of a process at most.
Lost == Cardinality(Handler) * faults

LoginsKnown ==
    /\ LoginsBounded
    /\ minted["txn"] <= MaxTxn
    /\ \A t \in Task : pc[t] \in LoginLabels => t \in Handler
    /\ \A x \in 1..MaxTxn : x > minted["txn"] => dialled[x] = 0
    /\ \A row \in txns :
        /\ row.id \in 1..minted["txn"]
        /\ dialled[row.id] <= row.attempts + Cardinality(Trying(row.id)) + Lost
        /\ dialled[row.id] <= AttemptLimit - 1 + Lost
              + Cardinality(Trying(row.id) \cup Counting(row.id))

\* What the runs check of every state, for any number of logins too.
ServerInductive == Inductive /\ LoginsKnown
=============================================================================
