----------------------------- MODULE OAuthSafety -----------------------------
(***************************************************************************)
(* What the authorization server promises, over the handlers of            *)
(* OAuthServer.                                                            *)
(***************************************************************************)
EXTENDS OAuthServer, FiniteSets

(* Who stands between a stored credential and its use.  A sign-in in       *)
(* flight, an unredeemed code, a redemption in flight and a grant are the  *)
(* four ways to hold a credential.                                         *)
Holders(k) ==
    {<<"code", c.id>> : c \in {c \in codes : c.cred = k}}
      \cup {<<"grant", g.id>> : g \in GrantsOf(k)}
      \cup {<<"task", t>> : t \in {t \in Task :
                /\ pc[t] \in {"put_code", "create_grant"}
                /\ ctx[t].cred = k}}

(* A stored credential is never held twice: the code that was redeemed, the *)
(* redemption in flight and the grant exclude each other, whatever          *)
(* processes redeem at the same time.  This is what consume_code's BEGIN    *)
(* IMMEDIATE is for, and what lets revoke_grant erase the credential with   *)
(* the grant.                                                               *)
OneHolder == \A k \in creds : \A h, i \in Holders(k) : h = i

(* put_code and create_grant find the credential they refer to: no         *)
(* revocation, purge or cascade takes it away while a sign-in or a         *)
(* redemption is between its statements, so neither ever fails on its      *)
(* foreign key.                                                            *)
CredentialStays ==
    \A t \in Task :
        pc[t] \in {"put_code", "create_grant"} => ctx[t].cred \in creds

(* The right to issue tokens for a grant: its refresh token, or a task that *)
(* has spent one and is between rotate_refresh_token (or create_grant) and  *)
(* put_refresh_token.                                                       *)
Chains(g) ==
    {<<"token", r.id>> : r \in {r \in refresh : r.grant = g}}
      \cup {<<"task", t>> : t \in {t \in Task :
                /\ pc[t] \in {"put_access", "put_refresh"}
                /\ ctx[t].grant = g}}

(* A grant has one refresh chain: a refresh token that two processes       *)
(* present at once is spent once and leaves one successor, as              *)
(* exchange_refresh_token ("retiring the previous chain") says.            *)
OneChain == \A g \in grants : \A h, i \in Chains(g.id) : h = i

(* A rotation leaves no older access token behind: a grant never has two   *)
(* of them, expired ones included, even when a fault cuts an issue short.  *)
OneAccessToken == \A a, b \in access : a.grant = b.grant => a = b

(* A code, and a credential, opens at most one grant in the whole history  *)
(* of the database, revocations and restarts included ("Single-use         *)
(* codes").                                                                *)
RedeemedOnce ==
    \A o, p \in opened : o.code = p.code \/ o.cred = p.cred => o = p

(* Grants, and the requests served for them, belong to the client whose    *)
(* user signed in with that credential: no order of sign-ins, redemptions, *)
(* refreshes and revocations hands a credential to another client.         *)
ServedAsSignedIn ==
    /\ \A g \in grants : \E s \in signins :
            s.cred = g.cred /\ s.client = g.client
    /\ \A t \in Task : pc[t] \in {"get_credential", "serving"} =>
            \E s \in signins : s.cred = ctx[t].cred /\ s.client = ctx[t].client

(* Odoo is tried for a transaction at most AttemptLimit times, plus what    *)
(* the handlers already in flight add and what a fault leaves uncounted:    *)
(* login_submit counts an attempt after the login it is to bound.           *)
LoginsBounded ==
    \A x \in 1..MaxTxn :
        dialled[x] <= AttemptLimit - 1 + Cardinality(Handler) * (faults + 1)

(* revoke_grant: "Disconnecting the connector therefore also erases the    *)
(* stored Odoo password".  Once a grant is gone its credential is gone, or *)
(* the task that deleted the grant is still on its way to erase it.        *)
RevocationErases ==
    \A o \in opened :
        ~HasGrant(o.grant) /\ o.cred \in creds =>
            \E t \in Task : /\ pc[t] \in {"count_grants", "delete_credential"}
                            /\ ctx[t].cred = o.cred

-----------------------------------------------------------------------------

(* A grant that is gone is gone for good: whatever refreshes, redemptions  *)
(* and lookups were in flight when it was revoked, no token row for it      *)
(* appears afterwards, no request is let in with one of its tokens, and its *)
(* id never comes back.                                                     *)
StaysGone(g) ==
    ~HasGrant(g) =>
        /\ ~HasGrant(g)'
        /\ \A a \in (access \cup refresh)' : a.grant # g
        /\ \A t \in Task : pc'[t] = "get_credential" =>
               pc[t] = "get_credential" \/ ctx'[t].grant # g

GoneIsGone == [][\A o \in opened : StaysGone(o.grant)]_vars

(* Every handler and every command comes to an end again and again, or     *)
(* waits for Odoo for ever: a refused statement, a grant revoked meanwhile, *)
(* or another handler that hangs in its thread does not keep it, and what   *)
(* follows Odoo's answer is done once the answer is there.                  *)
TaskEnds == \A t \in Task : []<>(pc[t] = "idle") \/ <>[]MayHang(t)

(* A revocation that has started erases the credential, however it         *)
(* interleaves with refreshes, redemptions and other revocations, unless a *)
(* statement fails or a process is killed.                                 *)
RevocationCompletes ==
    \A t \in Task, k \in 1..(2 * MaxTxn) :
        (pc[t] = "delete_grant" /\ ctx[t].cred = k)
            ~> (k \notin creds \/ faults > 0)
=============================================================================
