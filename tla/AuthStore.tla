------------------------------ MODULE AuthStore ------------------------------
(***************************************************************************)
(* The SQLite database of the authorization server (http/store.py): its    *)
(* tables as sets of rows, and one action per SQL statement that changes   *)
(* them.                                                                   *)
(*                                                                         *)
(* AuthStore._connect opens every connection with isolation_level=None, so *)
(* each statement commits by itself, inside `with self._transaction()` as  *)
(* well.  Only consume_code and rotate_refresh_token say BEGIN IMMEDIATE;  *)
(* they are the two actions below that do more than one statement's work.  *)
(*                                                                         *)
(* Row ids are random tokens (secrets.token_urlsafe, secrets.token_hex).   *)
(* Only their being distinct matters here: the n-th id of a kind is n, and *)
(* minted counts the ids handed out so far.  Time is abstracted to whether *)
(* a row's expires_at has passed, the field expired.                       *)
(*                                                                         *)
(* Definitions named Bad... are mutations: what a plausible bug would make  *)
(* of the definition that follows.  Nothing uses them but the check that a *)
(* property notices the bug.                                               *)
(***************************************************************************)
EXTENDS Naturals

CONSTANTS
    Client,          \* registered OAuth clients
    AttemptLimit,    \* MAX_LOGIN_ATTEMPTS
    RefreshExpires   \* FALSE when refresh_token_ttl is empty: no expiry

ASSUME AttemptLimitAssumption == AttemptLimit \in Nat \ {0}
ASSUME RefreshExpiresAssumption == RefreshExpires \in BOOLEAN

VARIABLES
    creds,      \* ids of the rows of odoo_credentials
    txns,       \* rows of auth_txns
    codes,      \* rows of auth_codes
    grants,     \* rows of grants
    access,     \* rows of access_tokens
    refresh,    \* rows of refresh_tokens
    minted      \* how many ids of each kind were handed out

store == <<creds, txns, codes, grants, access, refresh, minted>>

Kind == {"txn", "cred", "code", "grant", "access", "refresh"}

TxnRow == [id : Nat, client : Client, attempts : Nat, expired : BOOLEAN]
CodeRow == [id : Nat, client : Client, cred : Nat, expired : BOOLEAN]
GrantRow == [id : Nat, client : Client, cred : Nat]
TokenRow == [id : Nat, grant : Nat, expired : BOOLEAN]

StoreTypeOK ==
    /\ creds \subseteq Nat
    /\ txns \subseteq TxnRow
    /\ codes \subseteq CodeRow
    /\ grants \subseteq GrantRow
    /\ access \subseteq TokenRow
    /\ refresh \subseteq TokenRow
    /\ minted \in [Kind -> Nat]

StoreInit ==
    /\ creds = {}
    /\ txns = {}
    /\ codes = {}
    /\ grants = {}
    /\ access = {}
    /\ refresh = {}
    /\ minted = [k \in Kind |-> 0]

NewId(kind) == minted[kind] + 1

Mint(kind) == minted' = [minted EXCEPT ![kind] = @ + 1]

HasGrant(g) == \E row \in grants : row.id = g

GrantsOf(k) == {g \in grants : g.cred = k}

-----------------------------------------------------------------------------
(* Consent transactions *)

PutTxn(c) ==
    /\ txns' = txns \cup {[id |-> NewId("txn"), client |-> c,
                           attempts |-> 0, expired |-> FALSE]}
    /\ Mint("txn")
    /\ UNCHANGED <<creds, codes, grants, access, refresh>>

\* get_txn: the row of a known transaction that has not expired.
LiveTxn(row) == row \in txns /\ ~row.expired

\* bump_txn_attempts, first statement.  It does not look at expires_at, and
\* an id whose row is gone matches nothing.
CountAttempt(x) ==
    /\ txns' = {IF row.id = x THEN [row EXCEPT !.attempts = @ + 1] ELSE row :
                  row \in txns}
    /\ UNCHANGED <<creds, codes, grants, access, refresh, minted>>

\* The comparison is off by one.
BadAttemptsExhausted(x) ==
    \A row \in txns : row.id = x => row.attempts > AttemptLimit

\* bump_txn_attempts, second statement: a missing row counts as the limit.
AttemptsExhausted(x) ==
    \A row \in txns : row.id = x => row.attempts >= AttemptLimit

\* delete_txn, and the last statement of bump_txn_attempts.
DeleteTxn(x) ==
    /\ txns' = {row \in txns : row.id # x}
    /\ UNCHANGED <<creds, codes, grants, access, refresh, minted>>

-----------------------------------------------------------------------------
(* Credentials and authorization codes *)

PutCredential ==
    /\ creds' = creds \cup {NewId("cred")}
    /\ Mint("cred")
    /\ UNCHANGED <<txns, codes, grants, access, refresh>>

\* The foreign key of auth_codes wants the credential's row.
PutCode(c, k) ==
    /\ k \in creds
    /\ codes' = codes \cup {[id |-> NewId("code"), client |-> c, cred |-> k,
                             expired |-> FALSE]}
    /\ Mint("code")
    /\ UNCHANGED <<creds, txns, grants, access, refresh>>

\* The WHERE clause does not look at the client.
BadRedeemable(row, c) == row \in codes /\ ~row.expired

\* The rows peek_code and consume_code select for a client.
Redeemable(row, c) == row \in codes /\ row.client = c /\ ~row.expired

\* The row is read and not deleted.
BadConsumeCode(row) ==
    UNCHANGED <<creds, txns, codes, grants, access, refresh, minted>>

\* consume_code, one transaction: the row is read and deleted.
ConsumeCode(row) ==
    /\ codes' = codes \ {row}
    /\ UNCHANGED <<creds, txns, grants, access, refresh, minted>>

-----------------------------------------------------------------------------
(* Grants and their tokens *)

\* The foreign key of grants wants the credential's row.
CreateGrant(c, k) ==
    /\ k \in creds
    /\ grants' = grants \cup {[id |-> NewId("grant"), client |-> c,
       cred |-> k]}
    /\ Mint("grant")
    /\ UNCHANGED <<creds, txns, codes, access, refresh>>

\* PRAGMA foreign_keys is off.
BadPutAccessToken(g) ==
    /\ access' = access \cup {[id |-> NewId("access"), grant |-> g,
                               expired |-> FALSE]}
    /\ Mint("access")
    /\ UNCHANGED <<creds, txns, codes, grants, refresh>>

\* The foreign keys of both token tables want the grant's row.
PutAccessToken(g) ==
    /\ HasGrant(g)
    /\ access' = access \cup {[id |-> NewId("access"), grant |-> g,
                               expired |-> FALSE]}
    /\ Mint("access")
    /\ UNCHANGED <<creds, txns, codes, grants, refresh>>

PutRefreshToken(g) ==
    /\ HasGrant(g)
    /\ refresh' = refresh \cup {[id |-> NewId("refresh"), grant |-> g,
                                 expired |-> FALSE]}
    /\ Mint("refresh")
    /\ UNCHANGED <<creds, txns, codes, grants, access>>

\* get_access_token and get_refresh_token join the token with its grant.
LiveToken(tok, g) == ~tok.expired /\ g \in grants /\ g.id = tok.grant

\* The spent token stays valid.
BadRotateRefreshToken(tok) ==
    /\ access' = {a \in access : a.grant # tok.grant}
    /\ UNCHANGED <<creds, txns, codes, grants, refresh, minted>>

\* rotate_refresh_token, one transaction: the token and every access token
\* of its grant go.
RotateRefreshToken(tok) ==
    /\ refresh' = refresh \ {tok}
    /\ access' = {a \in access : a.grant # tok.grant}
    /\ UNCHANGED <<creds, txns, codes, grants, minted>>

\* The tokens' foreign key lacks ON DELETE CASCADE.
BadDeleteGrant(g) ==
    /\ grants' = {row \in grants : row.id # g}
    /\ UNCHANGED <<creds, txns, codes, access, refresh, minted>>

\* DELETE FROM grants, which cascades to the grant's tokens.
DeleteGrant(g) ==
    /\ grants' = {row \in grants : row.id # g}
    /\ access' = {a \in access : a.grant # g}
    /\ refresh' = {r \in refresh : r.grant # g}
    /\ UNCHANGED <<creds, txns, codes, minted>>

\* DELETE FROM odoo_credentials, which cascades to codes, grants and, through
\* those, to tokens.
DeleteCredential(k) ==
    /\ creds' = creds \ {k}
    /\ codes' = {c \in codes : c.cred # k}
    /\ grants' = grants \ GrantsOf(k)
    /\ access' = {a \in access : \A g \in GrantsOf(k) : a.grant # g.id}
    /\ refresh' = {r \in refresh : \A g \in GrantsOf(k) : r.grant # g.id}
    /\ UNCHANGED <<txns, minted>>

-----------------------------------------------------------------------------
(* Housekeeping: the four statements of purge_expired *)

Unexpired(table) == {row \in table : ~row.expired}

PurgeTxns ==
    /\ txns' = Unexpired(txns)
    /\ UNCHANGED <<creds, codes, grants, access, refresh, minted>>

\* The purge also drops the credentials no code and no grant refers to.
BadPurgeCodes ==
    /\ codes' = Unexpired(codes)
    /\ creds' = {k \in creds : \/ \E c \in codes' : c.cred = k
                              \/ GrantsOf(k) # {}}
    /\ UNCHANGED <<txns, grants, access, refresh, minted>>

PurgeCodes ==
    /\ codes' = Unexpired(codes)
    /\ UNCHANGED <<creds, txns, grants, access, refresh, minted>>

PurgeAccessTokens ==
    /\ access' = Unexpired(access)
    /\ UNCHANGED <<creds, txns, codes, grants, refresh, minted>>

PurgeRefreshTokens ==
    /\ refresh' = Unexpired(refresh)
    /\ UNCHANGED <<creds, txns, codes, grants, access, minted>>

PurgeStatement ==
    \/ PurgeTxns
    \/ PurgeCodes
    \/ PurgeAccessTokens
    \/ PurgeRefreshTokens

-----------------------------------------------------------------------------
(* The clock passes the expires_at of a row *)

Aged(table, row) == (table \ {row}) \cup {[row EXCEPT !.expired = TRUE]}

TxnExpires ==
    \E row \in Unexpired(txns) :
        /\ txns' = Aged(txns, row)
        /\ UNCHANGED <<creds, codes, grants, access, refresh, minted>>

CodeExpires ==
    \E row \in Unexpired(codes) :
        /\ codes' = Aged(codes, row)
        /\ UNCHANGED <<creds, txns, grants, access, refresh, minted>>

AccessTokenExpires ==
    \E row \in Unexpired(access) :
        /\ access' = Aged(access, row)
        /\ UNCHANGED <<creds, txns, codes, grants, refresh, minted>>

RefreshTokenExpires ==
    /\ RefreshExpires
    /\ \E row \in Unexpired(refresh) :
        /\ refresh' = Aged(refresh, row)
        /\ UNCHANGED <<creds, txns, codes, grants, access, minted>>

TimePasses ==
    \/ TxnExpires
    \/ CodeExpires
    \/ AccessTokenExpires
    \/ RefreshTokenExpires
=============================================================================
