----------------------------- MODULE OAuthServer -----------------------------
(***************************************************************************)
(* The request handlers of the authorization server (http/provider.py,     *)
(* http/consent.py) and the `odoo-mcp http` commands (cli.py) over the     *)
(* database of AuthStore.                                                  *)
(*                                                                         *)
(* A task is one run of a handler or of a command.  pc[t] names the        *)
(* statement the task executes next and ctx[t] what it has read so far.    *)
(* All handlers of one `serve` process share one event loop: a handler     *)
(* gives it up only at an await, and the only awaits that suspend are the  *)
(* ones that run Odoo calls in a thread ("validating", "serving").         *)
(* Handlers of different processes, and commands, interleave at every      *)
(* statement, since every statement commits by itself.                     *)
(***************************************************************************)
EXTENDS AuthStore

CONSTANTS
    Handler,     \* request handlers that may be in flight
    Command,     \* runs of `odoo-mcp http revoke` and `http purge`
    Server,      \* `serve` processes on this database
    Host,        \* Host[t]: the process handler t runs in
    NoClient,    \* the client of an idle task
    MaxTxn,      \* bound: consent transactions opened
    MaxRefresh,  \* bound: refresh tokens a rotation may add to
    MaxFaults    \* bound: failed statements and killed processes

ASSUME TaskAssumption ==
    /\ Handler \cap Command = {}
    /\ Host \in [Handler -> Server]
    /\ NoClient \notin Client

ASSUME BoundAssumption ==
    /\ MaxTxn \in Nat
    /\ MaxRefresh \in Nat
    /\ MaxFaults \in Nat

VARIABLES
    pc,         \* pc[t]: the next statement of task t
    ctx,        \* ctx[t]: the local variables of task t
    faults,     \* faults so far
    dialled,    \* history: dialled[x], logins tried against Odoo for txn x
    signins,    \* history: the credentials stored and for whom
    opened      \* history: the grants opened and from which code

tasks == <<pc, ctx>>
history == <<dialled, signins, opened>>
vars == <<store, tasks, faults, history>>

Task == Handler \cup Command

\* A task is not between two statements of its process.
Suspended == {"idle", "validating", "serving"}

Running == {"read_attempts", "cancel_txn",
            "put_code", "close_txn",
            "create_grant", "put_access", "put_refresh",
            "get_credential",
            "delete_grant", "count_grants", "delete_credential"}

Context == [client : Client \cup {NoClient}, txn : Nat, cred : Nat,
            code : Nat, grant : Nat]

Blank == [client |-> NoClient, txn |-> 0, cred |-> 0, code |-> 0, grant |-> 0]

SignIn == [txn : Nat, client : Client, cred : Nat]
Opening == [code : Nat, client : Client, cred : Nat, grant : Nat]

\* The labels at which the task has a client.
Named == {"validating", "put_code", "create_grant"}

TaskTypeOK ==
    /\ pc \in [Task -> Suspended \cup Running]
    /\ ctx \in [Task -> Context]
    /\ \A t \in Task : pc[t] \in Named => ctx[t].client \in Client

HistoryTypeOK ==
    /\ faults \in 0..MaxFaults
    /\ dialled \in [1..MaxTxn -> Nat]
    /\ signins \subseteq SignIn
    /\ opened \subseteq Opening

TypeOK == StoreTypeOK /\ TaskTypeOK /\ HistoryTypeOK

Init ==
    /\ StoreInit
    /\ pc = [t \in Task |-> "idle"]
    /\ ctx = [t \in Task |-> Blank]
    /\ faults = 0
    /\ dialled = [x \in 1..MaxTxn |-> 0]
    /\ signins = {}
    /\ opened = {}

-----------------------------------------------------------------------------
(* Control *)

SameLoop(t, u) == t \in Handler /\ u \in Handler /\ Host[t] = Host[u]

\* The event loop of t's process is not inside another handler.
HasLoop(t) == \A u \in Task \ {t} : SameLoop(t, u) => pc[u] \in Suspended

At(t, label) == pc[t] = label /\ HasLoop(t)

Goto(t, label) == pc' = [pc EXCEPT ![t] = label]

Keep(t, local) == ctx' = [ctx EXCEPT ![t] = local]

\* The handler answers, or dies: it keeps nothing.
Finish(t) == Goto(t, "idle") /\ Keep(t, Blank)

-----------------------------------------------------------------------------
(* The consent page *)

\* authorize: GET /authorize parks the request under a transaction id.
Authorize(t, c) ==
    /\ At(t, "idle")
    /\ minted["txn"] < MaxTxn
    /\ PutTxn(c)
    /\ UNCHANGED <<tasks, faults, history>>

\* login_submit up to its await: a live transaction is read, and its copy is
\* what the handler works with from here on.  Submissions refused by the
\* field, host or profile checks change nothing and are left out.
LoginSubmit(t) ==
    \E row \in txns :
        /\ At(t, "idle")
        /\ LiveTxn(row)
        /\ Goto(t, "validating")
        /\ Keep(t, [Blank EXCEPT !.client = row.client, !.txn = row.id])
        /\ dialled' = [dialled EXCEPT ![row.id] = @ + 1]
        /\ UNCHANGED <<store, faults, signins, opened>>

\* Odoo refused: bump_txn_attempts counts the attempt ...
LoginRefused(t) ==
    /\ At(t, "validating")
    /\ CountAttempt(ctx[t].txn)
    /\ Goto(t, "read_attempts")
    /\ UNCHANGED <<ctx, faults, history>>

\* ... reads the counter back, and shows the form again ...
ReadAttempts(t) ==
    /\ At(t, "read_attempts")
    /\ IF AttemptsExhausted(ctx[t].txn)
         THEN Goto(t, "cancel_txn") /\ UNCHANGED ctx
         ELSE Finish(t)
    /\ UNCHANGED <<store, faults, history>>

\* ... or drops the transaction and answers 429.
CancelTxn(t) ==
    /\ At(t, "cancel_txn")
    /\ DeleteTxn(ctx[t].txn)
    /\ Finish(t)
    /\ UNCHANGED <<faults, history>>

\* Odoo accepted: complete_login stores the credential ...
LoginAccepted(t) ==
    /\ At(t, "validating")
    /\ PutCredential
    /\ Goto(t, "put_code")
    /\ Keep(t, [ctx[t] EXCEPT !.cred = NewId("cred")])
    /\ signins' = signins \cup {[txn |-> ctx[t].txn, client |-> ctx[t].client,
                                 cred |-> NewId("cred")]}
    /\ UNCHANGED <<faults, dialled, opened>>

\* ... mints the code for it ...
MintCode(t) ==
    /\ At(t, "put_code")
    /\ PutCode(ctx[t].client, ctx[t].cred)
    /\ Goto(t, "close_txn")
    /\ Keep(t, [ctx[t] EXCEPT !.cred = 0])
    /\ UNCHANGED <<faults, history>>

\* ... and closes the transaction.
CloseTxn(t) ==
    /\ At(t, "close_txn")
    /\ DeleteTxn(ctx[t].txn)
    /\ Finish(t)
    /\ UNCHANGED <<faults, history>>

-----------------------------------------------------------------------------
(* The token endpoint *)

\* load_authorization_code peeks at the row that consume_code then deletes;
\* whatever happened in between, consume_code selects by the same condition.
\* Any other outcome is invalid_grant and changes nothing.
RedeemCode(t, c) ==
    \E row \in codes :
        /\ At(t, "idle")
        /\ Redeemable(row, c)
        /\ ConsumeCode(row)
        /\ Goto(t, "create_grant")
        /\ Keep(t, [Blank EXCEPT !.client = c, !.code = row.id,
                                 !.cred = row.cred])
        /\ UNCHANGED <<faults, history>>

OpenGrant(t) ==
    /\ At(t, "create_grant")
    /\ CreateGrant(ctx[t].client, ctx[t].cred)
    /\ Goto(t, "put_access")
    /\ Keep(t, [Blank EXCEPT !.grant = NewId("grant")])
    /\ opened' = opened \cup {[code |-> ctx[t].code, client |-> ctx[t].client,
                               cred |-> ctx[t].cred, grant |-> NewId("grant")]}
    /\ UNCHANGED <<faults, dialled, signins>>

\* load_refresh_token and rotate_refresh_token: the token is live, its grant
\* is the presenting client's, and rotation spends it.
RotateToken(t, c) ==
    \E tok \in refresh, g \in grants :
        /\ At(t, "idle")
        /\ minted["refresh"] < MaxRefresh
        /\ LiveToken(tok, g)
        /\ g.client = c
        /\ RotateRefreshToken(tok)
        /\ Goto(t, "put_access")
        /\ Keep(t, [Blank EXCEPT !.grant = g.id])
        /\ UNCHANGED <<faults, history>>

\* _issue: the access token, then the refresh token, whose expiry and hash
\* do not depend on each other.
IssueAccess(t) ==
    /\ At(t, "put_access")
    /\ PutAccessToken(ctx[t].grant)
    /\ Goto(t, "put_refresh")
    /\ UNCHANGED <<ctx, faults, history>>

IssueRefresh(t) ==
    /\ At(t, "put_refresh")
    /\ PutRefreshToken(ctx[t].grant)
    /\ Finish(t)
    /\ UNCHANGED <<faults, history>>

\* The IntegrityError is caught and the statement tried again.
BadIssueRefused(t) ==
    /\ pc[t] \in {"put_access", "put_refresh"}
    /\ HasLoop(t)
    /\ ~HasGrant(ctx[t].grant)
    /\ UNCHANGED vars

\* The grant was revoked meanwhile: the foreign key refuses the token, the
\* IntegrityError ends the handler and the client gets a 500.
IssueRefused(t) ==
    /\ pc[t] \in {"put_access", "put_refresh"}
    /\ HasLoop(t)
    /\ ~HasGrant(ctx[t].grant)
    /\ Finish(t)
    /\ UNCHANGED <<store, faults, history>>

-----------------------------------------------------------------------------
(* The resource server: load_access_token, then a tool call *)

LookUpToken(t) ==
    \E tok \in access, g \in grants :
        /\ At(t, "idle")
        /\ LiveToken(tok, g)
        /\ Goto(t, "get_credential")
        /\ Keep(t, [Blank EXCEPT !.client = g.client, !.cred = g.cred,
                                 !.grant = g.id])
        /\ UNCHANGED <<store, faults, history>>

\* get_credential: a credential erased since the lookup means a 401; otherwise
\* the request carries its copy of the credential to the tool's thread.
Authenticate(t) ==
    /\ At(t, "get_credential")
    /\ IF ctx[t].cred \in creds
         THEN Goto(t, "serving") /\ UNCHANGED ctx
         ELSE Finish(t)
    /\ UNCHANGED <<store, faults, history>>

FinishCall(t) ==
    /\ At(t, "serving")
    /\ Finish(t)
    /\ UNCHANGED <<store, faults, history>>

-----------------------------------------------------------------------------
(* Revocation: revoke_grant, statement by statement *)

\* The credential is deleted first and the grant left to the cascade.
BadReadGrant(t, g) ==
    /\ At(t, "idle")
    /\ Goto(t, "delete_credential")
    /\ Keep(t, [Blank EXCEPT !.cred = g.cred, !.grant = g.id])
    /\ UNCHANGED <<store, faults, history>>

ReadGrant(t, g) ==
    /\ At(t, "idle")
    /\ Goto(t, "delete_grant")
    /\ Keep(t, [Blank EXCEPT !.cred = g.cred, !.grant = g.id])
    /\ UNCHANGED <<store, faults, history>>

\* POST /revoke with a live token of the client's own grant.
RevokeByToken(t, c) ==
    \E g \in grants, tok \in access \cup refresh :
        g.client = c /\ LiveToken(tok, g) /\ ReadGrant(t, g)

\* `odoo-mcp http revoke GRANT_ID`; --all does the same for each listed id.
RevokeByCommand(t) == \E g \in grants : ReadGrant(t, g)

DeleteGrantRow(t) ==
    /\ At(t, "delete_grant")
    /\ DeleteGrant(ctx[t].grant)
    /\ Goto(t, "count_grants")
    /\ UNCHANGED <<ctx, faults, history>>

\* The count is compared as if the deleted grant were still in it.
BadCountGrants(t) ==
    /\ At(t, "count_grants")
    /\ IF \E g \in grants : GrantsOf(ctx[t].cred) = {g}
         THEN Goto(t, "delete_credential") /\ UNCHANGED ctx
         ELSE Finish(t)
    /\ UNCHANGED <<store, faults, history>>

CountGrants(t) ==
    /\ At(t, "count_grants")
    /\ IF GrantsOf(ctx[t].cred) = {}
         THEN Goto(t, "delete_credential") /\ UNCHANGED ctx
         ELSE Finish(t)
    /\ UNCHANGED <<store, faults, history>>

EraseCredential(t) ==
    /\ At(t, "delete_credential")
    /\ DeleteCredential(ctx[t].cred)
    /\ Finish(t)
    /\ UNCHANGED <<faults, history>>

-----------------------------------------------------------------------------
(* Housekeeping, time and faults *)

\* maybe_purge at the head of a handler, or `odoo-mcp http purge`: no other
\* state of the task is involved, so each of the four statements stands by
\* itself.  The ten-minute throttle only makes them rarer.
Purge(t) ==
    /\ At(t, "idle")
    /\ PurgeStatement
    /\ UNCHANGED <<tasks, faults, history>>

Tick == TimePasses /\ UNCHANGED <<tasks, faults, history>>

\* A statement raises (database is locked past busy_timeout, disk full): what
\* the task committed before stays.
StatementFails(t) ==
    /\ faults < MaxFaults
    /\ pc[t] # "idle"
    /\ HasLoop(t)
    /\ Finish(t)
    /\ faults' = faults + 1
    /\ UNCHANGED <<store, history>>

\* A `serve` process is killed and restarted, with every handler in it.
ServerRestarts(p) ==
    /\ faults < MaxFaults
    /\ pc' = [t \in Task |->
                IF t \in Handler /\ Host[t] = p THEN "idle" ELSE pc[t]]
    /\ ctx' = [t \in Task |->
                IF t \in Handler /\ Host[t] = p THEN Blank ELSE ctx[t]]
    /\ faults' = faults + 1
    /\ UNCHANGED <<store, history>>

-----------------------------------------------------------------------------

\* The requests that start a handler.
Request(t) ==
    \/ \E c \in Client : Authorize(t, c)
    \/ LoginSubmit(t)
    \/ \E c \in Client : RedeemCode(t, c)
    \/ \E c \in Client : RotateToken(t, c)
    \/ LookUpToken(t)
    \/ \E c \in Client : RevokeByToken(t, c)

\* What an active task does next.
Resume(t) ==
    \/ LoginRefused(t) \/ ReadAttempts(t) \/ CancelTxn(t)
    \/ LoginAccepted(t) \/ MintCode(t) \/ CloseTxn(t)
    \/ OpenGrant(t) \/ IssueAccess(t) \/ IssueRefresh(t) \/ IssueRefused(t)
    \/ Authenticate(t) \/ FinishCall(t)
    \/ DeleteGrantRow(t) \/ CountGrants(t) \/ EraseCredential(t)

Next ==
    \/ \E t \in Handler : Request(t)
    \/ \E t \in Command : RevokeByCommand(t)
    \/ \E t \in Task : Resume(t)
    \/ \E t \in Task : Purge(t)
    \/ Tick
    \/ \E t \in Task : StatementFails(t)
    \/ \E p \in Server : ServerRestarts(p)

Spec == Init /\ [][Next]_vars

\* A thread that waits for Odoo.  Every sign-in asks op_get_version, whose
\* last probe is a ServerProxy without a timeout, and so does a tool that asks
\* for the version: Odoo may never answer.
MayHang(t) == pc[t] \in {"validating", "serving"}

\* The event loop and the scheduler keep every started task going: a task
\* whose turn comes again and again takes it.  SF and not WF, because the
\* turn of a handler is taken away whenever another one of its process runs.
\* Nothing is assumed of a thread that waits for Odoo.
FairSpec == Spec /\ \A t \in Task : SF_vars(~MayHang(t) /\ Resume(t))
=============================================================================
