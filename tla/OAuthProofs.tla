----------------------------- MODULE OAuthProofs -----------------------------
(***************************************************************************)
(* Type correctness of the authorization server; the invariant of          *)
(* OAuthInvariant is inductive, and the safety properties of OAuthSafety   *)
(* follow from it; what revoke_grant promises.  There is one lemma for     *)
(* each kind of action, and under it one step for each part of the         *)
(* invariant.                                                              *)
(***************************************************************************)
EXTENDS OAuthDelegation, FiniteSetTheorems, TLAPS

-----------------------------------------------------------------------------
(* Types                                                                   *)

Labels == Suspended \cup Running

(* The locals of an idle task are well typed.                              *)
LEMMA BlankType == Blank \in Context
BY DEF Blank, Context

(* What a task holds has the types of its fields.                          *)
LEMMA LocalType ==
  ASSUME TypeOK, NEW t \in Task
  PROVE  /\ ctx[t] \in Context
         /\ ctx[t].client \in Client \cup {NoClient}
         /\ ctx[t].txn \in Nat
         /\ ctx[t].cred \in Nat
         /\ ctx[t].code \in Nat
         /\ ctx[t].grant \in Nat
BY DEF TypeOK, TaskTypeOK, Context

(* A code row and a grant row built from typed fields are rows of their    *)
(* tables.                                                                 *)
LEMMA RowType ==
  ASSUME NEW n \in Nat, NEW m \in Nat, NEW c \in Client
  PROVE  /\ [id |-> n, client |-> c,
             attempts |-> 0, expired |-> FALSE] \in TxnRow
         /\ [id |-> n, client |-> c, cred |-> m, expired |-> FALSE] \in CodeRow
         /\ [id |-> n, client |-> c, cred |-> m] \in GrantRow
BY DEF TxnRow, CodeRow, GrantRow

(* A token row built from a minted id and a task's grant is a row of its   *)
(* table.                                                                  *)
LEMMA TokenType ==
  ASSUME NEW n \in Nat, NEW m \in Nat
  PROVE  [id |-> n, grant |-> m, expired |-> FALSE] \in TokenRow
BY DEF TokenRow

(* A task that goes to a label with typed locals leaves the tasks well     *)
(* typed.                                                                  *)
LEMMA MoveType ==
  ASSUME TypeOK, NEW t \in Task, NEW label \in Labels, NEW local \in Context,
         Goto(t, label), Keep(t, local),
         label \in Named => local.client \in Client
  PROVE  TaskTypeOK'
BY DEF TypeOK, TaskTypeOK, Goto, Keep, Labels

(* A task that goes to a label and keeps its locals leaves the tasks well  *)
(* typed.                                                                  *)
LEMMA StayType ==
  ASSUME TypeOK, NEW t \in Task, NEW label \in Labels \ Named,
         Goto(t, label), UNCHANGED ctx
  PROVE  TaskTypeOK'
BY DEF TypeOK, TaskTypeOK, Goto, Labels

(* A handler that answers leaves the tasks well typed.                     *)
LEMMA FinishType ==
  ASSUME TypeOK, NEW t \in Task, Finish(t)
  PROVE  TaskTypeOK'
BY MoveType, BlankType DEF Finish, Labels, Suspended, Named

(* Minting an id gives a natural number and keeps the counters typed.      *)
LEMMA MintType ==
  ASSUME StoreTypeOK, NEW kind \in Kind, Mint(kind)
  PROVE  minted' \in [Kind -> Nat] /\ NewId(kind) \in Nat
BY DEF StoreTypeOK, Mint, NewId

(* Counting a login keeps the history of logins typed.                     *)
LEMMA CountType ==
  ASSUME HistoryTypeOK, NEW x, dialled' = [dialled EXCEPT ![x] = @ + 1]
  PROVE  dialled' \in [1..MaxTxn -> Nat]
<1>1. ASSUME NEW y \in 1..MaxTxn PROVE dialled'[y] \in Nat
  BY DEF HistoryTypeOK
<1> QED BY <1>1 DEF HistoryTypeOK

(* The empty database and idle tasks are well typed.                       *)
LEMMA TypeInit == Init => TypeOK
<1> SUFFICES ASSUME Init PROVE TypeOK
  OBVIOUS
<1>1. StoreTypeOK
  BY DEF Init, StoreInit, StoreTypeOK
<1>2. TaskTypeOK
  BY BlankType DEF Init, TaskTypeOK, Suspended, Named
<1>3. HistoryTypeOK
  BY BoundAssumption DEF Init, HistoryTypeOK
<1> QED BY <1>1, <1>2, <1>3 DEF TypeOK

(* purge_expired keeps the tables typed.                                   *)
LEMMA PurgeType ==
  ASSUME StoreTypeOK, PurgeStatement
  PROVE  StoreTypeOK'
BY DEF StoreTypeOK, PurgeStatement, PurgeTxns, PurgeCodes, PurgeAccessTokens,
   PurgeRefreshTokens, Unexpired

(* The passing of an expires_at keeps the tables typed.                    *)
LEMMA TimeType ==
  ASSUME StoreTypeOK, TimePasses
  PROVE  StoreTypeOK'
<1> USE DEF StoreTypeOK, Unexpired, Aged
<1>1. CASE TxnExpires
  BY <1>1 DEF TxnExpires, TxnRow
<1>2. CASE CodeExpires
  BY <1>2 DEF CodeExpires, CodeRow
<1>3. CASE AccessTokenExpires
  BY <1>3 DEF AccessTokenExpires, TokenRow
<1>4. CASE RefreshTokenExpires
  BY <1>4 DEF RefreshTokenExpires, TokenRow
<1> QED BY <1>1, <1>2, <1>3, <1>4 DEF TimePasses

(* Every step of every handler, command and fault keeps the types.         *)
LEMMA TypeStep == TypeOK /\ [Next]_vars => TypeOK'
<1> SUFFICES ASSUME TypeOK, [Next]_vars PROVE TypeOK'
  OBVIOUS
<1> USE DEF TypeOK
<1>1. ASSUME NEW t \in Handler, NEW c \in Client, Authorize(t, c) PROVE TypeOK'
  <2>1. StoreTypeOK'
    BY <1>1, MintType, RowType DEF Authorize, PutTxn, StoreTypeOK, Kind
  <2>2. TaskTypeOK'
    BY <1>1 DEF Authorize, tasks, TaskTypeOK
  <2>3. HistoryTypeOK'
    BY <1>1 DEF Authorize, history, HistoryTypeOK
  <2> QED BY <2>1, <2>2, <2>3
<1>2. ASSUME NEW t \in Handler, LoginSubmit(t) PROVE TypeOK'
  <2>1. StoreTypeOK'
    BY <1>2 DEF LoginSubmit, store, StoreTypeOK
  <2>2. TaskTypeOK'
    <3> PICK row \in txns : /\ Goto(t, "validating")
                           /\ Keep(t, [Blank EXCEPT !.client = row.client,
                                                 !.txn = row.id])
      BY <1>2 DEF LoginSubmit
    <3>1. [Blank EXCEPT !.client = row.client, !.txn = row.id] \in Context
      BY DEF StoreTypeOK, TxnRow, Context, Blank
    <3>2. "validating" \in Labels /\ "validating" \in Named
      BY DEF Labels, Suspended, Running, Named
    <3>3. ([Blank EXCEPT !.client = row.client,
                        !.txn = row.id]).client \in Client
      BY DEF StoreTypeOK, TxnRow, Context, Blank
    <3> QED BY <3>1, <3>2, <3>3, MoveType DEF LoginSubmit, Task
  <2>3. HistoryTypeOK'
    BY <1>2, CountType DEF LoginSubmit, HistoryTypeOK
  <2> QED BY <2>1, <2>2, <2>3
<1>3. ASSUME NEW t \in Task, LoginRefused(t) PROVE TypeOK'
  <2>1. StoreTypeOK'
    BY <1>3 DEF LoginRefused, CountAttempt, StoreTypeOK, TxnRow
  <2>2. TaskTypeOK'
    BY <1>3, StayType DEF LoginRefused, Labels, Suspended, Running, Named
  <2>3. HistoryTypeOK'
    BY <1>3 DEF LoginRefused, history, HistoryTypeOK
  <2> QED BY <2>1, <2>2, <2>3
<1>4. ASSUME NEW t \in Task, ReadAttempts(t) PROVE TypeOK'
  <2>1. StoreTypeOK'
    BY <1>4 DEF ReadAttempts, store, StoreTypeOK
  <2>2. TaskTypeOK'
    BY <1>4, FinishType, StayType DEF ReadAttempts, Labels, Running, Named
  <2>3. HistoryTypeOK'
    BY <1>4 DEF ReadAttempts, history, HistoryTypeOK
  <2> QED BY <2>1, <2>2, <2>3
<1>5. ASSUME NEW t \in Task, CancelTxn(t) PROVE TypeOK'
  <2>1. StoreTypeOK'
    BY <1>5 DEF CancelTxn, DeleteTxn, StoreTypeOK
  <2>2. TaskTypeOK'
    BY <1>5, FinishType DEF CancelTxn
  <2>3. HistoryTypeOK'
    BY <1>5 DEF CancelTxn, history, HistoryTypeOK
  <2> QED BY <2>1, <2>2, <2>3
<1>6. ASSUME NEW t \in Task, LoginAccepted(t) PROVE TypeOK'
  <2>1. StoreTypeOK'
    BY <1>6, MintType DEF LoginAccepted, PutCredential, StoreTypeOK, Kind
  <2>2. TaskTypeOK'
    <3>1. [ctx[t] EXCEPT !.cred = NewId("cred")] \in Context
      BY <1>6, MintType, LocalType DEF Context, LoginAccepted, PutCredential,
         Kind
    <3>2. "put_code" \in Labels /\ "put_code" \in Named
      BY DEF Labels, Suspended, Running, Named
    <3>3. ([ctx[t] EXCEPT !.cred = NewId("cred")]).client \in Client
      BY <1>6, MintType, LocalType DEF Context, LoginAccepted, PutCredential,
         Kind, At, TaskTypeOK, Named
    <3> QED BY <1>6, <3>1, <3>2, <3>3, MoveType DEF LoginAccepted, Task
  <2>3. HistoryTypeOK'
    BY <1>6, MintType, LocalType DEF LoginAccepted, At, PutCredential, Kind,
       HistoryTypeOK, SignIn, TaskTypeOK, Named
  <2> QED BY <2>1, <2>2, <2>3
<1>7. ASSUME NEW t \in Task, MintCode(t) PROVE TypeOK'
  <2>1. StoreTypeOK'
    <3>1. ctx[t].client \in Client
      BY <1>7 DEF MintCode, At, TaskTypeOK, Named
    <3>2. minted' \in [Kind -> Nat] /\ NewId("code") \in Nat
      BY <1>7, MintType DEF MintCode, PutCode, Kind
    <3>3. [id |-> NewId("code"), client |-> ctx[t].client,
           cred |-> ctx[t].cred, expired |-> FALSE] \in CodeRow
      BY <3>1, <3>2, LocalType, RowType
    <3> QED BY <1>7, <3>2, <3>3 DEF MintCode, PutCode, StoreTypeOK
  <2>2. TaskTypeOK'
    <3>1. [ctx[t] EXCEPT !.cred = 0] \in Context
      BY LocalType DEF Context
    <3>2. "close_txn" \in Labels /\ "close_txn" \notin Named
      BY DEF Labels, Suspended, Running, Named
    <3> QED BY <1>7, <3>1, <3>2, MoveType DEF MintCode, Task
  <2>3. HistoryTypeOK'
    BY <1>7 DEF MintCode, history, HistoryTypeOK
  <2> QED BY <2>1, <2>2, <2>3
<1>8. ASSUME NEW t \in Task, CloseTxn(t) PROVE TypeOK'
  <2>1. StoreTypeOK'
    BY <1>8 DEF CloseTxn, DeleteTxn, StoreTypeOK
  <2>2. TaskTypeOK'
    BY <1>8, FinishType DEF CloseTxn
  <2>3. HistoryTypeOK'
    BY <1>8 DEF CloseTxn, history, HistoryTypeOK
  <2> QED BY <2>1, <2>2, <2>3
<1>9. ASSUME NEW t \in Handler, NEW c \in Client, RedeemCode(t, c) PROVE
   TypeOK'
  <2>1. StoreTypeOK'
    BY <1>9 DEF RedeemCode, ConsumeCode, StoreTypeOK
  <2>2. TaskTypeOK'
    <3> PICK row \in codes : /\ Goto(t, "create_grant")
                            /\ Keep(t, [Blank EXCEPT !.client = c,
                                                  !.code = row.id,
                                                  !.cred = row.cred])
      BY <1>9 DEF RedeemCode
    <3>1. [Blank EXCEPT !.client = c, !.code = row.id,
                       !.cred = row.cred] \in Context
      BY DEF StoreTypeOK, CodeRow, Context, Blank
    <3>2. "create_grant" \in Labels /\ "create_grant" \in Named
      BY DEF Labels, Suspended, Running, Named
    <3>3. ([Blank EXCEPT !.client = c, !.code = row.id, !.cred =
       row.cred]).client \in Client
      BY DEF StoreTypeOK, CodeRow, Context, Blank
    <3> QED BY <3>1, <3>2, <3>3, MoveType DEF RedeemCode, Task
  <2>3. HistoryTypeOK'
    BY <1>9 DEF RedeemCode, history, HistoryTypeOK
  <2> QED BY <2>1, <2>2, <2>3
<1>10. ASSUME NEW t \in Task, OpenGrant(t) PROVE TypeOK'
  <2>1. StoreTypeOK'
    BY <1>10, MintType, LocalType DEF OpenGrant, At, CreateGrant, StoreTypeOK,
       Kind, GrantRow, TaskTypeOK, Named
  <2>2. TaskTypeOK'
    <3>1. [Blank EXCEPT !.grant = NewId("grant")] \in Context
      BY <1>10, MintType DEF Context, Blank, OpenGrant, CreateGrant, Kind
    <3>2. "put_access" \in Labels /\ "put_access" \notin Named
      BY DEF Labels, Suspended, Running, Named
    <3> QED BY <1>10, <3>1, <3>2, MoveType DEF OpenGrant, Task
  <2>3. HistoryTypeOK'
    BY <1>10, MintType, LocalType DEF OpenGrant, At, CreateGrant, Kind,
       HistoryTypeOK, Opening, TaskTypeOK, Named
  <2> QED BY <2>1, <2>2, <2>3
<1>11. ASSUME NEW t \in Handler, NEW c \in Client, RotateToken(t, c) PROVE
   TypeOK'
  <2>1. StoreTypeOK'
    BY <1>11 DEF RotateToken, RotateRefreshToken, StoreTypeOK
  <2>2. TaskTypeOK'
    <3> PICK tok \in refresh, g \in grants :
                /\ Goto(t, "put_access")
                /\ Keep(t, [Blank EXCEPT !.grant = g.id])
      BY <1>11 DEF RotateToken
    <3>1. [Blank EXCEPT !.grant = g.id] \in Context
      BY DEF StoreTypeOK, GrantRow, Context, Blank
    <3>2. "put_access" \in Labels /\ "put_access" \notin Named
      BY DEF Labels, Suspended, Running, Named
    <3> QED BY <3>1, <3>2, MoveType DEF RotateToken, Task
  <2>3. HistoryTypeOK'
    BY <1>11 DEF RotateToken, history, HistoryTypeOK
  <2> QED BY <2>1, <2>2, <2>3
<1>12. ASSUME NEW t \in Task, IssueAccess(t) PROVE TypeOK'
  <2>1. StoreTypeOK'
    BY <1>12, MintType, TokenType, LocalType DEF IssueAccess, PutAccessToken,
       StoreTypeOK, Kind
  <2>2. TaskTypeOK'
    BY <1>12, StayType DEF IssueAccess, Labels, Suspended, Running, Named
  <2>3. HistoryTypeOK'
    BY <1>12 DEF IssueAccess, history, HistoryTypeOK
  <2> QED BY <2>1, <2>2, <2>3
<1>13. ASSUME NEW t \in Task, IssueRefresh(t) PROVE TypeOK'
  <2>1. StoreTypeOK'
    BY <1>13, MintType, TokenType, LocalType DEF IssueRefresh,
       PutRefreshToken, StoreTypeOK, Kind
  <2>2. TaskTypeOK'
    BY <1>13, FinishType DEF IssueRefresh
  <2>3. HistoryTypeOK'
    BY <1>13 DEF IssueRefresh, history, HistoryTypeOK
  <2> QED BY <2>1, <2>2, <2>3
<1>14. ASSUME NEW t \in Task, IssueRefused(t) PROVE TypeOK'
  <2>1. StoreTypeOK'
    BY <1>14 DEF IssueRefused, store, StoreTypeOK
  <2>2. TaskTypeOK'
    BY <1>14, FinishType DEF IssueRefused
  <2>3. HistoryTypeOK'
    BY <1>14 DEF IssueRefused, history, HistoryTypeOK
  <2> QED BY <2>1, <2>2, <2>3
<1>15. ASSUME NEW t \in Handler, LookUpToken(t) PROVE TypeOK'
  <2>1. StoreTypeOK'
    BY <1>15 DEF LookUpToken, store, StoreTypeOK
  <2>2. TaskTypeOK'
    <3> PICK tok \in access, g \in grants :
                /\ Goto(t, "get_credential")
                /\ Keep(t, [Blank EXCEPT !.client = g.client,
                                         !.cred = g.cred, !.grant = g.id])
      BY <1>15 DEF LookUpToken
    <3>1. [Blank EXCEPT !.client = g.client, !.cred = g.cred,
                       !.grant = g.id] \in Context
      BY DEF StoreTypeOK, GrantRow, Context, Blank
    <3>2. "get_credential" \in Labels /\ "get_credential" \notin Named
      BY DEF Labels, Suspended, Running, Named
    <3> QED BY <3>1, <3>2, MoveType DEF LookUpToken, Task
  <2>3. HistoryTypeOK'
    BY <1>15 DEF LookUpToken, history, HistoryTypeOK
  <2> QED BY <2>1, <2>2, <2>3
<1>16. ASSUME NEW t \in Task, Authenticate(t) PROVE TypeOK'
  <2>1. StoreTypeOK'
    BY <1>16 DEF Authenticate, store, StoreTypeOK
  <2>2. TaskTypeOK'
    BY <1>16, FinishType, StayType DEF Authenticate, Labels, Suspended, Named
  <2>3. HistoryTypeOK'
    BY <1>16 DEF Authenticate, history, HistoryTypeOK
  <2> QED BY <2>1, <2>2, <2>3
<1>17. ASSUME NEW t \in Task, FinishCall(t) PROVE TypeOK'
  <2>1. StoreTypeOK'
    BY <1>17 DEF FinishCall, store, StoreTypeOK
  <2>2. TaskTypeOK'
    BY <1>17, FinishType DEF FinishCall
  <2>3. HistoryTypeOK'
    BY <1>17 DEF FinishCall, history, HistoryTypeOK
  <2> QED BY <2>1, <2>2, <2>3
<1>18. ASSUME NEW t \in Task, NEW g \in grants, ReadGrant(t, g) PROVE TypeOK'
  <2>1. StoreTypeOK'
    BY <1>18 DEF ReadGrant, store, StoreTypeOK
  <2>2. TaskTypeOK'
    <3>1. [Blank EXCEPT !.cred = g.cred, !.grant = g.id] \in Context
      BY DEF StoreTypeOK, GrantRow, Context, Blank
    <3>2. "delete_grant" \in Labels /\ "delete_grant" \notin Named
      BY DEF Labels, Suspended, Running, Named
    <3> QED BY <1>18, <3>1, <3>2, MoveType DEF ReadGrant, Task
  <2>3. HistoryTypeOK'
    BY <1>18 DEF ReadGrant, history, HistoryTypeOK
  <2> QED BY <2>1, <2>2, <2>3
<1>19. ASSUME NEW t \in Task, DeleteGrantRow(t) PROVE TypeOK'
  <2>1. StoreTypeOK'
    BY <1>19 DEF DeleteGrantRow, DeleteGrant, StoreTypeOK
  <2>2. TaskTypeOK'
    BY <1>19, StayType DEF DeleteGrantRow, Labels, Suspended, Running, Named
  <2>3. HistoryTypeOK'
    BY <1>19 DEF DeleteGrantRow, history, HistoryTypeOK
  <2> QED BY <2>1, <2>2, <2>3
<1>20. ASSUME NEW t \in Task, CountGrants(t) PROVE TypeOK'
  <2>1. StoreTypeOK'
    BY <1>20 DEF CountGrants, store, StoreTypeOK
  <2>2. TaskTypeOK'
    BY <1>20, FinishType, StayType DEF CountGrants, Labels, Running, Named
  <2>3. HistoryTypeOK'
    BY <1>20 DEF CountGrants, history, HistoryTypeOK
  <2> QED BY <2>1, <2>2, <2>3
<1>21. ASSUME NEW t \in Task, EraseCredential(t) PROVE TypeOK'
  <2>1. StoreTypeOK'
    BY <1>21 DEF EraseCredential, DeleteCredential, StoreTypeOK
  <2>2. TaskTypeOK'
    BY <1>21, FinishType DEF EraseCredential
  <2>3. HistoryTypeOK'
    BY <1>21 DEF EraseCredential, history, HistoryTypeOK
  <2> QED BY <2>1, <2>2, <2>3
<1>22. ASSUME NEW t \in Task, Purge(t) PROVE TypeOK'
  <2>1. StoreTypeOK'
    BY <1>22, PurgeType DEF Purge
  <2>2. TaskTypeOK'
    BY <1>22 DEF Purge, tasks, TaskTypeOK
  <2>3. HistoryTypeOK'
    BY <1>22 DEF Purge, history, HistoryTypeOK
  <2> QED BY <2>1, <2>2, <2>3
<1>23. CASE Tick
  <2>1. StoreTypeOK'
    BY <1>23, TimeType DEF Tick
  <2>2. TaskTypeOK'
    BY <1>23 DEF Tick, tasks, TaskTypeOK
  <2>3. HistoryTypeOK'
    BY <1>23 DEF Tick, history, HistoryTypeOK
  <2> QED BY <2>1, <2>2, <2>3
<1>24. ASSUME NEW t \in Task, StatementFails(t) PROVE TypeOK'
  <2>1. StoreTypeOK'
    BY <1>24 DEF StatementFails, store, StoreTypeOK
  <2>2. TaskTypeOK'
    BY <1>24, FinishType DEF StatementFails
  <2>3. HistoryTypeOK'
    BY <1>24, BoundAssumption DEF StatementFails, HistoryTypeOK, history
  <2> QED BY <2>1, <2>2, <2>3
<1>25. ASSUME NEW p \in Server, ServerRestarts(p) PROVE TypeOK'
  <2>1. StoreTypeOK'
    BY <1>25 DEF ServerRestarts, store, StoreTypeOK
  <2>2. TaskTypeOK'
    BY <1>25, BlankType DEF ServerRestarts, TaskTypeOK, Suspended, Named
  <2>3. HistoryTypeOK'
    BY <1>25, BoundAssumption DEF ServerRestarts, HistoryTypeOK, history
  <2> QED BY <2>1, <2>2, <2>3
<1>26. CASE UNCHANGED vars
  BY <1>26 DEF vars, store, tasks, history, StoreTypeOK, TaskTypeOK,
     HistoryTypeOK
<1> QED
  BY <1>1, <1>2, <1>3, <1>4, <1>5, <1>6, <1>7, <1>8, <1>9, <1>10, <1>11,
     <1>12, <1>13, <1>14, <1>15, <1>16, <1>17, <1>18, <1>19, <1>20, <1>21,
     <1>22, <1>23, <1>24, <1>25, <1>26
     DEF Next, Request, Resume, RevokeByCommand, RevokeByToken, Task

(* In every reachable state the tables hold rows of their schema, every    *)
(* task is at a label of its handler with the locals it needs there, for   *)
(* any number of clients, handlers and processes.                          *)
THEOREM TypeCorrect == Spec => []TypeOK
BY TypeInit, TypeStep, PTL DEF Spec

-----------------------------------------------------------------------------
(* The inductive invariant                                                 *)

Aside == {"idle", "validating", "read_attempts", "cancel_txn", "close_txn"}

(* Steps that touch neither a credential nor a grant (the consent page up  *)
(* to the login, a handler that answers or dies, transactions created,     *)
(* counted or purged) keep the invariant.                                  *)
LEMMA SettleStep ==
  ASSUME Inductive, TypeOK',
         UNCHANGED <<creds, codes, grants, access, refresh, signins, opened>>,
         \A kind \in Kind \ {"txn"} : minted'[kind] = minted[kind],
         \A u \in Task :
            \/ pc'[u] = pc[u] /\ ctx'[u] = ctx[u]
            \/ /\ pc'[u] \in Aside
               /\ ctx'[u].cred \in {0, ctx[u].cred}
               /\ ctx'[u].code \in {0, ctx[u].code}
               /\ ctx'[u].grant \in {0, ctx[u].grant}
  PROVE  Inductive'
<1> USE DEF Inductive
<1>1. Fresh'
  <2>1. \A kind \in {"code", "cred",
     "grant"} : minted'[kind] = minted[kind] /\ minted[kind] \in Nat
    BY DEF Kind, TypeOK, StoreTypeOK
  <2> QED BY <2>1 DEF Fresh
<1>2. Keys'
  BY DEF Keys
<1>3. References'
  BY DEF References, HasGrant
<1>4. CredentialStays'
  BY DEF CredentialStays, Aside
<1>5. Custody'
  BY DEF Custody, Holding, Redeeming, Aside
<1>6. Openings'
  BY DEF Openings, HasGrant, Using, Revoking, Aside
<1>7. Provenance'
  BY DEF Provenance, SignedIn, Holding, Aside
<1>8. Succession'
  BY DEF Succession, Issuing, Aside
<1> QED BY <1>1, <1>2, <1>3, <1>4, <1>5, <1>6, <1>7, <1>8

(* A handler that answers, or dies, keeps the invariant.                   *)
LEMMA FinishStep ==
  ASSUME Inductive, TypeOK', NEW t \in Task,
         Finish(t),
         UNCHANGED <<creds, codes, grants, access, refresh, minted>>,
         UNCHANGED <<opened, signins>>
  PROVE  Inductive'
<1>1. /\ pc'[t] \in Aside
      /\ ctx'[t].cred = 0 /\ ctx'[t].code = 0 /\ ctx'[t].grant = 0
      /\ \A u \in Task \ {t} : pc'[u] = pc[u] /\ ctx'[u] = ctx[u]
  BY DEF Finish, Goto, Keep, Blank, Aside, Inductive, TypeOK, TaskTypeOK
<1>2. \A u \in Task :
         \/ pc'[u] = pc[u] /\ ctx'[u] = ctx[u]
         \/ /\ pc'[u] \in Aside
            /\ ctx'[u].cred \in {0, ctx[u].cred}
            /\ ctx'[u].code \in {0, ctx[u].code}
            /\ ctx'[u].grant \in {0, ctx[u].grant}
  BY <1>1
<1> QED BY <1>2, SettleStep

(* complete_login's put_credential keeps the invariant: the new credential *)
(* is held by the sign-in alone.                                           *)
LEMMA LoginAcceptedStep ==
  ASSUME Inductive, TypeOK', NEW t \in Task, LoginAccepted(t)
  PROVE  Inductive'
<1> USE DEF Inductive
<1>0. /\ minted["cred"] \in Nat
      /\ minted'["cred"] = minted["cred"] + 1
      /\ \A kind \in Kind \ {"cred"} : minted'[kind] = minted[kind]
      /\ UNCHANGED <<codes, grants, access, refresh, opened>>
      /\ creds' = creds \cup {minted'["cred"]}
      /\ signins' = signins \cup {[txn |-> ctx[t].txn,
         client |-> ctx[t].client, cred |-> minted'["cred"]]}
      /\ pc'[t] = "put_code"
      /\ ctx'[t].cred = minted'["cred"] /\ ctx'[t].client = ctx[t].client
      /\ ctx'[t].code = ctx[t].code /\ ctx'[t].grant = ctx[t].grant
      /\ \A u \in Task \ {t} : pc'[u] = pc[u] /\ ctx'[u] = ctx[u]
  BY LocalType DEF LoginAccepted, PutCredential, Mint, NewId, Goto, Keep,
     TypeOK, StoreTypeOK, TaskTypeOK, Kind, Context
<1>1. Fresh'
  <2>1. \A kind \in {"code", "grant"} : minted'[kind] = minted[kind]
           /\ minted[kind] \in Nat
    BY <1>0 DEF Kind, TypeOK, StoreTypeOK
  <2>2. \A k \in creds' : k <= minted'["cred"]
    BY <1>0 DEF Fresh, TypeOK, StoreTypeOK
  <2>3. \A c \in codes' : c.id <= minted'["code"] /\ c.cred <= minted'["cred"]
    BY <1>0, <2>1 DEF Fresh, TypeOK, StoreTypeOK, CodeRow
  <2>4. \A o \in opened' : o.code <= minted'["code"]
           /\ o.cred <= minted'["cred"] /\ o.grant <= minted'["grant"]
    BY <1>0, <2>1 DEF Fresh, TypeOK, HistoryTypeOK, Opening
  <2>5. \A u \in Task : ctx'[u].code <= minted'["code"]
           /\ ctx'[u].cred <= minted'["cred"]
           /\ ctx'[u].grant <= minted'["grant"]
    BY <1>0, <2>1, LocalType DEF Fresh
  <2>6. \A s \in signins' : s.cred <= minted'["cred"]
    BY <1>0 DEF Fresh, TypeOK, HistoryTypeOK, SignIn
  <2> QED BY <1>0, <2>1, <2>2, <2>3, <2>4, <2>5, <2>6 DEF Fresh
<1>2. Keys'
  BY <1>0 DEF Keys
<1>3. References'
  BY <1>0 DEF References, HasGrant
<1>4. CredentialStays'
  BY <1>0 DEF CredentialStays
<1>5. Custody'
  <2>0. \A n \in Nat : n <= minted["cred"] => n # minted'["cred"]
    BY <1>0
  <2>1. /\ \A c \in codes : c.cred # minted'["cred"]
        /\ \A o \in opened : o.cred # minted'["cred"]
        /\ \A u \in Task : ctx[u].cred # minted'["cred"]
    <3>1. \A c \in codes : c.cred \in Nat /\ c.cred <= minted["cred"]
      BY DEF Fresh, TypeOK, StoreTypeOK, CodeRow
    <3>2. \A o \in opened : o.cred \in Nat /\ o.cred <= minted["cred"]
      BY DEF Fresh, TypeOK, HistoryTypeOK, Opening
    <3>3. \A u \in Task : ctx[u].cred \in Nat /\ ctx[u].cred <= minted["cred"]
      BY LocalType DEF Fresh
    <3> QED BY <2>0, <3>1, <3>2, <3>3
  <2> QED BY <1>0, <2>1 DEF Custody, Holding, Redeeming
<1>6. Openings'
  BY <1>0 DEF Openings, HasGrant, Using, Revoking
<1>7. Provenance'
  <2>1. \A k, c : SignedIn(k, c) => SignedIn(k, c)'
    BY <1>0 DEF SignedIn
  <2>2. \E s \in signins' :
            s.cred = minted'["cred"] /\ s.client = ctx[t].client
    <3> DEFINE s == [txn |-> ctx[t].txn, client |-> ctx[t].client,
                     cred |-> minted'["cred"]]
    <3>1. s \in signins' /\ s.cred = minted'["cred"]
             /\ s.client = ctx[t].client
      BY <1>0
    <3> QED BY <3>1
  <2>3. SignedIn(ctx[t].cred, ctx[t].client)'
    BY <1>0, <2>2 DEF SignedIn
  <2> QED BY <1>0, <2>1, <2>3 DEF Provenance, Holding
<1>8. Succession'
  BY <1>0 DEF Succession, Issuing
<1> QED BY <1>1, <1>2, <1>3, <1>4, <1>5, <1>6, <1>7, <1>8

(* complete_login's put_code keeps the invariant: the credential passes    *)
(* from the sign-in to the code.                                           *)
LEMMA MintCodeStep ==
  ASSUME Inductive, TypeOK', NEW t \in Task, MintCode(t)
  PROVE  Inductive'
<1> USE DEF Inductive
<1>0. PICK row \in CodeRow :
      /\ minted["code"] \in Nat
      /\ minted'["code"] = minted["code"] + 1
      /\ \A kind \in Kind \ {"code"} : minted'[kind] = minted[kind]
      /\ UNCHANGED <<creds, grants, access, refresh, opened, signins>>
      /\ codes' = codes \cup {row}
      /\ row.id = minted'["code"] /\ row.cred = ctx[t].cred
      /\ row.client = ctx[t].client
      /\ ctx[t].cred \in creds
      /\ pc[t] = "put_code" /\ pc'[t] = "close_txn"
      /\ ctx'[t].cred = 0
      /\ ctx'[t].code = ctx[t].code /\ ctx'[t].grant = ctx[t].grant
      /\ \A u \in Task \ {t} : pc'[u] = pc[u] /\ ctx'[u] = ctx[u]
  <2> DEFINE row == [id |-> NewId("code"), client |-> ctx[t].client,
                     cred |-> ctx[t].cred, expired |-> FALSE]
  <2>1. ctx[t].client \in Client /\ pc[t] = "put_code"
    BY DEF MintCode, At, TypeOK, TaskTypeOK, Named
  <2>2. row \in CodeRow
    BY <2>1, LocalType DEF CodeRow, NewId, TypeOK, StoreTypeOK, Kind
  <2>3. codes' = codes \cup {row} /\ row.id = minted'["code"]
    BY DEF MintCode, PutCode, Mint, NewId, TypeOK, StoreTypeOK, Kind
  <2>4. /\ minted["code"] \in Nat
        /\ minted'["code"] = minted["code"] + 1
        /\ \A kind \in Kind \ {"code"} : minted'[kind] = minted[kind]
        /\ UNCHANGED <<creds, grants, access, refresh, opened, signins>>
        /\ ctx[t].cred \in creds
    BY DEF MintCode, PutCode, Mint, TypeOK, StoreTypeOK, Kind, history
  <2>5. /\ pc'[t] = "close_txn"
        /\ ctx'[t].cred = 0
        /\ ctx'[t].code = ctx[t].code /\ ctx'[t].grant = ctx[t].grant
        /\ \A u \in Task \ {t} : pc'[u] = pc[u] /\ ctx'[u] = ctx[u]
    BY LocalType DEF MintCode, Goto, Keep, TypeOK, TaskTypeOK, Context
  <2> QED BY <2>1, <2>2, <2>3, <2>4, <2>5
<1>1. Fresh'
  <2>1. \A kind \in {"cred", "grant"} :
            minted'[kind] = minted[kind] /\ minted[kind] \in Nat
    BY <1>0 DEF Kind, TypeOK, StoreTypeOK
  <2>2. \A c \in codes' : c.id <= minted'["code"] /\ c.cred <= minted'["cred"]
    BY <1>0, <2>1, LocalType DEF Fresh, TypeOK, StoreTypeOK, CodeRow
  <2>3. \A o \in opened' : o.code <= minted'["code"]
                           /\ o.cred <= minted'["cred"]
                           /\ o.grant <= minted'["grant"]
    BY <1>0, <2>1 DEF Fresh, TypeOK, HistoryTypeOK, Opening
  <2>4. \A u \in Task : ctx'[u].code <= minted'["code"]
                        /\ ctx'[u].cred <= minted'["cred"]
                        /\ ctx'[u].grant <= minted'["grant"]
    BY <1>0, <2>1, LocalType DEF Fresh
  <2> QED BY <1>0, <2>1, <2>2, <2>3, <2>4 DEF Fresh
<1>a. /\ \A c \in codes : c.id # row.id
      /\ \A o \in opened : o.code # row.id
      /\ \A u \in Task : ctx[u].code # row.id
  <2>0. \A n \in Nat : n <= minted["code"] => n # row.id
    BY <1>0
  <2>1. \A c \in codes : c.id \in Nat /\ c.id <= minted["code"]
    BY DEF Fresh, TypeOK, StoreTypeOK, CodeRow
  <2>2. \A o \in opened : o.code \in Nat /\ o.code <= minted["code"]
    BY DEF Fresh, TypeOK, HistoryTypeOK, Opening
  <2>3. \A u \in Task : ctx[u].code \in Nat /\ ctx[u].code <= minted["code"]
    BY LocalType DEF Fresh
  <2> QED BY <2>0, <2>1, <2>2, <2>3
<1>2. Keys'
  BY <1>0, <1>a DEF Keys
<1>3. References'
  BY <1>0 DEF References, HasGrant
<1>4. CredentialStays'
  BY <1>0 DEF CredentialStays
<1>5. Custody'
  BY <1>0, <1>a DEF Custody, Holding, Redeeming
<1>6. Openings'
  BY <1>0 DEF Openings, HasGrant, Using, Revoking
<1>7. Provenance'
  BY <1>0 DEF Provenance, Holding, SignedIn
<1>8. Succession'
  BY <1>0 DEF Succession, Issuing
<1> QED BY <1>1, <1>2, <1>3, <1>4, <1>5, <1>6, <1>7, <1>8

(* consume_code keeps the invariant: the credential passes from the code   *)
(* to the one task that deleted it.                                        *)
LEMMA RedeemCodeStep ==
  ASSUME Inductive, TypeOK', NEW t \in Task, NEW c \in Client, RedeemCode(t, c)
  PROVE  Inductive'
<1> USE DEF Inductive
<1>0. PICK row \in codes :
      /\ UNCHANGED <<creds, grants, access, refresh, opened, signins, minted>>
      /\ codes' = codes \ {row}
      /\ row.client = c
      /\ pc[t] = "idle" /\ pc'[t] = "create_grant"
      /\ ctx'[t].client = row.client
      /\ ctx'[t].cred = row.cred
      /\ ctx'[t].code = row.id
      /\ ctx'[t].grant = 0
      /\ \A u \in Task \ {t} : pc'[u] = pc[u] /\ ctx'[u] = ctx[u]
  BY DEF RedeemCode, At, Redeemable, ConsumeCode, Goto, Keep, Blank, history,
         TypeOK, TaskTypeOK
<1>1. Fresh'
  BY <1>0 DEF Fresh, TypeOK, StoreTypeOK, Kind
<1>2. Keys'
  BY <1>0 DEF Keys
<1>3. References'
  BY <1>0 DEF References, HasGrant
<1>4. CredentialStays'
  BY <1>0 DEF CredentialStays, References
<1>5. Custody'
  BY <1>0 DEF Custody, Holding, Redeeming, Keys
<1>6. Openings'
  BY <1>0 DEF Openings, HasGrant, Using, Revoking
<1>7. Provenance'
  BY <1>0 DEF Provenance, Holding, SignedIn
<1>8. Succession'
  BY <1>0 DEF Succession, Issuing
<1> QED BY <1>1, <1>2, <1>3, <1>4, <1>5, <1>6, <1>7, <1>8

(* create_grant keeps the invariant: the credential passes from the        *)
(* redeeming task to the grant, whose chain starts with this task.         *)
LEMMA OpenGrantStep ==
  ASSUME Inductive, TypeOK', NEW t \in Task, OpenGrant(t)
  PROVE  Inductive'
<1> USE DEF Inductive
<1>0. PICK g \in GrantRow, o \in Opening :
      /\ minted["grant"] \in Nat
      /\ minted'["grant"] = minted["grant"] + 1
      /\ \A kind \in Kind \ {"grant"} : minted'[kind] = minted[kind]
      /\ UNCHANGED <<creds, codes, access, refresh, signins>>
      /\ grants' = grants \cup {g}
      /\ opened' = opened \cup {o}
      /\ g.id = minted'["grant"] /\ o.grant = minted'["grant"]
      /\ g.cred = ctx[t].cred /\ o.cred = ctx[t].cred
      /\ g.client = ctx[t].client /\ o.client = ctx[t].client
      /\ o.code = ctx[t].code
      /\ ctx[t].cred \in creds
      /\ pc[t] = "create_grant" /\ pc'[t] = "put_access"
      /\ ctx'[t].grant = minted'["grant"]
      /\ ctx'[t].cred = 0 /\ ctx'[t].code = 0
      /\ \A u \in Task \ {t} : pc'[u] = pc[u] /\ ctx'[u] = ctx[u]
  <2> DEFINE g == [id |-> NewId("grant"), client |-> ctx[t].client,
                   cred |-> ctx[t].cred]
             o == [code |-> ctx[t].code, client |-> ctx[t].client,
                   cred |-> ctx[t].cred, grant |-> NewId("grant")]
  <2>1. ctx[t].client \in Client /\ pc[t] = "create_grant"
    BY DEF OpenGrant, At, TypeOK, TaskTypeOK, Named
  <2>2. g \in GrantRow /\ o \in Opening
    BY <2>1, LocalType DEF GrantRow, Opening, NewId, TypeOK, StoreTypeOK, Kind
  <2>3. /\ grants' = grants \cup {g} /\ g.id = minted'["grant"]
        /\ opened' = opened \cup {o} /\ o.grant = minted'["grant"]
        /\ ctx'[t].grant = minted'["grant"]
    BY DEF OpenGrant, CreateGrant, Mint, NewId, Keep, Blank, TypeOK,
           StoreTypeOK, TaskTypeOK, Kind
  <2>4. /\ minted["grant"] \in Nat
        /\ minted'["grant"] = minted["grant"] + 1
        /\ \A kind \in Kind \ {"grant"} : minted'[kind] = minted[kind]
        /\ UNCHANGED <<creds, codes, access, refresh, signins>>
        /\ ctx[t].cred \in creds
    BY DEF OpenGrant, CreateGrant, Mint, TypeOK, StoreTypeOK, Kind
  <2>5. /\ pc'[t] = "put_access"
        /\ ctx'[t].cred = 0 /\ ctx'[t].code = 0
        /\ \A u \in Task \ {t} : pc'[u] = pc[u] /\ ctx'[u] = ctx[u]
    BY DEF OpenGrant, Goto, Keep, Blank, TypeOK, TaskTypeOK
  <2> QED BY <2>1, <2>2, <2>3, <2>4, <2>5
<1>a. /\ \A h \in grants : h.id # g.id
      /\ \A p \in opened : p.grant # g.id
      /\ \A u \in Task : ctx[u].grant # g.id
      /\ \A a \in access \cup refresh : a.grant # g.id
  <2>0. \A n \in Nat : n <= minted["grant"] => n # g.id
    BY <1>0
  <2>1. \A h \in grants : h.id \in Nat /\ h.id <= minted["grant"]
    BY DEF Fresh, TypeOK, StoreTypeOK, GrantRow
  <2>2. \A p \in opened : p.grant \in Nat /\ p.grant <= minted["grant"]
    BY DEF Fresh, TypeOK, HistoryTypeOK, Opening
  <2>3. \A u \in Task : ctx[u].grant \in Nat /\ ctx[u].grant <= minted["grant"]
    BY LocalType DEF Fresh
  <2>4. \A a \in access \cup refresh :
           a.grant \in Nat /\ a.grant <= minted["grant"]
    BY DEF Fresh, TypeOK, StoreTypeOK, TokenRow
  <2> QED BY <2>0, <2>1, <2>2, <2>3, <2>4
<1>1. Fresh'
  <2>1. \A kind \in {"cred", "code"} :
            minted'[kind] = minted[kind] /\ minted[kind] \in Nat
    BY <1>0 DEF Kind, TypeOK, StoreTypeOK
  <2>2. \A h \in grants' : h.id <= minted'["grant"]
    BY <1>0 DEF Fresh, TypeOK, StoreTypeOK, GrantRow
  <2>3. \A p \in opened' : p.code <= minted'["code"]
                           /\ p.cred <= minted'["cred"]
                           /\ p.grant <= minted'["grant"]
    BY <1>0, <2>1, LocalType DEF Fresh, TypeOK, HistoryTypeOK, Opening
  <2>4. \A u \in Task : ctx'[u].code <= minted'["code"]
                        /\ ctx'[u].cred <= minted'["cred"]
                        /\ ctx'[u].grant <= minted'["grant"]
    BY <1>0, <2>1, LocalType DEF Fresh
  <2>5. \A a \in (access \cup refresh)' : a.grant <= minted'["grant"]
    BY <1>0 DEF Fresh, TypeOK, StoreTypeOK, TokenRow
  <2> QED BY <1>0, <2>1, <2>2, <2>3, <2>4, <2>5 DEF Fresh
<1>2. Keys'
  BY <1>0, <1>a DEF Keys
<1>3. References'
  BY <1>0 DEF References, HasGrant
<1>4. CredentialStays'
  BY <1>0 DEF CredentialStays
<1>5. Custody'
  BY <1>0, <1>a DEF Custody, Holding, Redeeming
<1>6. Openings'
  <2>1. \A h \in grants' : \E p \in opened' :
            p.grant = h.id /\ p.cred = h.cred /\ p.client = h.client
    BY <1>0 DEF Openings
  <2>2. \A u \in Task : Using(u)' => \E p \in opened' :
            p.grant = ctx'[u].grant /\ p.cred = ctx'[u].cred
              /\ p.client = ctx'[u].client
    BY <1>0 DEF Openings, Using
  <2>3. \A u \in Task : Revoking(u)' => \E p \in opened' :
            p.grant = ctx'[u].grant /\ p.cred = ctx'[u].cred
    BY <1>0 DEF Openings, Revoking
  <2>4. \A u \in Task :
            pc'[u] \in {"count_grants", "delete_credential"} =>
                ~HasGrant(ctx[u].grant)' 
    BY <1>0, <1>a DEF Openings, HasGrant
  <2> QED BY <2>1, <2>2, <2>3, <2>4 DEF Openings
<1>7. Provenance'
  BY <1>0 DEF Provenance, Holding, SignedIn
<1>8. Succession'
  BY <1>0, <1>a DEF Succession, Issuing
<1> QED BY <1>1, <1>2, <1>3, <1>4, <1>5, <1>6, <1>7, <1>8

(* rotate_refresh_token keeps the invariant: the chain passes from the     *)
(* token to the task that spent it, and the grant's access tokens go.      *)
LEMMA RotateTokenStep ==
  ASSUME Inductive, TypeOK', NEW t \in Task, NEW c \in Client, RotateToken(t,
     c)
  PROVE  Inductive'
<1> USE DEF Inductive
<1>0. PICK tok \in refresh, g \in grants :
      /\ UNCHANGED <<creds, codes, grants, opened, signins, minted>>
      /\ refresh' = refresh \ {tok}
      /\ access' = {a \in access : a.grant # tok.grant}
      /\ g.id = tok.grant
      /\ pc[t] = "idle" /\ pc'[t] = "put_access"
      /\ ctx'[t].grant = tok.grant
      /\ ctx'[t].cred = 0 /\ ctx'[t].code = 0
      /\ \A u \in Task \ {t} : pc'[u] = pc[u] /\ ctx'[u] = ctx[u]
  BY DEF RotateToken, At, LiveToken, RotateRefreshToken, Goto, Keep, Blank,
         history, TypeOK, TaskTypeOK
<1>1. Fresh'
  <2>1. \A kind \in {"cred", "code", "grant"} : minted[kind] \in Nat
    BY DEF Kind, TypeOK, StoreTypeOK
  <2> QED BY <1>0, <2>1 DEF Fresh
<1>2. Keys'
  BY <1>0 DEF Keys
<1>3. References'
  BY <1>0 DEF References, HasGrant
<1>4. CredentialStays'
  BY <1>0 DEF CredentialStays
<1>5. Custody'
  BY <1>0 DEF Custody, Holding, Redeeming
<1>6. Openings'
  BY <1>0 DEF Openings, HasGrant, Using, Revoking
<1>7. Provenance'
  BY <1>0 DEF Provenance, Holding, SignedIn
<1>8. Succession'
  BY <1>0 DEF Succession, Issuing
<1> QED BY <1>1, <1>2, <1>3, <1>4, <1>5, <1>6, <1>7, <1>8

(* _issue's put_access_token keeps the invariant: the grant had no access  *)
(* token.                                                                  *)
LEMMA IssueAccessStep ==
  ASSUME Inductive, TypeOK', NEW t \in Task, IssueAccess(t)
  PROVE  Inductive'
<1> USE DEF Inductive
<1>0. PICK row \in TokenRow :
      /\ \A kind \in Kind \ {"access"} : minted'[kind] = minted[kind]
      /\ UNCHANGED <<creds, codes, grants, refresh, opened, signins>>
      /\ access' = access \cup {row}
      /\ row.grant = ctx[t].grant
      /\ HasGrant(ctx[t].grant)
      /\ pc[t] = "put_access" /\ pc'[t] = "put_refresh"
      /\ ctx' = ctx
      /\ \A u \in Task \ {t} : pc'[u] = pc[u] /\ ctx'[u] = ctx[u]
  <2> DEFINE row == [id |-> NewId("access"), grant |-> ctx[t].grant,
                     expired |-> FALSE]
  <2>1. row \in TokenRow
    BY LocalType DEF TokenRow, NewId, TypeOK, StoreTypeOK, Kind
  <2>2. access' = access \cup {row} /\ row.grant = ctx[t].grant
    BY DEF IssueAccess, PutAccessToken
  <2>3. /\ \A kind \in Kind \ {"access"} : minted'[kind] = minted[kind]
        /\ UNCHANGED <<creds, codes, grants, refresh, opened, signins>>
        /\ HasGrant(ctx[t].grant)
    BY DEF IssueAccess, PutAccessToken, Mint, history, TypeOK, StoreTypeOK,
       Kind
  <2>4. /\ pc[t] = "put_access" /\ pc'[t] = "put_refresh"
        /\ ctx' = ctx
        /\ \A u \in Task \ {t} : pc'[u] = pc[u] /\ ctx'[u] = ctx[u]
    BY DEF IssueAccess, At, Finish, Goto, Keep, Blank, TypeOK, TaskTypeOK
  <2> QED BY <2>1, <2>2, <2>3, <2>4
<1>1. Fresh'
  <2>1. \A kind \in {"cred", "code", "grant"} :
            minted'[kind] = minted[kind] /\ minted[kind] \in Nat
    BY <1>0 DEF Kind, TypeOK, StoreTypeOK
  <2>2. \A a \in (access \cup refresh)' : a.grant <= minted'["grant"]
    BY <1>0, <2>1 DEF Fresh
  <2> QED BY <1>0, <2>1, <2>2 DEF Fresh
<1>2. Keys'
  BY <1>0 DEF Keys
<1>3. References'
  BY <1>0 DEF References, HasGrant
<1>4. CredentialStays'
  BY <1>0 DEF CredentialStays
<1>5. Custody'
  BY <1>0 DEF Custody, Holding, Redeeming
<1>6. Openings'
  BY <1>0 DEF Openings, HasGrant, Using, Revoking
<1>7. Provenance'
  BY <1>0 DEF Provenance, Holding, SignedIn
<1>8. Succession'
  BY <1>0 DEF Succession, Issuing
<1> QED BY <1>1, <1>2, <1>3, <1>4, <1>5, <1>6, <1>7, <1>8

(* _issue's put_refresh_token keeps the invariant: the chain passes from   *)
(* the task to the new token.                                              *)
LEMMA IssueRefreshStep ==
  ASSUME Inductive, TypeOK', NEW t \in Task, IssueRefresh(t)
  PROVE  Inductive'
<1> USE DEF Inductive
<1>0. PICK row \in TokenRow :
      /\ \A kind \in Kind \ {"refresh"} : minted'[kind] = minted[kind]
      /\ UNCHANGED <<creds, codes, grants, access, opened, signins>>
      /\ refresh' = refresh \cup {row}
      /\ row.grant = ctx[t].grant
      /\ HasGrant(ctx[t].grant)
      /\ pc[t] = "put_refresh" /\ pc'[t] = "idle"
      /\ ctx'[t].cred = 0 /\ ctx'[t].code = 0 /\ ctx'[t].grant = 0
      /\ \A u \in Task \ {t} : pc'[u] = pc[u] /\ ctx'[u] = ctx[u]
  <2> DEFINE row == [id |-> NewId("refresh"), grant |-> ctx[t].grant,
                     expired |-> FALSE]
  <2>1. row \in TokenRow
    BY LocalType DEF TokenRow, NewId, TypeOK, StoreTypeOK, Kind
  <2>2. refresh' = refresh \cup {row} /\ row.grant = ctx[t].grant
    BY DEF IssueRefresh, PutRefreshToken
  <2>3. /\ \A kind \in Kind \ {"refresh"} : minted'[kind] = minted[kind]
        /\ UNCHANGED <<creds, codes, grants, access, opened, signins>>
        /\ HasGrant(ctx[t].grant)
    BY DEF IssueRefresh, PutRefreshToken, Mint, history, TypeOK, StoreTypeOK,
       Kind
  <2>4. /\ pc[t] = "put_refresh" /\ pc'[t] = "idle"
        /\ ctx'[t].cred = 0 /\ ctx'[t].code = 0 /\ ctx'[t].grant = 0
        /\ \A u \in Task \ {t} : pc'[u] = pc[u] /\ ctx'[u] = ctx[u]
    BY DEF IssueRefresh, At, Finish, Goto, Keep, Blank, TypeOK, TaskTypeOK
  <2> QED BY <2>1, <2>2, <2>3, <2>4
<1>1. Fresh'
  <2>1. \A kind \in {"cred", "code", "grant"} :
            minted'[kind] = minted[kind] /\ minted[kind] \in Nat
    BY <1>0 DEF Kind, TypeOK, StoreTypeOK
  <2>2. \A a \in (access \cup refresh)' : a.grant <= minted'["grant"]
    BY <1>0, <2>1 DEF Fresh
  <2> QED BY <1>0, <2>1, <2>2 DEF Fresh
<1>2. Keys'
  BY <1>0 DEF Keys
<1>3. References'
  BY <1>0 DEF References, HasGrant
<1>4. CredentialStays'
  BY <1>0 DEF CredentialStays
<1>5. Custody'
  BY <1>0 DEF Custody, Holding, Redeeming
<1>6. Openings'
  BY <1>0 DEF Openings, HasGrant, Using, Revoking
<1>7. Provenance'
  BY <1>0 DEF Provenance, Holding, SignedIn
<1>8. Succession'
  BY <1>0 DEF Succession, Issuing
<1> QED BY <1>1, <1>2, <1>3, <1>4, <1>5, <1>6, <1>7, <1>8

(* A step that only moves one task to a lookup or a revocation of an       *)
(* opened grant keeps the invariant.                                       *)
LEMMA MoveStep ==
  ASSUME Inductive, TypeOK', NEW t \in Task,
         UNCHANGED <<store, signins, opened>>,
         \A u \in Task \ {t} : pc'[u] = pc[u] /\ ctx'[u] = ctx[u],
         \/ /\ pc'[t] \in {"get_credential", "serving"}
            /\ ctx'[t].code \in {0, ctx[t].code}
            /\ \E o \in opened : /\ o.grant = ctx'[t].grant
                                 /\ o.cred = ctx'[t].cred
                                 /\ o.client = ctx'[t].client
         \/ /\ pc'[t] \in {"delete_grant", "count_grants",
                            "delete_credential"}
            /\ ctx'[t].code \in {0, ctx[t].code}
            /\ \E o \in opened : /\ o.grant = ctx'[t].grant
                                 /\ o.cred = ctx'[t].cred
            /\ pc'[t] # "delete_grant" => ~HasGrant(ctx'[t].grant)
  PROVE  Inductive'
<1> USE DEF Inductive, store
<1>1. Fresh'
  <2>1. \A kind \in {"cred", "code", "grant"} : minted[kind] \in Nat
    BY DEF Kind, TypeOK, StoreTypeOK
  <2>2. /\ ctx'[t].cred <= minted["cred"]
        /\ ctx'[t].grant <= minted["grant"]
        /\ ctx'[t].code <= minted["code"]
    BY <2>1 DEF Fresh
  <2> QED BY <2>1, <2>2 DEF Fresh
<1>2. Keys'
  BY DEF Keys
<1>3. References'
  BY DEF References, HasGrant
<1>4. CredentialStays'
  BY DEF CredentialStays
<1>5. Custody'
  BY DEF Custody, Holding, Redeeming
<1>6. Openings'
  BY DEF Openings, HasGrant, Using, Revoking
<1>7. Provenance'
  BY DEF Provenance, Holding, SignedIn
<1>8. Succession'
  BY DEF Succession, Issuing
<1> QED BY <1>1, <1>2, <1>3, <1>4, <1>5, <1>6, <1>7, <1>8

(* get_access_token keeps the invariant: the request works for the grant   *)
(* it found.                                                               *)
LEMMA LookUpTokenStep ==
  ASSUME Inductive, TypeOK', NEW t \in Task, LookUpToken(t)
  PROVE  Inductive'
<1>0. PICK tok \in access, g \in grants :
      /\ UNCHANGED <<store, opened, signins>>
      /\ pc'[t] = "get_credential"
      /\ ctx'[t].client = g.client
      /\ ctx'[t].cred = g.cred
      /\ ctx'[t].grant = g.id
      /\ ctx'[t].code = 0
      /\ \A u \in Task \ {t} : pc'[u] = pc[u] /\ ctx'[u] = ctx[u]
  BY DEF LookUpToken, Goto, Keep, Blank, history, Inductive, TypeOK, TaskTypeOK
<1>1. \E o \in opened : /\ o.grant = ctx'[t].grant
                        /\ o.cred = ctx'[t].cred
                        /\ o.client = ctx'[t].client
  BY <1>0 DEF Inductive, Openings
<1> QED BY <1>0, <1>1, MoveStep

(* get_credential in load_access_token keeps the invariant.                *)
LEMMA AuthenticateStep ==
  ASSUME Inductive, TypeOK', NEW t \in Task, Authenticate(t)
  PROVE  Inductive'
<1>1. CASE ctx[t].cred \in creds
  <2>1. /\ UNCHANGED <<store, opened, signins>>
        /\ pc[t] = "get_credential" /\ pc'[t] = "serving"
        /\ ctx' = ctx
        /\ \A u \in Task \ {t} : pc'[u] = pc[u] /\ ctx'[u] = ctx[u]
    BY <1>1 DEF Authenticate, At, Goto, history, Inductive, TypeOK, TaskTypeOK
  <2>2. \E o \in opened : /\ o.grant = ctx'[t].grant
                          /\ o.cred = ctx'[t].cred
                          /\ o.client = ctx'[t].client
    BY <2>1 DEF Inductive, Openings, Using
  <2> QED BY <2>1, <2>2, MoveStep
<1>2. CASE ctx[t].cred \notin creds
  <2>1. UNCHANGED store /\ Finish(t) /\ UNCHANGED <<opened, signins>>
    BY <1>2 DEF Authenticate, history
  <2> QED BY <2>1, FinishStep DEF store
<1> QED BY <1>1, <1>2

(* The SELECT of revoke_grant keeps the invariant.                         *)
LEMMA ReadGrantStep ==
  ASSUME Inductive, TypeOK', NEW t \in Task, NEW g \in grants, ReadGrant(t, g)
  PROVE  Inductive'
<1>0. /\ UNCHANGED <<store, opened, signins>>
      /\ pc'[t] = "delete_grant"
      /\ ctx'[t].cred = g.cred
      /\ ctx'[t].grant = g.id
      /\ ctx'[t].code = 0
      /\ \A u \in Task \ {t} : pc'[u] = pc[u] /\ ctx'[u] = ctx[u]
  BY DEF ReadGrant, Goto, Keep, Blank, history, Inductive, TypeOK, TaskTypeOK
<1>1. \E o \in opened : o.grant = ctx'[t].grant /\ o.cred = ctx'[t].cred
  BY <1>0 DEF Inductive, Openings
<1> QED BY <1>0, <1>1, MoveStep

(* The COUNT of revoke_grant keeps the invariant.                          *)
LEMMA CountGrantsStep ==
  ASSUME Inductive, TypeOK', NEW t \in Task, CountGrants(t)
  PROVE  Inductive'
<1>1. CASE GrantsOf(ctx[t].cred) = {}
  <2>1. /\ UNCHANGED <<store, opened, signins>>
        /\ pc[t] = "count_grants" /\ pc'[t] = "delete_credential"
        /\ ctx' = ctx
        /\ \A u \in Task \ {t} : pc'[u] = pc[u] /\ ctx'[u] = ctx[u]
    BY <1>1 DEF CountGrants, At, Goto, history, Inductive, TypeOK, TaskTypeOK
  <2>2. \E o \in opened : o.grant = ctx'[t].grant /\ o.cred = ctx'[t].cred
    BY <2>1 DEF Inductive, Openings, Revoking
  <2>3. ~HasGrant(ctx'[t].grant)
    BY <2>1 DEF Inductive, Openings
  <2> QED BY <2>1, <2>2, <2>3, MoveStep
<1>2. CASE GrantsOf(ctx[t].cred) # {}
  <2>1. UNCHANGED store /\ Finish(t) /\ UNCHANGED <<opened, signins>>
    BY <1>2 DEF CountGrants, history
  <2> QED BY <2>1, FinishStep DEF store
<1> QED BY <1>1, <1>2

(* DELETE FROM grants and its cascade keep the invariant.                  *)
LEMMA DeleteGrantRowStep ==
  ASSUME Inductive, TypeOK', NEW t \in Task, DeleteGrantRow(t)
  PROVE  Inductive'
<1> USE DEF Inductive
<1>0. /\ UNCHANGED <<creds, codes, opened, signins, minted, ctx>>
      /\ grants' = {row \in grants : row.id # ctx[t].grant}
      /\ access' = {a \in access : a.grant # ctx[t].grant}
      /\ refresh' = {r \in refresh : r.grant # ctx[t].grant}
      /\ pc[t] = "delete_grant" /\ pc'[t] = "count_grants"
      /\ \A u \in Task \ {t} : pc'[u] = pc[u]
  BY DEF DeleteGrantRow, At, DeleteGrant, Goto, history, TypeOK, TaskTypeOK
<1>1. Fresh'
  BY <1>0 DEF Fresh
<1>2. Keys'
  BY <1>0 DEF Keys
<1>3. References'
  BY <1>0 DEF References, HasGrant
<1>4. CredentialStays'
  BY <1>0 DEF CredentialStays
<1>5. Custody'
  BY <1>0 DEF Custody, Holding, Redeeming
<1>6. Openings'
  BY <1>0 DEF Openings, HasGrant, Using, Revoking
<1>7. Provenance'
  BY <1>0 DEF Provenance, Holding, SignedIn
<1>8. Succession'
  BY <1>0 DEF Succession, Issuing
<1> QED BY <1>1, <1>2, <1>3, <1>4, <1>5, <1>6, <1>7, <1>8

(* DELETE FROM odoo_credentials and its cascade keep the invariant: the    *)
(* credential was opened as a grant, so no sign-in and no redemption holds *)
(* it.                                                                     *)
LEMMA EraseCredentialStep ==
  ASSUME Inductive, TypeOK', NEW t \in Task, EraseCredential(t)
  PROVE  Inductive'
<1> USE DEF Inductive
<1>0. /\ UNCHANGED <<opened, signins, minted>>
      /\ creds' = creds \ {ctx[t].cred}
      /\ codes' = {c \in codes : c.cred # ctx[t].cred}
      /\ grants' = {g \in grants : g.cred # ctx[t].cred}
      /\ access' \subseteq access /\ refresh' \subseteq refresh
      /\ \A a \in (access \cup refresh)', g \in grants :
            g.cred = ctx[t].cred => a.grant # g.id
      /\ pc[t] = "delete_credential" /\ pc'[t] = "idle"
      /\ ctx'[t].cred = 0 /\ ctx'[t].code = 0 /\ ctx'[t].grant = 0
      /\ \A u \in Task \ {t} : pc'[u] = pc[u] /\ ctx'[u] = ctx[u]
  BY DEF EraseCredential, At, DeleteCredential, GrantsOf, Finish, Goto, Keep,
         Blank, history, TypeOK, TaskTypeOK
<1>a. \A u \in Task : Holding(u) => ctx[u].cred # ctx[t].cred
  <2>1. PICK o \in opened : o.cred = ctx[t].cred
    BY <1>0 DEF Openings, Revoking
  <2> QED BY <2>1 DEF Custody
<1>1. Fresh'
  <2>1. \A kind \in {"cred", "code", "grant"} : minted[kind] \in Nat
    BY DEF Kind, TypeOK, StoreTypeOK
  <2> QED BY <1>0, <2>1 DEF Fresh
<1>2. Keys'
  BY <1>0 DEF Keys
<1>3. References'
  BY <1>0 DEF References, HasGrant
<1>4. CredentialStays'
  BY <1>0, <1>a DEF CredentialStays, Holding
<1>5. Custody'
  BY <1>0 DEF Custody, Holding, Redeeming
<1>6. Openings'
  BY <1>0 DEF Openings, HasGrant, Using, Revoking
<1>7. Provenance'
  BY <1>0 DEF Provenance, Holding, SignedIn
<1>8. Succession'
  BY <1>0 DEF Succession, Issuing
<1> QED BY <1>1, <1>2, <1>3, <1>4, <1>5, <1>6, <1>7, <1>8

(* purge_expired keeps the invariant: it only removes rows nothing refers  *)
(* to.                                                                     *)
LEMMA PurgeStep ==
  ASSUME Inductive, TypeOK', NEW t \in Task, Purge(t)
  PROVE  Inductive'
<1> USE DEF Inductive
<1>0. /\ UNCHANGED <<creds, grants, pc, ctx, opened, signins, minted>>
      /\ codes' \subseteq codes
      /\ access' \subseteq access
      /\ refresh' \subseteq refresh
  BY DEF Purge, PurgeStatement, PurgeTxns, PurgeCodes, PurgeAccessTokens,
         PurgeRefreshTokens, Unexpired, tasks, history
<1>1. Fresh'
  BY <1>0 DEF Fresh
<1>2. Keys'
  BY <1>0 DEF Keys
<1>3. References'
  BY <1>0 DEF References, HasGrant
<1>4. CredentialStays'
  BY <1>0 DEF CredentialStays
<1>5. Custody'
  BY <1>0 DEF Custody, Holding, Redeeming
<1>6. Openings'
  BY <1>0 DEF Openings, HasGrant, Using, Revoking
<1>7. Provenance'
  BY <1>0 DEF Provenance, Holding, SignedIn
<1>8. Succession'
  BY <1>0 DEF Succession, Issuing
<1> QED BY <1>1, <1>2, <1>3, <1>4, <1>5, <1>6, <1>7, <1>8

(* A code passing its expires_at keeps the invariant.                      *)
LEMMA CodeExpiresStep ==
  ASSUME Inductive, TypeOK', CodeExpires, UNCHANGED <<tasks, faults, history>>
  PROVE  Inductive'
<1> USE DEF Inductive
<1>0. PICK row \in codes, old \in CodeRow :
      /\ UNCHANGED <<creds, grants, access, refresh, pc, ctx, opened, signins,
                     minted>>
      /\ codes' = (codes \ {row}) \cup {old}
      /\ old.id = row.id /\ old.cred = row.cred /\ old.client = row.client
  <2>1. PICK row \in codes : codes' = Aged(codes, row)
    BY DEF CodeExpires, Unexpired
  <2> DEFINE old == [row EXCEPT !.expired = TRUE]
  <2>2. old \in CodeRow /\ old.id = row.id /\ old.cred = row.cred
           /\ old.client = row.client
    BY DEF TypeOK, StoreTypeOK, CodeRow
  <2>3. codes' = (codes \ {row}) \cup {old}
    BY <2>1 DEF Aged
  <2> QED BY <2>2, <2>3 DEF CodeExpires, tasks, history
<1>1. Fresh'
  BY <1>0 DEF Fresh
<1>2. Keys'
  BY <1>0 DEF Keys
<1>3. References'
  BY <1>0 DEF References, HasGrant
<1>4. CredentialStays'
  BY <1>0 DEF CredentialStays
<1>5. Custody'
  BY <1>0 DEF Custody, Holding, Redeeming
<1>6. Openings'
  BY <1>0 DEF Openings, HasGrant, Using, Revoking
<1>7. Provenance'
  BY <1>0 DEF Provenance, Holding, SignedIn
<1>8. Succession'
  BY <1>0 DEF Succession, Issuing
<1> QED BY <1>1, <1>2, <1>3, <1>4, <1>5, <1>6, <1>7, <1>8

(* An access token passing its expires_at keeps the invariant.             *)
LEMMA AccessTokenExpiresStep ==
  ASSUME Inductive, TypeOK', AccessTokenExpires, UNCHANGED <<tasks, faults,
     history>>
  PROVE  Inductive'
<1> USE DEF Inductive
<1>0. PICK row \in access, old \in TokenRow :
      /\ UNCHANGED <<creds, codes, grants, refresh, pc, ctx, opened, signins,
                     minted>>
      /\ access' = (access \ {row}) \cup {old}
      /\ old.grant = row.grant
  <2>1. PICK row \in access : access' = Aged(access, row)
    BY DEF AccessTokenExpires, Unexpired
  <2> DEFINE old == [row EXCEPT !.expired = TRUE]
  <2>2. old \in TokenRow /\ old.grant = row.grant
    BY DEF TypeOK, StoreTypeOK, TokenRow
  <2>3. access' = (access \ {row}) \cup {old}
    BY <2>1 DEF Aged
  <2> QED BY <2>2, <2>3 DEF AccessTokenExpires, tasks, history
<1>1. Fresh'
  BY <1>0 DEF Fresh
<1>2. Keys'
  BY <1>0 DEF Keys
<1>3. References'
  BY <1>0 DEF References, HasGrant
<1>4. CredentialStays'
  BY <1>0 DEF CredentialStays
<1>5. Custody'
  BY <1>0 DEF Custody, Holding, Redeeming
<1>6. Openings'
  BY <1>0 DEF Openings, HasGrant, Using, Revoking
<1>7. Provenance'
  BY <1>0 DEF Provenance, Holding, SignedIn
<1>8. Succession'
  BY <1>0 DEF Succession, Issuing
<1> QED BY <1>1, <1>2, <1>3, <1>4, <1>5, <1>6, <1>7, <1>8

(* A refresh token passing its expires_at keeps the invariant.             *)
LEMMA RefreshTokenExpiresStep ==
  ASSUME Inductive, TypeOK', RefreshTokenExpires, UNCHANGED <<tasks, faults,
     history>>
  PROVE  Inductive'
<1> USE DEF Inductive
<1>0. PICK row \in refresh, old \in TokenRow :
      /\ UNCHANGED <<creds, codes, grants, access, pc, ctx, opened, signins,
                     minted>>
      /\ refresh' = (refresh \ {row}) \cup {old}
      /\ old.grant = row.grant
  <2>1. PICK row \in refresh : refresh' = Aged(refresh, row)
    BY DEF RefreshTokenExpires, Unexpired
  <2> DEFINE old == [row EXCEPT !.expired = TRUE]
  <2>2. old \in TokenRow /\ old.grant = row.grant
    BY DEF TypeOK, StoreTypeOK, TokenRow
  <2>3. refresh' = (refresh \ {row}) \cup {old}
    BY <2>1 DEF Aged
  <2> QED BY <2>2, <2>3 DEF RefreshTokenExpires, tasks, history
<1>1. Fresh'
  BY <1>0 DEF Fresh
<1>2. Keys'
  BY <1>0 DEF Keys
<1>3. References'
  BY <1>0 DEF References, HasGrant
<1>4. CredentialStays'
  BY <1>0 DEF CredentialStays
<1>5. Custody'
  BY <1>0 DEF Custody, Holding, Redeeming
<1>6. Openings'
  BY <1>0 DEF Openings, HasGrant, Using, Revoking
<1>7. Provenance'
  BY <1>0 DEF Provenance, Holding, SignedIn
<1>8. Succession'
  BY <1>0 DEF Succession, Issuing
<1> QED BY <1>1, <1>2, <1>3, <1>4, <1>5, <1>6, <1>7, <1>8

(* The invariant holds of an empty database.                               *)
LEMMA InductiveInit == Init => Inductive
<1> SUFFICES ASSUME Init PROVE Inductive
  OBVIOUS
<1> USE DEF Init, StoreInit
<1>0. \A t \in Task : pc[t] = "idle" /\ ctx[t] = Blank
  OBVIOUS
<1>1. TypeOK
  BY TypeInit
<1>2. Fresh
  BY <1>0 DEF Fresh, Blank, Kind
<1>3. Keys /\ References
  BY DEF Keys, References
<1>4. CredentialStays
  BY <1>0 DEF CredentialStays
<1>5. Custody
  BY <1>0 DEF Custody, Holding, Redeeming
<1>6. Openings
  BY <1>0 DEF Openings, Using, Revoking
<1>7. Provenance
  BY <1>0 DEF Provenance, Holding
<1>8. Succession
  BY <1>0 DEF Succession, Issuing
<1> QED BY <1>1, <1>2, <1>3, <1>4, <1>5, <1>6, <1>7, <1>8 DEF Inductive

(* Every step keeps the invariant.                                         *)
LEMMA InductiveStep == Inductive /\ [Next]_vars => Inductive'
<1> SUFFICES ASSUME Inductive, [Next]_vars PROVE Inductive'
  OBVIOUS
<1>0. TypeOK'
  BY TypeStep DEF Inductive
<1>1. ASSUME NEW t \in Handler, NEW c \in Client, Authorize(t, c)
      PROVE  Inductive'
  <2>1. UNCHANGED <<creds, codes, grants, access, refresh, signins, opened,
                    pc, ctx>>
    BY <1>1 DEF Authorize, PutTxn, tasks, history
  <2>2. \A kind \in Kind \ {"txn"} : minted'[kind] = minted[kind]
    BY <1>1 DEF Authorize, PutTxn, Mint, Inductive, TypeOK, StoreTypeOK, Kind
  <2> QED BY <1>0, <2>1, <2>2, SettleStep
<1>2. ASSUME NEW t \in Handler, LoginSubmit(t) PROVE Inductive'
  <2>1. UNCHANGED <<store, signins, opened>>
    BY <1>2 DEF LoginSubmit
  <2>2. /\ pc'[t] = "validating"
        /\ ctx'[t].cred = 0 /\ ctx'[t].code = 0 /\ ctx'[t].grant = 0
        /\ \A u \in Task \ {t} : pc'[u] = pc[u] /\ ctx'[u] = ctx[u]
    BY <1>2 DEF LoginSubmit, Goto, Keep, Blank, Inductive, TypeOK, TaskTypeOK,
                Task
  <2> QED BY <1>0, <2>1, <2>2, SettleStep DEF store, Aside
<1>3. ASSUME NEW t \in Task, LoginRefused(t) PROVE Inductive'
  <2>1. UNCHANGED <<creds, codes, grants, access, refresh, minted, signins,
                    opened, ctx>>
    BY <1>3 DEF LoginRefused, CountAttempt, history
  <2>2. /\ pc'[t] = "read_attempts"
        /\ \A u \in Task \ {t} : pc'[u] = pc[u]
    BY <1>3 DEF LoginRefused, Goto, Inductive, TypeOK, TaskTypeOK
  <2> QED BY <1>0, <2>1, <2>2, SettleStep DEF Aside
<1>4. ASSUME NEW t \in Task, ReadAttempts(t) PROVE Inductive'
  <2>1. UNCHANGED <<store, signins, opened>>
    BY <1>4 DEF ReadAttempts, history
  <2>2. CASE AttemptsExhausted(ctx[t].txn)
    <3>1. /\ pc'[t] = "cancel_txn" /\ ctx' = ctx
          /\ \A u \in Task \ {t} : pc'[u] = pc[u]
      BY <1>4, <2>2 DEF ReadAttempts, Goto, Inductive, TypeOK, TaskTypeOK
    <3> QED BY <1>0, <2>1, <3>1, SettleStep DEF store, Aside
  <2>3. CASE ~AttemptsExhausted(ctx[t].txn)
    <3>1. Finish(t)
      BY <1>4, <2>3 DEF ReadAttempts
    <3> QED BY <1>0, <2>1, <3>1, FinishStep DEF store
  <2> QED BY <2>2, <2>3
<1>5. ASSUME NEW t \in Task, CancelTxn(t) PROVE Inductive'
  BY <1>0, <1>5, FinishStep DEF CancelTxn, DeleteTxn, history
<1>6. ASSUME NEW t \in Task, LoginAccepted(t) PROVE Inductive'
  BY <1>0, <1>6, LoginAcceptedStep
<1>7. ASSUME NEW t \in Task, MintCode(t) PROVE Inductive'
  BY <1>0, <1>7, MintCodeStep
<1>8. ASSUME NEW t \in Task, CloseTxn(t) PROVE Inductive'
  BY <1>0, <1>8, FinishStep DEF CloseTxn, DeleteTxn, history
<1>9. ASSUME NEW t \in Handler, NEW c \in Client, RedeemCode(t, c)
      PROVE  Inductive'
  BY <1>0, <1>9, RedeemCodeStep DEF Task
<1>10. ASSUME NEW t \in Task, OpenGrant(t) PROVE Inductive'
  BY <1>0, <1>10, OpenGrantStep
<1>11. ASSUME NEW t \in Handler, NEW c \in Client, RotateToken(t, c)
       PROVE  Inductive'
  BY <1>0, <1>11, RotateTokenStep DEF Task
<1>12. ASSUME NEW t \in Task, IssueAccess(t) PROVE Inductive'
  BY <1>0, <1>12, IssueAccessStep
<1>13. ASSUME NEW t \in Task, IssueRefresh(t) PROVE Inductive'
  BY <1>0, <1>13, IssueRefreshStep
<1>14. ASSUME NEW t \in Task, IssueRefused(t) PROVE Inductive'
  BY <1>0, <1>14, FinishStep DEF IssueRefused, store, history
<1>15. ASSUME NEW t \in Handler, LookUpToken(t) PROVE Inductive'
  BY <1>0, <1>15, LookUpTokenStep DEF Task
<1>16. ASSUME NEW t \in Task, Authenticate(t) PROVE Inductive'
  BY <1>0, <1>16, AuthenticateStep
<1>17. ASSUME NEW t \in Task, FinishCall(t) PROVE Inductive'
  BY <1>0, <1>17, FinishStep DEF FinishCall, store, history
<1>18. ASSUME NEW t \in Task, NEW g \in grants, ReadGrant(t, g)
       PROVE  Inductive'
  BY <1>0, <1>18, ReadGrantStep
<1>19. ASSUME NEW t \in Task, DeleteGrantRow(t) PROVE Inductive'
  BY <1>0, <1>19, DeleteGrantRowStep
<1>20. ASSUME NEW t \in Task, CountGrants(t) PROVE Inductive'
  BY <1>0, <1>20, CountGrantsStep
<1>21. ASSUME NEW t \in Task, EraseCredential(t) PROVE Inductive'
  BY <1>0, <1>21, EraseCredentialStep
<1>22. ASSUME NEW t \in Task, Purge(t) PROVE Inductive'
  BY <1>0, <1>22, PurgeStep
<1>23. CASE Tick
  <2>1. CASE TxnExpires
    BY <1>0, <1>23, <2>1, SettleStep DEF Tick, TxnExpires, tasks, history
  <2>2. CASE CodeExpires
    BY <1>0, <1>23, <2>2, CodeExpiresStep DEF Tick
  <2>3. CASE AccessTokenExpires
    BY <1>0, <1>23, <2>3, AccessTokenExpiresStep DEF Tick
  <2>4. CASE RefreshTokenExpires
    BY <1>0, <1>23, <2>4, RefreshTokenExpiresStep DEF Tick
  <2> QED BY <1>23, <2>1, <2>2, <2>3, <2>4 DEF Tick, TimePasses
<1>24. ASSUME NEW t \in Task, StatementFails(t) PROVE Inductive'
  BY <1>0, <1>24, FinishStep DEF StatementFails, store, history
<1>25. ASSUME NEW p \in Server, ServerRestarts(p) PROVE Inductive'
  <2>1. UNCHANGED <<store, signins, opened>>
    BY <1>25 DEF ServerRestarts, history
  <2>2. \A u \in Task :
          \/ pc'[u] = pc[u] /\ ctx'[u] = ctx[u]
          \/ pc'[u] = "idle" /\ ctx'[u] = Blank
    BY <1>25 DEF ServerRestarts
  <2>3. \A u \in Task :
          \/ pc'[u] = pc[u] /\ ctx'[u] = ctx[u]
          \/ /\ pc'[u] \in Aside
             /\ ctx'[u].cred \in {0, ctx[u].cred}
             /\ ctx'[u].code \in {0, ctx[u].code}
             /\ ctx'[u].grant \in {0, ctx[u].grant}
    BY <2>2 DEF Blank, Aside
  <2> QED BY <1>0, <2>1, <2>3, SettleStep DEF store
<1>26. CASE UNCHANGED vars
  BY <1>0, <1>26, SettleStep DEF vars, store, tasks, history
<1> QED
  BY <1>1, <1>2, <1>3, <1>4, <1>5, <1>6, <1>7, <1>8, <1>9, <1>10, <1>11,
     <1>12, <1>13, <1>14, <1>15, <1>16, <1>17, <1>18, <1>19, <1>20, <1>21,
     <1>22, <1>23, <1>24, <1>25, <1>26
     DEF Next, Request, Resume, RevokeByCommand, RevokeByToken, Task

(* The invariant holds in every reachable state, for any number of         *)
(* clients, handlers, commands and processes, any bounds and any faults.   *)
THEOREM InductiveHolds == Spec => []Inductive
BY InductiveInit, InductiveStep, PTL DEF Spec

(* Custody leaves no room for two holders of a credential.                 *)
LEMMA HolderIsOne == Inductive => OneHolder
<1> SUFFICES ASSUME Inductive, NEW k \in creds,
                    NEW h \in Holders(k), NEW i \in Holders(k)
             PROVE  h = i
  BY DEF OneHolder
<1> USE DEF Inductive, Holders, GrantsOf
<1> DEFINE ByCode(x) == \E c \in codes : c.cred = k /\ x = <<"code", c.id>>
           ByGrant(x) == \E g \in grants : g.cred = k /\ x = <<"grant", g.id>>
           ByTask(x) == \E t \in Task : /\ Holding(t) /\ ctx[t].cred = k
                                        /\ x = <<"task", t>>
<1>1. \A x \in Holders(k) : ByCode(x) \/ ByGrant(x) \/ ByTask(x)
  BY DEF Holding
<1>2. \A g \in grants : g.cred = k =>
         \E o \in opened : o.grant = g.id /\ o.cred = k
  BY DEF Openings
<1>3. ASSUME ByCode(h) PROVE h = i
  <2>1. ~ByGrant(i)
    BY <1>2, <1>3 DEF Custody
  <2>2. ~ByTask(i)
    BY <1>3 DEF Custody
  <2> QED BY <1>1, <1>3, <2>1, <2>2 DEF Custody
<1>4. ASSUME ByGrant(h) PROVE h = i
  <2>1. ~ByCode(i)
    BY <1>2, <1>4 DEF Custody
  <2>2. ~ByTask(i)
    BY <1>2, <1>4 DEF Custody
  <2>3. \A g, j \in grants : g.cred = k /\ j.cred = k => g.id = j.id
    BY <1>2 DEF Custody
  <2> QED BY <1>1, <1>4, <2>1, <2>2, <2>3
<1>5. ASSUME ByTask(h) PROVE h = i
  <2>1. ~ByCode(i)
    BY <1>5 DEF Custody
  <2>2. ~ByGrant(i)
    BY <1>2, <1>5 DEF Custody
  <2> QED BY <1>1, <1>5, <2>1, <2>2 DEF Custody
<1> QED BY <1>1, <1>3, <1>4, <1>5

(* A stored credential is with one sign-in, one code, one redemption or    *)
(* one grant: what the exclusive DELETE of consume_code and the order of   *)
(* complete_login's statements are for.                                    *)
THEOREM CredentialsHeldOnce == Spec => []OneHolder
BY InductiveHolds, HolderIsOne, PTL

(* put_code and create_grant never fail on their foreign key: no           *)
(* revocation or purge takes a credential away under a sign-in or a        *)
(* redemption.                                                             *)
THEOREM CredentialsStay == Spec => []CredentialStays
<1>1. Inductive => CredentialStays
  BY DEF Inductive
<1> QED BY <1>1, InductiveHolds, PTL

(* Succession leaves no room for two refresh chains of a grant.            *)
LEMMA ChainIsOne == Inductive => OneChain
<1> SUFFICES ASSUME Inductive, NEW g \in grants,
                    NEW h \in Chains(g.id), NEW i \in Chains(g.id)
             PROVE  h = i
  BY DEF OneChain
<1> USE DEF Inductive, Chains
<1> DEFINE ByToken(x) == \E r \in refresh : /\ r.grant = g.id
                                            /\ x = <<"token", r.id>>
           ByTask(x) == \E t \in Task : /\ Issuing(t) /\ ctx[t].grant = g.id
                                        /\ x = <<"task", t>>
<1>1. \A x \in Chains(g.id) : ByToken(x) \/ ByTask(x)
  BY DEF Issuing
<1>2. ASSUME ByToken(h) PROVE h = i
  BY <1>1, <1>2 DEF Succession
<1>3. ASSUME ByTask(h) PROVE h = i
  BY <1>1, <1>3 DEF Succession
<1> QED BY <1>1, <1>2, <1>3

(* A refresh token presented to several processes at once is spent once:   *)
(* rotate_refresh_token leaves one successor.                              *)
THEOREM ChainsAreSingle == Spec => []OneChain
BY InductiveHolds, ChainIsOne, PTL

(* rotate_refresh_token and _issue never leave a grant with two access     *)
(* tokens, whatever fails between their statements.                        *)
THEOREM AccessTokensAreSingle == Spec => []OneAccessToken
<1>1. Inductive => OneAccessToken
  BY DEF Inductive, Succession, OneAccessToken
<1> QED BY <1>1, InductiveHolds, PTL

(* consume_code is single-use: no code and no credential opens a second    *)
(* grant.                                                                  *)
THEOREM CodesRedeemedOnce == Spec => []RedeemedOnce
<1>1. Inductive => RedeemedOnce
  BY DEF Inductive, Custody, RedeemedOnce
<1> QED BY <1>1, InductiveHolds, PTL

(* A request is served with a credential its own client's user signed in   *)
(* with.                                                                   *)
THEOREM ClientsServedAsSignedIn == Spec => []ServedAsSignedIn
<1>1. Inductive => ServedAsSignedIn
  <2> SUFFICES ASSUME Inductive PROVE ServedAsSignedIn
    OBVIOUS
  <2> USE DEF Inductive, Openings, Provenance, SignedIn
  <2>1. \A g \in grants : \E s \in signins :
            s.cred = g.cred /\ s.client = g.client
    OBVIOUS
  <2>2. \A t \in Task : Using(t) => \E s \in signins :
            s.cred = ctx[t].cred /\ s.client = ctx[t].client
    OBVIOUS
  <2> QED BY <2>1, <2>2 DEF ServedAsSignedIn, Using
<1> QED BY <1>1, InductiveHolds, PTL

-----------------------------------------------------------------------------
(* Revocation: the password goes with the grant when nothing fails, and a  *)
(* grant that is gone stays gone whatever fails.                           *)

Erasing == {"count_grants", "delete_credential"}

(* A step of a task that is not erasing, and that touches neither grants   *)
(* nor credentials, leaves every erasure under way.                        *)
LEMMA ErasureKept ==
  ASSUME Inductive, RevocationErases, NEW t \in Task, pc[t] \notin Erasing,
         \A u \in Task \ {t} : pc'[u] = pc[u] /\ ctx'[u] = ctx[u],
         opened' = opened, grants' = grants, creds' = creds
  PROVE  RevocationErases'
BY DEF RevocationErases, HasGrant, Erasing

(* Without faults every step leaves each closed grant erased or about to   *)
(* be.                                                                     *)
LEMMA ErasureStep ==
  ASSUME MaxFaults = 0, Inductive, RevocationErases, [Next]_vars
  PROVE  RevocationErases'
<1>0. TypeOK' /\ TypeOK /\ faults = 0
  BY TypeStep DEF Inductive, TypeOK, HistoryTypeOK
<1> USE DEF Goto, Keep, Finish, TypeOK, TaskTypeOK, history, tasks, store
<1>1. ASSUME NEW t \in Handler, NEW c \in Client, Authorize(t, c)
      PROVE  RevocationErases'
  BY <1>1 DEF Authorize, PutTxn, RevocationErases, HasGrant
<1>2. ASSUME NEW t \in Handler, LoginSubmit(t) PROVE RevocationErases'
  <2>1. /\ pc[t] = "idle" /\ UNCHANGED <<opened, grants, creds>>
        /\ \A u \in Task \ {t} : pc'[u] = pc[u] /\ ctx'[u] = ctx[u]
    BY <1>0, <1>2 DEF LoginSubmit, At
  <2> QED BY <2>1, ErasureKept DEF Erasing, Task
<1>3. ASSUME NEW t \in Task, LoginRefused(t) PROVE RevocationErases'
  <2>1. /\ pc[t] = "validating" /\ UNCHANGED <<opened, grants, creds>>
        /\ \A u \in Task \ {t} : pc'[u] = pc[u] /\ ctx'[u] = ctx[u]
    BY <1>0, <1>3 DEF LoginRefused, CountAttempt, At
  <2> QED BY <2>1, ErasureKept DEF Erasing
<1>4. ASSUME NEW t \in Task, ReadAttempts(t) PROVE RevocationErases'
  <2>1. /\ pc[t] = "read_attempts" /\ UNCHANGED <<opened, grants, creds>>
        /\ \A u \in Task \ {t} : pc'[u] = pc[u] /\ ctx'[u] = ctx[u]
    BY <1>0, <1>4 DEF ReadAttempts, At
  <2> QED BY <2>1, ErasureKept DEF Erasing
<1>5. ASSUME NEW t \in Task, CancelTxn(t) PROVE RevocationErases'
  <2>1. /\ pc[t] = "cancel_txn" /\ UNCHANGED <<opened, grants, creds>>
        /\ \A u \in Task \ {t} : pc'[u] = pc[u] /\ ctx'[u] = ctx[u]
    BY <1>0, <1>5 DEF CancelTxn, DeleteTxn, At
  <2> QED BY <2>1, ErasureKept DEF Erasing
<1>6. ASSUME NEW t \in Task, LoginAccepted(t) PROVE RevocationErases'
  <2>1. /\ pc[t] = "validating" /\ UNCHANGED <<opened, grants>>
        /\ \A u \in Task \ {t} : pc'[u] = pc[u] /\ ctx'[u] = ctx[u]
    BY <1>0, <1>6 DEF LoginAccepted, PutCredential, At
  <2>2. \A o \in opened : o.cred \in creds' => o.cred \in creds
    <3>1. creds' = creds \cup {minted["cred"] + 1} /\ minted["cred"] \in Nat
      BY <1>0, <1>6 DEF LoginAccepted, PutCredential, NewId, StoreTypeOK, Kind
    <3> QED BY <1>0, <3>1 DEF Inductive, Fresh, HistoryTypeOK, Opening
  <2> QED BY <2>1, <2>2 DEF RevocationErases, HasGrant
<1>7. ASSUME NEW t \in Task, MintCode(t) PROVE RevocationErases'
  <2>1. /\ pc[t] = "put_code" /\ UNCHANGED <<opened, grants, creds>>
        /\ \A u \in Task \ {t} : pc'[u] = pc[u] /\ ctx'[u] = ctx[u]
    BY <1>0, <1>7 DEF MintCode, PutCode, At
  <2> QED BY <2>1, ErasureKept DEF Erasing
<1>8. ASSUME NEW t \in Task, CloseTxn(t) PROVE RevocationErases'
  <2>1. /\ pc[t] = "close_txn" /\ UNCHANGED <<opened, grants, creds>>
        /\ \A u \in Task \ {t} : pc'[u] = pc[u] /\ ctx'[u] = ctx[u]
    BY <1>0, <1>8 DEF CloseTxn, DeleteTxn, At
  <2> QED BY <2>1, ErasureKept DEF Erasing
<1>9. ASSUME NEW t \in Handler, NEW c \in Client, RedeemCode(t, c)
      PROVE  RevocationErases'
  <2>1. /\ pc[t] = "idle" /\ UNCHANGED <<opened, grants, creds>>
        /\ \A u \in Task \ {t} : pc'[u] = pc[u] /\ ctx'[u] = ctx[u]
    BY <1>0, <1>9 DEF RedeemCode, ConsumeCode, At
  <2> QED BY <2>1, ErasureKept DEF Erasing, Task
<1>10. ASSUME NEW t \in Task, OpenGrant(t) PROVE RevocationErases'
  <2>1. /\ pc[t] = "create_grant" /\ UNCHANGED creds
        /\ \A u \in Task \ {t} : pc'[u] = pc[u] /\ ctx'[u] = ctx[u]
    BY <1>0, <1>10 DEF OpenGrant, CreateGrant, At
  <2>2. /\ \A g \in grants : g \in grants'
        /\ \A o \in opened' : o \in opened \/ \E g \in grants' : g.id = o.grant
    <3> DEFINE g == [id |-> NewId("grant"), client |-> ctx[t].client,
                     cred |-> ctx[t].cred]
               o == [code |-> ctx[t].code, client |-> ctx[t].client,
                     cred |-> ctx[t].cred, grant |-> NewId("grant")]
    <3>1. grants' = grants \cup {g} /\ opened' = opened \cup {o}
      BY <1>10 DEF OpenGrant, CreateGrant
    <3>2. g.id = o.grant
      OBVIOUS
    <3> QED BY <3>1, <3>2
  <2> QED BY <2>1, <2>2 DEF RevocationErases, HasGrant
<1>11. ASSUME NEW t \in Handler, NEW c \in Client, RotateToken(t, c)
       PROVE  RevocationErases'
  <2>1. /\ pc[t] = "idle" /\ UNCHANGED <<opened, grants, creds>>
        /\ \A u \in Task \ {t} : pc'[u] = pc[u] /\ ctx'[u] = ctx[u]
    BY <1>0, <1>11 DEF RotateToken, RotateRefreshToken, At
  <2> QED BY <2>1, ErasureKept DEF Erasing, Task
<1>12. ASSUME NEW t \in Task, IssueAccess(t) PROVE RevocationErases'
  <2>1. /\ pc[t] = "put_access" /\ UNCHANGED <<opened, grants, creds>>
        /\ \A u \in Task \ {t} : pc'[u] = pc[u] /\ ctx'[u] = ctx[u]
    BY <1>0, <1>12 DEF IssueAccess, PutAccessToken, At
  <2> QED BY <2>1, ErasureKept DEF Erasing
<1>13. ASSUME NEW t \in Task, IssueRefresh(t) PROVE RevocationErases'
  <2>1. /\ pc[t] = "put_refresh" /\ UNCHANGED <<opened, grants, creds>>
        /\ \A u \in Task \ {t} : pc'[u] = pc[u] /\ ctx'[u] = ctx[u]
    BY <1>0, <1>13 DEF IssueRefresh, PutRefreshToken, At
  <2> QED BY <2>1, ErasureKept DEF Erasing
<1>14. ASSUME NEW t \in Task, IssueRefused(t) PROVE RevocationErases'
  <2>1. /\ pc[t] \notin Erasing /\ UNCHANGED <<opened, grants, creds>>
        /\ \A u \in Task \ {t} : pc'[u] = pc[u] /\ ctx'[u] = ctx[u]
    BY <1>0, <1>14 DEF IssueRefused, Erasing
  <2> QED BY <2>1, ErasureKept
<1>15. ASSUME NEW t \in Handler, LookUpToken(t) PROVE RevocationErases'
  <2>1. /\ pc[t] = "idle" /\ UNCHANGED <<opened, grants, creds>>
        /\ \A u \in Task \ {t} : pc'[u] = pc[u] /\ ctx'[u] = ctx[u]
    BY <1>0, <1>15 DEF LookUpToken, At
  <2> QED BY <2>1, ErasureKept DEF Erasing, Task
<1>16. ASSUME NEW t \in Task, Authenticate(t) PROVE RevocationErases'
  <2>1. /\ pc[t] = "get_credential" /\ UNCHANGED <<opened, grants, creds>>
        /\ \A u \in Task \ {t} : pc'[u] = pc[u] /\ ctx'[u] = ctx[u]
    BY <1>0, <1>16 DEF Authenticate, At
  <2> QED BY <2>1, ErasureKept DEF Erasing
<1>17. ASSUME NEW t \in Task, FinishCall(t) PROVE RevocationErases'
  <2>1. /\ pc[t] = "serving" /\ UNCHANGED <<opened, grants, creds>>
        /\ \A u \in Task \ {t} : pc'[u] = pc[u] /\ ctx'[u] = ctx[u]
    BY <1>0, <1>17 DEF FinishCall, At
  <2> QED BY <2>1, ErasureKept DEF Erasing
<1>18. ASSUME NEW t \in Task, NEW g \in grants, ReadGrant(t, g)
       PROVE  RevocationErases'
  <2>1. /\ pc[t] = "idle" /\ UNCHANGED <<opened, grants, creds>>
        /\ \A u \in Task \ {t} : pc'[u] = pc[u] /\ ctx'[u] = ctx[u]
    BY <1>0, <1>18 DEF ReadGrant, At
  <2> QED BY <2>1, ErasureKept DEF Erasing
<1>19. ASSUME NEW t \in Task, DeleteGrantRow(t) PROVE RevocationErases'
  <2>1. /\ pc[t] = "delete_grant" /\ pc'[t] = "count_grants"
        /\ UNCHANGED <<opened, creds, ctx>>
        /\ grants' = {g \in grants : g.id # ctx[t].grant}
        /\ \A u \in Task \ {t} : pc'[u] = pc[u]
    BY <1>0, <1>19 DEF DeleteGrantRow, DeleteGrant, At
  <2>2. \A o \in opened : o.grant = ctx[t].grant => o.cred = ctx[t].cred
    BY <2>1 DEF Inductive, Openings, Revoking, Custody
  <2>3. \A o \in opened :
           HasGrant(o.grant) => HasGrant(o.grant)' \/ o.grant = ctx[t].grant
    BY <2>1 DEF HasGrant
  <2> QED BY <2>1, <2>2, <2>3 DEF RevocationErases
<1>20. ASSUME NEW t \in Task, CountGrants(t) PROVE RevocationErases'
  <2>1. /\ pc[t] = "count_grants" /\ UNCHANGED <<opened, grants, creds>>
        /\ \A u \in Task \ {t} : pc'[u] = pc[u] /\ ctx'[u] = ctx[u]
    BY <1>0, <1>20 DEF CountGrants, At
  <2>2. GrantsOf(ctx[t].cred) = {}
    <3>1. PICK o \in opened : o.grant = ctx[t].grant /\ o.cred = ctx[t].cred
      BY <2>1 DEF Inductive, Openings, Revoking
    <3>2. ~HasGrant(o.grant)
      BY <2>1, <3>1 DEF Inductive, Openings
    <3> QED BY <3>1, <3>2 DEF Inductive, Openings, Custody, GrantsOf, HasGrant
  <2>3. pc'[t] = "delete_credential" /\ ctx'[t] = ctx[t]
    BY <1>0, <1>20, <2>2 DEF CountGrants
  <2> QED BY <2>1, <2>3 DEF RevocationErases, HasGrant
<1>21. ASSUME NEW t \in Task, EraseCredential(t) PROVE RevocationErases'
  <2>1. /\ UNCHANGED opened
        /\ creds' = creds \ {ctx[t].cred}
        /\ grants' = {g \in grants : g.cred # ctx[t].cred}
        /\ \A u \in Task \ {t} : pc'[u] = pc[u] /\ ctx'[u] = ctx[u]
    BY <1>0, <1>21 DEF EraseCredential, DeleteCredential, GrantsOf
  <2>2. \A o \in opened : HasGrant(o.grant) =>
           HasGrant(o.grant)' \/ o.cred = ctx[t].cred
    BY <2>1 DEF HasGrant, Inductive, Openings, Custody
  <2> QED BY <2>1, <2>2 DEF RevocationErases
<1>22. ASSUME NEW t \in Task, Purge(t) PROVE RevocationErases'
  BY <1>22 DEF Purge, PurgeStatement, PurgeTxns, PurgeCodes,
     PurgeAccessTokens, PurgeRefreshTokens, RevocationErases, HasGrant
<1>23. CASE Tick
  BY <1>23 DEF Tick, TimePasses, TxnExpires, CodeExpires, AccessTokenExpires,
     RefreshTokenExpires, RevocationErases, HasGrant
<1>24. ASSUME NEW t \in Task, StatementFails(t) PROVE FALSE
  BY <1>0, <1>24 DEF StatementFails
<1>25. ASSUME NEW p \in Server, ServerRestarts(p) PROVE FALSE
  BY <1>0, <1>25 DEF ServerRestarts
<1>26. CASE UNCHANGED vars
  BY <1>26 DEF vars, RevocationErases, HasGrant
<1> QED
  BY <1>1, <1>2, <1>3, <1>4, <1>5, <1>6, <1>7, <1>8, <1>9, <1>10, <1>11,
     <1>12, <1>13, <1>14, <1>15, <1>16, <1>17, <1>18, <1>19, <1>20, <1>21,
     <1>22, <1>23, <1>24, <1>25, <1>26
     DEF Next, Request, Resume, RevokeByCommand, RevokeByToken, Task

(* When nothing fails between the statements of revoke_grant, the stored   *)
(* password goes with the grant: its credential is gone, or the task that  *)
(* deleted the grant is about to erase it.  The assumption is needed: with *)
(* one fault the property is violated.                                     *)
THEOREM RevocationsErase ==
  ASSUME MaxFaults = 0
  PROVE  Spec => []RevocationErases
<1>1. Init => RevocationErases
  BY DEF Init, RevocationErases
<1>2. Inductive /\ RevocationErases /\ [Next]_vars => RevocationErases'
  BY ErasureStep
<1> QED BY <1>1, <1>2, InductiveHolds, PTL DEF Spec

-----------------------------------------------------------------------------

(* The only grant row a step can add has a fresh id.                       *)
LEMMA GrantRows ==
  ASSUME TypeOK, [Next]_vars
  PROVE  \A g \in grants' : g \in grants \/ g.id = NewId("grant")
<1>1. ASSUME NEW t \in Task, Resume(t)
      PROVE  \A g \in grants' : g \in grants \/ g.id = NewId("grant")
  <2>1. CASE OpenGrant(t)
    <3>1. grants' = grants \cup {[id |-> NewId("grant"),
                                  client |-> ctx[t].client,
                                  cred |-> ctx[t].cred]}
      BY <2>1 DEF OpenGrant, CreateGrant
    <3> QED BY <3>1
  <2>2. CASE ~OpenGrant(t)
    BY <1>1, <2>2 DEF Resume, LoginRefused, CountAttempt, ReadAttempts,
       CancelTxn, DeleteTxn, LoginAccepted, PutCredential, MintCode, PutCode,
       CloseTxn, IssueAccess, PutAccessToken, IssueRefresh, PutRefreshToken,
       IssueRefused, Authenticate, FinishCall, DeleteGrantRow, DeleteGrant,
       CountGrants, EraseCredential, DeleteCredential, store
  <2> QED BY <2>1, <2>2
<1>2. ASSUME NEW t \in Task, Request(t) \/ RevokeByCommand(t)
      PROVE  grants' = grants
  BY <1>2 DEF Request, RevokeByCommand, RevokeByToken, Authorize, PutTxn,
     LoginSubmit, RedeemCode, ConsumeCode, RotateToken, RotateRefreshToken,
     LookUpToken, ReadGrant, store
<1>3. ASSUME NEW t \in Task, Purge(t) \/ StatementFails(t)
      PROVE  grants' = grants
  BY <1>3 DEF Purge, PurgeStatement, PurgeTxns, PurgeCodes, PurgeAccessTokens,
     PurgeRefreshTokens, Tick, TimePasses, TxnExpires, CodeExpires,
     AccessTokenExpires, RefreshTokenExpires, StatementFails, store
<1>4. ASSUME NEW p \in Server, ServerRestarts(p) PROVE grants' = grants
  BY <1>4 DEF ServerRestarts, store
<1>5. CASE Tick
  BY <1>5 DEF Tick, TimePasses, TxnExpires, CodeExpires,
     AccessTokenExpires, RefreshTokenExpires
<1>6. CASE UNCHANGED vars
  BY <1>6 DEF vars, store
<1> QED BY <1>1, <1>2, <1>3, <1>4, <1>5, <1>6 DEF Next, Task

(* After a step every token row refers to a grant that existed before it.  *)
LEMMA TokenRows ==
  ASSUME TypeOK, References, [Next]_vars
  PROVE  \A a \in (access \cup refresh)' : HasGrant(a.grant)
<1>0. \A a \in access \cup refresh : HasGrant(a.grant)
  BY DEF References
<1>1. ASSUME NEW t \in Task, Resume(t)
      PROVE  \A a \in (access \cup refresh)' : HasGrant(a.grant)
  <2>1. CASE IssueAccess(t)
    <3> DEFINE row == [id |-> NewId("access"), grant |-> ctx[t].grant,
                       expired |-> FALSE]
    <3>1. /\ access' = access \cup {row} /\ refresh' = refresh
          /\ HasGrant(ctx[t].grant)
      BY <2>1 DEF IssueAccess, PutAccessToken
    <3>2. row.grant = ctx[t].grant
      OBVIOUS
    <3> QED BY <1>0, <3>1, <3>2
  <2>2. CASE IssueRefresh(t)
    <3> DEFINE row == [id |-> NewId("refresh"), grant |-> ctx[t].grant,
                       expired |-> FALSE]
    <3>1. /\ refresh' = refresh \cup {row} /\ access' = access
          /\ HasGrant(ctx[t].grant)
      BY <2>2 DEF IssueRefresh, PutRefreshToken
    <3>2. row.grant = ctx[t].grant
      OBVIOUS
    <3> QED BY <1>0, <3>1, <3>2
  <2>3. CASE ~IssueAccess(t) /\ ~IssueRefresh(t)
    <3>1. access' \subseteq access /\ refresh' \subseteq refresh
      BY <1>1, <2>3 DEF Resume, LoginRefused, CountAttempt, ReadAttempts,
         CancelTxn, DeleteTxn, LoginAccepted, PutCredential, MintCode, PutCode,
         CloseTxn, OpenGrant, CreateGrant, IssueRefused, Authenticate,
         FinishCall, DeleteGrantRow, DeleteGrant, CountGrants,
         EraseCredential, DeleteCredential, store
    <3> QED BY <1>0, <3>1
  <2> QED BY <2>1, <2>2, <2>3
<1>2. ASSUME NEW t \in Task, Request(t) \/ RevokeByCommand(t)
      PROVE  access' \subseteq access /\ refresh' \subseteq refresh
  BY <1>2 DEF Request, RevokeByCommand, RevokeByToken, Authorize, PutTxn,
     LoginSubmit, RedeemCode, ConsumeCode, RotateToken, RotateRefreshToken,
     LookUpToken, ReadGrant, store
<1>3. ASSUME NEW t \in Task, Purge(t) \/ StatementFails(t)
      PROVE  access' \subseteq access /\ refresh' \subseteq refresh
  BY <1>3 DEF Purge, PurgeStatement, PurgeTxns, PurgeCodes, PurgeAccessTokens,
     PurgeRefreshTokens, Unexpired, StatementFails, store
<1>4. ASSUME NEW p \in Server, ServerRestarts(p)
      PROVE  access' = access /\ refresh' = refresh
  BY <1>4 DEF ServerRestarts, store
<1>5. ASSUME Tick
      PROVE  \A a \in (access \cup refresh)' : HasGrant(a.grant)
  <2>1. CASE AccessTokenExpires
    <3>1. PICK row \in access : access' = Aged(access, row)
      BY <2>1 DEF AccessTokenExpires, Unexpired
    <3>2. [row EXCEPT !.expired = TRUE].grant = row.grant
      BY DEF TypeOK, StoreTypeOK, TokenRow
    <3> QED BY <1>0, <2>1, <3>1, <3>2 DEF AccessTokenExpires, Aged
  <2>2. CASE RefreshTokenExpires
    <3>1. PICK row \in refresh : refresh' = Aged(refresh, row)
      BY <2>2 DEF RefreshTokenExpires, Unexpired
    <3>2. [row EXCEPT !.expired = TRUE].grant = row.grant
      BY DEF TypeOK, StoreTypeOK, TokenRow
    <3> QED BY <1>0, <2>2, <3>1, <3>2 DEF RefreshTokenExpires, Aged
  <2>3. CASE TxnExpires \/ CodeExpires
    BY <1>0, <2>3 DEF TxnExpires, CodeExpires
  <2> QED BY <1>5, <2>1, <2>2, <2>3 DEF Tick, TimePasses
<1>6. CASE UNCHANGED vars
  BY <1>0, <1>6 DEF vars, store
<1> QED BY <1>0, <1>1, <1>2, <1>3, <1>4, <1>5, <1>6 DEF Next, Task

(* A request is let in by load_access_token only for a grant that exists.  *)
LEMMA Lookups ==
  ASSUME TypeOK, [Next]_vars, NEW t \in Task,
         pc'[t] = "get_credential", pc[t] # "get_credential"
  PROVE  HasGrant(ctx'[t].grant)
<1> USE DEF TypeOK, TaskTypeOK
<1>1. ASSUME NEW u \in Task, Resume(u) PROVE FALSE
  BY <1>1 DEF Resume, LoginRefused, ReadAttempts, CancelTxn, LoginAccepted,
     MintCode, CloseTxn, OpenGrant, IssueAccess, IssueRefresh, IssueRefused,
     Authenticate, FinishCall, DeleteGrantRow, CountGrants, EraseCredential,
     Goto, Finish
<1>2. ASSUME NEW u \in Task, LookUpToken(u) PROVE HasGrant(ctx'[t].grant)
  <2>1. PICK g \in grants : /\ Goto(u, "get_credential")
                           /\ Keep(u, [Blank EXCEPT !.client = g.client,
                                                    !.cred = g.cred,
                                                    !.grant = g.id])
    BY <1>2 DEF LookUpToken
  <2>2. t = u
    BY <2>1 DEF Goto
  <2>3. ctx'[t].grant = g.id
    BY <2>1, <2>2 DEF Keep, Blank
  <2> QED BY <2>3 DEF HasGrant
<1>3. ASSUME NEW u \in Task, ~LookUpToken(u), Request(u) \/ RevokeByCommand(u)
      PROVE  FALSE
  BY <1>3 DEF Request, RevokeByCommand, RevokeByToken, Authorize, LoginSubmit,
     RedeemCode, RotateToken, ReadGrant, Goto, tasks
<1>4. ASSUME NEW u \in Task, Purge(u) \/ Tick \/ StatementFails(u) PROVE FALSE
  BY <1>4 DEF Purge, Tick, StatementFails, Finish, Goto, tasks
<1>5. ASSUME NEW p \in Server, ServerRestarts(p) PROVE FALSE
  BY <1>5 DEF ServerRestarts
<1>6. CASE UNCHANGED vars
  BY <1>6 DEF vars, tasks
<1> QED BY <1>1, <1>2, <1>3, <1>4, <1>5, <1>6 DEF Next, Task

(* Once revoke_grant deleted a grant, no token for it is stored, no        *)
(* request is let in for it and its id never comes back.                   *)
THEOREM GrantsStayGone == Spec => GoneIsGone
<1>1. Inductive /\ [Next]_vars => [\A o \in opened : StaysGone(o.grant)]_vars
  <2> SUFFICES ASSUME Inductive, [Next]_vars, NEW o \in opened,
                      ~HasGrant(o.grant)
               PROVE  StaysGone(o.grant)
    BY DEF StaysGone
  <2>1. o.grant < NewId("grant")
    BY DEF Inductive, Fresh, TypeOK, StoreTypeOK, HistoryTypeOK, Opening, Kind,
       NewId
  <2>2. ~HasGrant(o.grant)'
    BY <2>1, GrantRows DEF HasGrant, Inductive, TypeOK, HistoryTypeOK, Opening
  <2>3. \A a \in (access \cup refresh)' : a.grant # o.grant
    BY TokenRows DEF Inductive
  <2>4. \A t \in Task : pc'[t] = "get_credential" =>
           pc[t] = "get_credential" \/ ctx'[t].grant # o.grant
    BY Lookups DEF Inductive
  <2> QED BY <2>2, <2>3, <2>4 DEF StaysGone
<1> QED BY <1>1, InductiveHolds, PTL DEF Spec, GoneIsGone

-----------------------------------------------------------------------------
(* The authorization server implements Delegation: one step for each kind  *)
(* of action that delegates, withdraws, erases or serves, and one lemma    *)
(* for all the others.                                                     *)

(* The abstract state of an idle server over an empty database is empty.   *)
LEMMA InitImplements == Init => Abstract!Init
BY DEF Init, StoreInit, Abstract!Init, StoredFor, DelegatedTo, InUse, Using

(* A step that touches no credential and no grant, and lets no request in, *)
(* is a step of requests that end.                                         *)
LEMMA QuietStep ==
  ASSUME UNCHANGED <<creds, signins, grants, opened>>,
         \A t \in Task : Using(t)' => Using(t) /\ ctx'[t] = ctx[t]
  PROVE  Abstract!Next
<1>1. StoredFor' = StoredFor /\ DelegatedTo' = DelegatedTo
  BY DEF StoredFor, DelegatedTo
<1>2. InUse' \subseteq InUse
  BY DEF InUse
<1>3. {o.cred : o \in opened}' = {o.cred : o \in opened}
  OBVIOUS
<1> QED BY <1>1, <1>2, <1>3 DEF Abstract!Next, Abstract!End

(* The same for a step of one task that starts no lookup.                  *)
LEMMA QuietTask ==
  ASSUME NEW t \in Task, UNCHANGED <<creds, signins, grants, opened>>,
         Using(t)' => Using(t) /\ ctx'[t] = ctx[t],
         \A u \in Task \ {t} : pc'[u] = pc[u] /\ ctx'[u] = ctx[u]
  PROVE  Abstract!Next
<1>1. \A u \in Task : Using(u)' => Using(u) /\ ctx'[u] = ctx[u]
  BY DEF Using
<1> QED BY <1>1, QuietStep

(* Requests are the same after a step that moves no task in or out of them. *)
LEMMA SameUse ==
  ASSUME \A u \in Task : Using(u)' <=> Using(u),
         \A u \in Task : Using(u) => ctx'[u] = ctx[u]
  PROVE  InUse' = InUse
BY DEF InUse

(* complete_login's put_credential is a sign-in.                           *)
LEMMA SignsIn ==
  ASSUME Inductive, NEW t \in Task, LoginAccepted(t)
  PROVE  Abstract!Next
<1> DEFINE k == NewId("cred")
           c == ctx[t].client
<1>0. /\ k \in Nat /\ k > minted["cred"] /\ minted["cred"] \in Nat
      /\ creds' = creds \cup {k}
      /\ UNCHANGED <<grants, opened>>
      /\ signins' = signins \cup {[txn |-> ctx[t].txn, client |-> c,
                                  cred |-> k]}
      /\ pc[t] = "validating" /\ pc'[t] = "put_code"
      /\ \A u \in Task \ {t} : pc'[u] = pc[u] /\ ctx'[u] = ctx[u]
  BY DEF LoginAccepted, At, PutCredential, NewId, Goto, Keep, Inductive,
         TypeOK, StoreTypeOK, TaskTypeOK, Kind
<1>1. c \in Client
  BY <1>0 DEF Inductive, TypeOK, TaskTypeOK, Named
<1>2. k \notin creds /\ \A o \in opened : o.cred # k
  BY <1>0 DEF Inductive, Fresh, TypeOK, StoreTypeOK, HistoryTypeOK, Opening
<1>3. \A p \in StoredFor : p[1] # k
  BY <1>2 DEF StoredFor
<1>4. StoredFor' = StoredFor \cup {<<k, c>>}
  <2>1. \A s \in signins : s.cred # k
    BY <1>0 DEF Inductive, Fresh, TypeOK, HistoryTypeOK, SignIn
  <2>2. \A s \in signins' : s \in signins \/ (s.cred = k /\ s.client = c)
    BY <1>0
  <2>3. \E s \in signins' : s.cred = k /\ s.client = c
    <3> DEFINE s == [txn |-> ctx[t].txn, client |-> c, cred |-> k]
    <3>1. s \in signins' /\ s.cred = k /\ s.client = c
      BY <1>0
    <3> QED BY <3>1
  <2>4. StoredFor' \subseteq StoredFor \cup {<<k, c>>}
    BY <1>0, <2>1, <2>2 DEF StoredFor
  <2>5. StoredFor \subseteq StoredFor'
    BY <1>0, <2>1 DEF StoredFor
  <2>6. <<k, c>> \in StoredFor'
    BY <1>0, <2>3 DEF StoredFor
  <2> QED BY <2>4, <2>5, <2>6
<1>5. InUse' = InUse
  BY <1>0, SameUse DEF Using
<1>6. DelegatedTo' = DelegatedTo
  BY <1>0 DEF DelegatedTo
<1>7. {o.cred : o \in opened}' = {o.cred : o \in opened}
  BY <1>0
<1>8. k \notin {o.cred : o \in opened}
  BY <1>2
<1>9. Abstract!SignIn(k, c)
  BY <1>1, <1>3, <1>4, <1>5, <1>6, <1>7, <1>8 DEF Abstract!SignIn
<1>10. <<k, c>> \in StoredFor' /\ <<k, c>>[1] = k /\ <<k, c>>[2] = c
  BY <1>4
<1> QED BY <1>9, <1>10 DEF Abstract!Next

(* create_grant is a delegation of a credential never delegated before.    *)
LEMMA OpensGrant ==
  ASSUME Inductive, NEW t \in Task, OpenGrant(t)
  PROVE  Abstract!Next
<1> DEFINE k == ctx[t].cred
           c == ctx[t].client
           g == [id |-> NewId("grant"), client |-> c, cred |-> k]
           o == [code |-> ctx[t].code, client |-> c, cred |-> k,
                 grant |-> NewId("grant")]
<1>0. /\ k \in creds
      /\ grants' = grants \cup {g}
      /\ opened' = opened \cup {o}
      /\ UNCHANGED <<creds, signins>>
      /\ pc[t] = "create_grant" /\ pc'[t] = "put_access"
      /\ \A u \in Task \ {t} : pc'[u] = pc[u] /\ ctx'[u] = ctx[u]
  BY DEF OpenGrant, At, CreateGrant, Goto, Keep, Inductive, TypeOK, TaskTypeOK
<1>1. g.cred = k /\ g.client = c /\ o.cred = k
  OBVIOUS
<1>2. <<k, c>> \in StoredFor
  <2>1. SignedIn(k, c)
    BY <1>0 DEF Inductive, Provenance, Holding
  <2>2. PICK s \in signins : s.cred = k /\ s.client = c
    BY <2>1 DEF SignedIn
  <2>3. <<s.cred, s.client>> \in StoredFor
    BY <1>0, <2>2 DEF StoredFor
  <2> QED BY <2>2, <2>3
<1>3. k \notin {p.cred : p \in opened}
  BY <1>0 DEF Inductive, Custody, Holding
<1>4. DelegatedTo' = DelegatedTo \cup {<<k, c>>}
  BY <1>0, <1>1 DEF DelegatedTo
<1>5. {p.cred : p \in opened}' = {p.cred : p \in opened} \cup {k}
  BY <1>0, <1>1
<1>6. InUse' = InUse
  BY <1>0, SameUse DEF Using
<1>7. StoredFor' = StoredFor
  BY <1>0 DEF StoredFor
<1>8. PICK p \in StoredFor : p = <<k, c>>
  BY <1>2
<1>9. p[1] = k /\ p[2] = c
  BY <1>8
<1>10. Abstract!Delegate(p[1], p[2])
  <2> HIDE DEF k, c
  <2> QED BY <1>3, <1>4, <1>5, <1>6, <1>7, <1>9 DEF Abstract!Delegate
<1> QED BY <1>10 DEF Abstract!Next

(* DELETE FROM grants withdraws the delegation, or finds it withdrawn.     *)
LEMMA DeletesGrant ==
  ASSUME Inductive, NEW t \in Task, DeleteGrantRow(t)
  PROVE  Abstract!Next
<1>0. /\ UNCHANGED <<creds, signins, opened, ctx>>
      /\ grants' = {g \in grants : g.id # ctx[t].grant}
      /\ pc[t] = "delete_grant" /\ pc'[t] = "count_grants"
      /\ \A u \in Task \ {t} : pc'[u] = pc[u]
  BY DEF DeleteGrantRow, At, DeleteGrant, Goto, history, Inductive, TypeOK,
         TaskTypeOK
<1>1. InUse' = InUse
  BY <1>0, SameUse DEF Using
<1>2. StoredFor' = StoredFor
  BY <1>0 DEF StoredFor
<1>3. {o.cred : o \in opened}' = {o.cred : o \in opened}
  BY <1>0
<1>4. ASSUME NEW g \in grants, g.id = ctx[t].grant PROVE Abstract!Next
  <2>1. grants' = grants \ {g}
    BY <1>0, <1>4 DEF Inductive, Keys
  <2>2. \A h \in grants : h.cred = g.cred => h = g
    <3>1. \A h \in grants : \E o \in opened : o.grant = h.id /\ o.cred = h.cred
      BY DEF Inductive, Openings
    <3>2. \A h \in grants : h.cred = g.cred => h.id = g.id
      BY <3>1 DEF Inductive, Custody
    <3> QED BY <3>2 DEF Inductive, Keys
  <2>3. DelegatedTo' = DelegatedTo \ {<<g.cred, g.client>>}
    BY <2>1, <2>2 DEF DelegatedTo
  <2>4. Abstract!Withdraw(g.cred, g.client)
    BY <1>1, <1>2, <1>3, <2>3 DEF Abstract!Withdraw
  <2>5. <<g.cred, g.client>> \in DelegatedTo
    BY DEF DelegatedTo
  <2>6. /\ <<g.cred, g.client>>[1] = g.cred
        /\ <<g.cred, g.client>>[2] = g.client
    OBVIOUS
  <2> QED BY <2>4, <2>5, <2>6 DEF Abstract!Next
<1>5. CASE \A g \in grants : g.id # ctx[t].grant
  <2>1. grants' = grants
    BY <1>0, <1>5
  <2> QED BY <1>0, <2>1, QuietTask DEF Using
<1> QED BY <1>4, <1>5

(* DELETE FROM odoo_credentials erases a credential whose delegation was    *)
(* withdrawn.                                                              *)
LEMMA ErasesCredential ==
  ASSUME Inductive, NEW t \in Task, EraseCredential(t)
  PROVE  Abstract!Next
<1> DEFINE k == ctx[t].cred
<1>0. /\ UNCHANGED <<signins, opened>>
      /\ creds' = creds \ {k}
      /\ grants' = {g \in grants : g.cred # k}
      /\ pc[t] = "delete_credential" /\ pc'[t] = "idle"
      /\ \A u \in Task \ {t} : pc'[u] = pc[u] /\ ctx'[u] = ctx[u]
  BY DEF EraseCredential, At, DeleteCredential, GrantsOf, Finish, Goto, Keep,
         history, Inductive, TypeOK, TaskTypeOK
<1>1. PICK o \in opened : o.grant = ctx[t].grant /\ o.cred = k
  BY <1>0 DEF Inductive, Openings, Revoking
<1>2. \A g \in grants : g.cred # k
  <2>1. ~HasGrant(o.grant)
    BY <1>0, <1>1 DEF Inductive, Openings
  <2> QED BY <1>1, <2>1 DEF Inductive, Openings, Custody, HasGrant
<1>3. grants' = grants
  BY <1>0, <1>2
<1>4. DelegatedTo' = DelegatedTo /\ \A p \in DelegatedTo : p[1] # k
  BY <1>2, <1>3 DEF DelegatedTo
<1>5. StoredFor' = {p \in StoredFor : p[1] # k}
  BY <1>0 DEF StoredFor
<1>6. InUse' = InUse
  BY <1>0, SameUse DEF Using
<1>7. {p.cred : p \in opened}' = {p.cred : p \in opened}
  BY <1>0
<1>8. Abstract!Erase(k)
  BY <1>4, <1>5, <1>6, <1>7 DEF Abstract!Erase
<1> QED BY <1>1, <1>8 DEF Abstract!Next

(* get_access_token begins a request under a standing delegation.          *)
LEMMA BeginsRequest ==
  ASSUME Inductive, NEW t \in Task, LookUpToken(t)
  PROVE  Abstract!Next
<1>0. PICK g \in grants :
      /\ UNCHANGED <<creds, signins, grants, opened>>
      /\ pc[t] = "idle" /\ pc'[t] = "get_credential"
      /\ ctx'[t].cred = g.cred /\ ctx'[t].client = g.client
      /\ \A u \in Task \ {t} : pc'[u] = pc[u] /\ ctx'[u] = ctx[u]
  BY DEF LookUpToken, At, store, history, Goto, Keep, Blank, Inductive, TypeOK,
         TaskTypeOK
<1> DEFINE p == <<g.cred, g.client>>
<1>1. p \in DelegatedTo
  BY DEF DelegatedTo
<1>2. \A r \in InUse : r[1] # t
  BY <1>0 DEF InUse, Using
<1>3. InUse' = InUse \cup {<<t, p>>}
  BY <1>0 DEF InUse, Using
<1>4. StoredFor' = StoredFor /\ DelegatedTo' = DelegatedTo
  BY <1>0 DEF StoredFor, DelegatedTo
<1>5. {o.cred : o \in opened}' = {o.cred : o \in opened}
  BY <1>0
<1>6. Abstract!Begin(t, p)
  BY <1>2, <1>3, <1>4, <1>5 DEF Abstract!Begin
<1> QED BY <1>1, <1>6 DEF Abstract!Next

(* Every step of the server is a step of Delegation.                       *)
LEMMA StepImplements ==
  Inductive /\ [Next]_vars => [Abstract!Next]_(Abstract!vars)
<1> SUFFICES ASSUME Inductive, [Next]_vars PROVE Abstract!Next
  BY DEF Abstract!vars
<1> USE DEF Goto, Keep, Finish, Inductive, TypeOK, TaskTypeOK
<1>1. ASSUME NEW t \in Task, NEW c \in Client, Authorize(t, c)
      PROVE  Abstract!Next
  BY <1>1, QuietStep DEF Authorize, PutTxn, tasks, history, Using
<1>2. ASSUME NEW t \in Task, LoginSubmit(t) PROVE Abstract!Next
  <2>1. UNCHANGED <<creds, signins, grants, opened>> /\ pc'[t] = "validating"
        /\ \A u \in Task \ {t} : pc'[u] = pc[u] /\ ctx'[u] = ctx[u]
    BY <1>2 DEF LoginSubmit, store
  <2> QED BY <2>1, QuietTask DEF Using
<1>3. ASSUME NEW t \in Task, NEW c \in Client,
             RedeemCode(t, c) \/ RotateToken(t, c)
      PROVE  Abstract!Next
  <2>1. /\ UNCHANGED <<creds, signins, grants, opened>>
        /\ pc'[t] \in {"create_grant", "put_access"}
        /\ \A u \in Task \ {t} : pc'[u] = pc[u] /\ ctx'[u] = ctx[u]
    BY <1>3 DEF RedeemCode, ConsumeCode, RotateToken, RotateRefreshToken,
       history
  <2> QED BY <2>1, QuietTask DEF Using
<1>4. ASSUME NEW t \in Task, LookUpToken(t) PROVE Abstract!Next
  BY <1>4, BeginsRequest
<1>5. ASSUME NEW t \in Task, NEW g \in grants, ReadGrant(t, g)
      PROVE  Abstract!Next
  <2>1. /\ UNCHANGED <<creds, signins, grants, opened>>
        /\ pc'[t] = "delete_grant"
        /\ \A u \in Task \ {t} : pc'[u] = pc[u] /\ ctx'[u] = ctx[u]
    BY <1>5 DEF ReadGrant, store, history
  <2> QED BY <2>1, QuietTask DEF Using
<1>6. ASSUME NEW t \in Task, LoginRefused(t) \/ ReadAttempts(t)
      PROVE  Abstract!Next
  <2>1. /\ UNCHANGED <<creds, signins, grants, opened>>
        /\ pc'[t] \in {"read_attempts", "cancel_txn", "idle"}
        /\ \A u \in Task \ {t} : pc'[u] = pc[u] /\ ctx'[u] = ctx[u]
    BY <1>6 DEF LoginRefused, CountAttempt, ReadAttempts, store, history
  <2> QED BY <2>1, QuietTask DEF Using
<1>7. ASSUME NEW t \in Task, CancelTxn(t) \/ CloseTxn(t) PROVE Abstract!Next
  <2>1. /\ UNCHANGED <<creds, signins, grants, opened>>
        /\ pc'[t] = "idle"
        /\ \A u \in Task \ {t} : pc'[u] = pc[u] /\ ctx'[u] = ctx[u]
    BY <1>7 DEF CancelTxn, CloseTxn, DeleteTxn, history
  <2> QED BY <2>1, QuietTask DEF Using
<1>8. ASSUME NEW t \in Task, LoginAccepted(t) PROVE Abstract!Next
  BY <1>8, SignsIn
<1>9. ASSUME NEW t \in Task, OpenGrant(t) PROVE Abstract!Next
  BY <1>9, OpensGrant
<1>10. ASSUME NEW t \in Task,
              \/ MintCode(t) \/ IssueAccess(t)
              \/ IssueRefresh(t) \/ IssueRefused(t)
       PROVE  Abstract!Next
  <2>1. /\ UNCHANGED <<creds, signins, grants, opened>>
        /\ pc'[t] \in {"close_txn", "put_refresh", "idle"}
        /\ \A u \in Task \ {t} : pc'[u] = pc[u] /\ ctx'[u] = ctx[u]
    BY <1>10 DEF MintCode, PutCode, IssueAccess, PutAccessToken, IssueRefresh,
       PutRefreshToken, IssueRefused, store, history
  <2> QED BY <2>1, QuietTask DEF Using
<1>11. ASSUME NEW t \in Task, Authenticate(t) \/ FinishCall(t)
       PROVE  Abstract!Next
  <2>1. /\ UNCHANGED <<creds, signins, grants, opened>>
        /\ Using(t)
        /\ pc'[t] = "idle" \/ (pc'[t] = "serving" /\ ctx'[t] = ctx[t])
        /\ \A u \in Task \ {t} : pc'[u] = pc[u] /\ ctx'[u] = ctx[u]
    BY <1>11 DEF Authenticate, FinishCall, At, store, history, Using
  <2> QED BY <2>1, QuietTask DEF Using
<1>12. ASSUME NEW t \in Task, DeleteGrantRow(t) PROVE Abstract!Next
  BY <1>12, DeletesGrant
<1>13. ASSUME NEW t \in Task, CountGrants(t) PROVE Abstract!Next
  <2>1. /\ UNCHANGED <<creds, signins, grants, opened>>
        /\ pc'[t] \in {"delete_credential", "idle"}
        /\ \A u \in Task \ {t} : pc'[u] = pc[u] /\ ctx'[u] = ctx[u]
    BY <1>13 DEF CountGrants, store, history
  <2> QED BY <2>1, QuietTask DEF Using
<1>14. ASSUME NEW t \in Task, EraseCredential(t) PROVE Abstract!Next
  BY <1>14, ErasesCredential
<1>15. ASSUME NEW t \in Task, Purge(t) PROVE Abstract!Next
  BY <1>15, QuietStep DEF Purge, PurgeStatement, PurgeTxns, PurgeCodes,
     PurgeAccessTokens, PurgeRefreshTokens, tasks, history, Using
<1>16. CASE Tick
  BY <1>16, QuietStep DEF Tick, TimePasses, TxnExpires, CodeExpires,
     AccessTokenExpires, RefreshTokenExpires, tasks, history, Using
<1>17. ASSUME NEW t \in Task, StatementFails(t) PROVE Abstract!Next
  <2>1. /\ UNCHANGED <<creds, signins, grants, opened>>
        /\ pc'[t] = "idle"
        /\ \A u \in Task \ {t} : pc'[u] = pc[u] /\ ctx'[u] = ctx[u]
    BY <1>17 DEF StatementFails, store, history
  <2> QED BY <2>1, QuietTask DEF Using
<1>18. ASSUME NEW p \in Server, ServerRestarts(p) PROVE Abstract!Next
  <2>1. UNCHANGED <<creds, signins, grants, opened>>
    BY <1>18 DEF ServerRestarts, store, history
  <2>2. \A u \in Task : Using(u)' => Using(u) /\ ctx'[u] = ctx[u]
    BY <1>18 DEF ServerRestarts, Using
  <2> QED BY <2>1, <2>2, QuietStep
<1>19. CASE UNCHANGED vars
  BY <1>19, QuietStep DEF vars, store, tasks, history, Using
<1> QED
  BY <1>1, <1>2, <1>3, <1>4, <1>5, <1>6, <1>7, <1>8, <1>9, <1>10, <1>11,
     <1>12, <1>13, <1>14, <1>15, <1>16, <1>17, <1>18, <1>19
     DEF Next, Request, Resume, RevokeByCommand, RevokeByToken, Task

(* The authorization server implements Delegation for any number of        *)
(* clients, handlers, commands and processes, and under any faults.        *)
THEOREM ServerDelegates == Spec => Delegates
BY InitImplements, StepImplements, InductiveHolds, PTL
   DEF Spec, Delegates, Abstract!Spec

-----------------------------------------------------------------------------
(* Logins are bounded.                                                     *)

(* Sets of handlers, and what faults can lose of them, can be counted.     *)
LEMMA HandlerFacts ==
  ASSUME IsFiniteSet(Handler)
  PROVE  /\ Cardinality(Handler) \in Nat
         /\ \A f \in Nat : /\ Cardinality(Handler) * f \in Nat
                           /\ Cardinality(Handler) * (f + 1)
                                = Cardinality(Handler) * f + Cardinality(Handler)
         /\ \A S \in SUBSET Handler :
              /\ IsFiniteSet(S) /\ Cardinality(S) \in Nat
              /\ \A R \in SUBSET S : Cardinality(R) <= Cardinality(S)
              /\ \A t \in S : Cardinality(S \ {t}) = Cardinality(S) - 1
              /\ \A t \in Handler \ S : Cardinality(S \cup {t}) = Cardinality(S) + 1
<1>1. Cardinality(Handler) \in Nat
  BY FS_CardinalityType
<1>2. \A n \in Nat, f \in Nat : n * f \in Nat /\ n * (f + 1) = n * f + n
  OBVIOUS
<1>3. \A S \in SUBSET Handler : IsFiniteSet(S)
  BY FS_Subset
<1> QED
  BY <1>1, <1>2, <1>3, FS_CardinalityType, FS_Subset, FS_AddElement,
     FS_RemoveElement

(* Who tries is a handler, and has not counted yet.                        *)
LEMMA LoginSets ==
  \A x : Trying(x) \in SUBSET Handler /\ Counting(x) \in SUBSET Handler
BY DEF Trying, Counting

LEMMA LoginsStart == Init /\ IsFiniteSet(Handler) => LoginsKnown
<1> SUFFICES ASSUME Init, IsFiniteSet(Handler) PROVE LoginsKnown
  OBVIOUS
<1>1. /\ \A x \in 1..MaxTxn : dialled[x] = 0
      /\ minted["txn"] = 0 /\ txns = {} /\ \A t \in Task : pc[t] = "idle"
  BY DEF Init, StoreInit, Kind
<1>2. faults = 0 /\ Cardinality(Handler) * (faults + 1) \in Nat
  BY HandlerFacts DEF Init
<1>3. LoginsBounded
  BY <1>1, <1>2, AttemptLimitAssumption DEF LoginsBounded
<1> QED BY <1>1, <1>3, BoundAssumption DEF LoginsKnown, LoginLabels

(* No login begins, is counted or is lost: the rows that are left are as    *)
(* they were, and the handlers that try or count for them still do.        *)
LEMMA LoginsKept ==
  ASSUME IsFiniteSet(Handler), TypeOK, LoginsKnown,
         UNCHANGED <<dialled, faults>>, minted'["txn"] = minted["txn"],
         \A t \in Task : pc'[t] \in LoginLabels => t \in Handler,
         \A row \in txns' :
            /\ \E old \in txns : old.id = row.id /\ old.attempts = row.attempts
            /\ Trying(row.id) \subseteq Trying(row.id)'
            /\ Counting(row.id) \subseteq (Trying(row.id) \cup Counting(row.id))',
         txns' \subseteq TxnRow
  PROVE  LoginsKnown'
<1>1. LoginsBounded' /\ Lost' = Lost
  BY DEF LoginsKnown, LoginsBounded, Lost
<1>2. ASSUME NEW row \in txns'
      PROVE  /\ row.id \in 1..minted["txn"]
             /\ dialled[row.id] <= row.attempts + Cardinality(Trying(row.id)') + Lost
             /\ dialled[row.id] <= AttemptLimit - 1 + Lost
                  + Cardinality((Trying(row.id) \cup Counting(row.id))')
  <2>1. PICK old \in txns : old.id = row.id /\ old.attempts = row.attempts
    OBVIOUS
  <2> DEFINE T == Trying(row.id)
             A == Trying(row.id) \cup Counting(row.id)
             T1 == Trying(row.id)'
             A1 == (Trying(row.id) \cup Counting(row.id))'
  <2>2. T \subseteq T1 /\ A \subseteq A1 /\ T1 \in SUBSET Handler
        /\ A1 \in SUBSET Handler
    BY DEF Trying, Counting
  <2>3. /\ row.id \in 1..minted["txn"]
        /\ dialled[row.id] <= row.attempts + Cardinality(T) + Lost
        /\ dialled[row.id] <= AttemptLimit - 1 + Lost + Cardinality(A)
    BY <2>1 DEF LoginsKnown
  <2>4. /\ Cardinality(T) \in Nat /\ Cardinality(T1) \in Nat
        /\ Cardinality(A) \in Nat /\ Cardinality(A1) \in Nat
        /\ Cardinality(T) <= Cardinality(T1) /\ Cardinality(A) <= Cardinality(A1)
    <3> HIDE DEF T, A, T1, A1
    <3>1. T \in SUBSET T1 /\ A \in SUBSET A1
          /\ T \in SUBSET Handler /\ A \in SUBSET Handler
      BY <2>2
    <3> QED BY <2>2, <3>1, HandlerFacts
  <2>5. /\ dialled[row.id] \in Nat /\ row.attempts \in Nat /\ Lost \in Nat
        /\ AttemptLimit \in Nat
    <3>1. row.id \in 1..MaxTxn
      BY <2>3, BoundAssumption
         DEF LoginsKnown, TypeOK, StoreTypeOK, Kind
    <3>2. faults \in Nat
      BY BoundAssumption DEF TypeOK, HistoryTypeOK
    <3> QED
      BY <3>1, <3>2, HandlerFacts, AttemptLimitAssumption
         DEF TypeOK, HistoryTypeOK, TxnRow, Lost
  <2> HIDE DEF T, A, T1, A1
  <2>6. /\ dialled[row.id] <= row.attempts + Cardinality(T1) + Lost
        /\ dialled[row.id] <= AttemptLimit - 1 + Lost + Cardinality(A1)
    BY <2>3, <2>4, <2>5
  <2> QED BY <2>3, <2>6 DEF T1, A1
<1>3. \A x \in 1..MaxTxn : x > minted'["txn"] => dialled'[x] = 0
  BY DEF LoginsKnown
<1> QED BY <1>1, <1>2, <1>3 DEF LoginsKnown

(* A step of tasks that neither are in a login nor get into one.           *)
LEMMA LoginsAside ==
  ASSUME IsFiniteSet(Handler), TypeOK, LoginsKnown,
         UNCHANGED <<dialled, faults>>, minted'["txn"] = minted["txn"],
         \A u \in Task : \/ pc'[u] = pc[u] /\ ctx'[u].txn = ctx[u].txn
                         \/ pc[u] \notin LoginLabels /\ pc'[u] \notin LoginLabels,
         \A row \in txns' :
            \E old \in txns : old.id = row.id /\ old.attempts = row.attempts,
         txns' \subseteq TxnRow
  PROVE  LoginsKnown'
<1>1. \A x : Trying(x) \subseteq Trying(x)' /\ Counting(x) \subseteq Counting(x)'
  BY DEF Trying, Counting, LoginLabels, Task
<1>2. \A t \in Task : pc'[t] \in LoginLabels => t \in Handler
  BY DEF LoginsKnown
<1> QED BY <1>1, <1>2, LoginsKept

(* What the rows, the logins and the faults are counted in.                *)
LEMMA LoginNumbers ==
  ASSUME IsFiniteSet(Handler), TypeOK, LoginsKnown
  PROVE  /\ Lost \in Nat /\ faults \in Nat
         /\ Cardinality(Handler) * (faults + 1) = Lost + Cardinality(Handler)
         /\ AttemptLimit \in Nat \ {0}
         /\ minted["txn"] \in 0..MaxTxn
         /\ \A x \in 1..MaxTxn : dialled[x] \in Nat
         /\ \A row \in txns : /\ row.id \in 1..MaxTxn /\ row.attempts \in Nat
                              /\ dialled[row.id] \in Nat
<1>1. faults \in Nat
  BY BoundAssumption DEF TypeOK, HistoryTypeOK
<1>2. minted["txn"] \in 0..MaxTxn
  BY BoundAssumption DEF TypeOK, StoreTypeOK, Kind, LoginsKnown
<1>3. ASSUME NEW row \in txns PROVE row.id \in 1..MaxTxn
  <2>1. row.id \in 1..minted["txn"]
    BY DEF LoginsKnown
  <2>2. MaxTxn \in Nat
    BY BoundAssumption
  <2> DEFINE m == minted["txn"]
  <2>3. row.id \in 1..m /\ m \in 0..MaxTxn
    BY <1>2, <2>1
  <2> HIDE DEF m
  <2> QED BY <2>2, <2>3
<1>4. /\ \A x \in 1..MaxTxn : dialled[x] \in Nat
      /\ \A row \in txns : row.attempts \in Nat
  BY DEF TypeOK, StoreTypeOK, HistoryTypeOK, TxnRow
<1> QED
  BY <1>1, <1>2, <1>3, <1>4, HandlerFacts, AttemptLimitAssumption DEF Lost

(* authorize: a new row, for a transaction that nothing was tried for.     *)
LEMMA LoginsOpened ==
  ASSUME IsFiniteSet(Handler), TypeOK, LoginsKnown,
         NEW t \in Task, NEW c \in Client, Authorize(t, c)
  PROVE  LoginsKnown'
<1> DEFINE new == [id |-> NewId("txn"), client |-> c,
                   attempts |-> 0, expired |-> FALSE]
<1>1. /\ txns' = txns \cup {new}
      /\ new.id = minted["txn"] + 1 /\ new.attempts = 0
      /\ minted'["txn"] = minted["txn"] + 1 /\ minted["txn"] < MaxTxn
      /\ UNCHANGED <<pc, ctx, faults, dialled>>
  BY DEF Authorize, PutTxn, Mint, NewId, tasks, history, TypeOK, StoreTypeOK, Kind
<1> HIDE DEF new
<1>2. /\ Lost' = Lost
      /\ \A x : Trying(x)' = Trying(x) /\ Counting(x)' = Counting(x)
      /\ LoginsBounded'
  BY <1>1 DEF Lost, Trying, Counting, LoginsBounded, LoginsKnown
<1>3. \A S \in SUBSET Handler : Cardinality(S) \in Nat
  BY HandlerFacts
<1>4. ASSUME NEW row \in txns'
      PROVE  /\ row.id \in 1..minted'["txn"]
             /\ dialled[row.id] <= row.attempts + Cardinality(Trying(row.id)) + Lost
             /\ dialled[row.id] <= AttemptLimit - 1 + Lost
                  + Cardinality(Trying(row.id) \cup Counting(row.id))
  <2>1. CASE row \in txns
    BY <1>1, <2>1, LoginNumbers DEF LoginsKnown
  <2>2. CASE row = new
    <3>1. /\ row.id \in 1..MaxTxn /\ row.id > minted["txn"]
          /\ row.id \in 1..minted'["txn"] /\ row.attempts = 0
      <4> DEFINE m == minted["txn"]
                 n == minted'["txn"]
      <4>1. /\ row.id = m + 1 /\ n = m + 1 /\ m < MaxTxn /\ m \in 0..MaxTxn
            /\ row.attempts = 0 /\ MaxTxn \in Nat
        BY <1>1, <2>2, LoginNumbers, BoundAssumption
      <4>2. row.id \in 1..MaxTxn /\ row.id > m /\ row.id \in 1..n
        <5> HIDE DEF m, n
        <5> QED BY <4>1
      <4> QED BY <4>1, <4>2
    <3>2. dialled[row.id] = 0
      BY <3>1 DEF LoginsKnown
    <3>3. /\ Cardinality(Trying(row.id)) \in Nat
          /\ Cardinality(Trying(row.id) \cup Counting(row.id)) \in Nat
      BY <1>3, LoginSets
    <3> QED BY <3>1, <3>2, <3>3, LoginNumbers
  <2> QED BY <1>1, <2>1, <2>2
<1>5. \A x \in 1..MaxTxn : x > minted'["txn"] => dialled[x] = 0
  BY <1>1, LoginNumbers DEF LoginsKnown
<1>6. minted'["txn"] <= MaxTxn
  BY <1>1, LoginNumbers, BoundAssumption
<1> QED BY <1>1, <1>2, <1>4, <1>5, <1>6 DEF LoginsKnown

(* login_submit: one login more, and one handler more that tries.          *)
LEMMA LoginsTried ==
  ASSUME IsFiniteSet(Handler), TypeOK, LoginsKnown,
         NEW t \in Handler, LoginSubmit(t)
  PROVE  LoginsKnown'
<1>1. PICK tried \in txns :
      /\ pc[t] = "idle"
      /\ UNCHANGED <<txns, minted, faults>>
      /\ pc'[t] = "validating" /\ ctx'[t].txn = tried.id
      /\ dialled' = [dialled EXCEPT ![tried.id] = @ + 1]
      /\ \A u \in Task \ {t} : pc'[u] = pc[u] /\ ctx'[u] = ctx[u]
  BY DEF LoginSubmit, At, LiveTxn, store, Goto, Keep, Blank, TypeOK, TaskTypeOK,
         Task
<1> DEFINE x == tried.id
           T == Trying(x)
           A == Trying(x) \cup Counting(x)
<1>2. x \in 1..MaxTxn /\ Lost' = Lost
  BY <1>1, LoginNumbers DEF Lost
<1>3. \A y \in 1..MaxTxn : dialled'[y] = IF y = x THEN dialled[x] + 1 ELSE dialled[y]
  BY <1>1, <1>2 DEF TypeOK, HistoryTypeOK
<1>4. /\ T \in SUBSET Handler /\ A \in SUBSET Handler /\ t \notin A /\ t \notin T
      /\ Trying(x)' = T \cup {t}
      /\ (Trying(x) \cup Counting(x))' = A \cup {t}
  BY <1>1 DEF Trying, Counting, Task
<1>5. \A y : y # x => Trying(y)' = Trying(y) /\ Counting(y)' = Counting(y)
  BY <1>1 DEF Trying, Counting, Task
<1>6. /\ Cardinality(T) \in Nat /\ Cardinality(T \cup {t}) = Cardinality(T) + 1
      /\ Cardinality(A) \in Nat /\ Cardinality(A \cup {t}) = Cardinality(A) + 1
      /\ Cardinality(A \cup {t}) <= Cardinality(Handler)
  <2> HIDE DEF T, A
  <2>1. A \cup {t} \in SUBSET Handler /\ Handler \in SUBSET Handler
    BY <1>4
  <2> QED BY <1>4, <2>1, HandlerFacts
<1>7. /\ dialled[x] <= AttemptLimit - 1 + Lost + Cardinality(A)
      /\ \A row \in txns :
            row.id = x => dialled[x] <= row.attempts + Cardinality(T) + Lost
  BY DEF LoginsKnown
<1> HIDE DEF x, T, A
<1>8. LoginsBounded'
  <2>1. dialled'[x] <= AttemptLimit - 1 + Cardinality(Handler) * (faults + 1)
    <3>1. dialled'[x] = dialled[x] + 1
      BY <1>2, <1>3
    <3>2. /\ Cardinality(Handler) * (faults + 1) = Lost + Cardinality(Handler)
          /\ dialled[x] \in Nat /\ Lost \in Nat /\ AttemptLimit \in Nat
          /\ Cardinality(Handler) \in Nat
      BY <1>2, LoginNumbers, HandlerFacts
    <3>3. dialled[x] + 1 <= AttemptLimit - 1 + (Lost + Cardinality(Handler))
      BY <1>6, <1>7, <3>2
    <3> QED BY <3>1, <3>2, <3>3
  <2> QED BY <1>1, <1>3, <2>1 DEF LoginsKnown, LoginsBounded
<1>9. ASSUME NEW row \in txns'
      PROVE  /\ row.id \in 1..minted["txn"]
             /\ dialled'[row.id] <= row.attempts + Cardinality(Trying(row.id)') + Lost
             /\ dialled'[row.id] <= AttemptLimit - 1 + Lost
                  + Cardinality((Trying(row.id) \cup Counting(row.id))')
  <2>1. row \in txns /\ row.id \in 1..MaxTxn /\ row.id \in 1..minted["txn"]
    BY <1>1, LoginNumbers DEF LoginsKnown
  <2>2. CASE row.id = x
    <3>1. dialled'[row.id] = dialled[x] + 1
      BY <1>3, <2>1, <2>2
    <3>2. /\ dialled[x] \in Nat /\ Lost \in Nat /\ AttemptLimit \in Nat
          /\ row.attempts \in Nat
      BY <1>2, <2>1, LoginNumbers
    <3>3. /\ dialled[x] + 1 <= row.attempts + Cardinality(T \cup {t}) + Lost
          /\ dialled[x] + 1 <= AttemptLimit - 1 + Lost + Cardinality(A \cup {t})
      BY <1>6, <1>7, <2>1, <2>2, <3>2
    <3>4. /\ Cardinality(Trying(row.id)') = Cardinality(T \cup {t})
          /\ Cardinality((Trying(row.id) \cup Counting(row.id))')
               = Cardinality(A \cup {t})
      BY <1>4, <2>2
    <3> QED BY <2>1, <3>1, <3>3, <3>4
  <2>3. CASE row.id # x
    <3>1. Trying(row.id)' = Trying(row.id) /\ Counting(row.id)' = Counting(row.id)
      BY <1>5, <2>3
    <3> QED BY <1>3, <2>1, <2>3, <3>1 DEF LoginsKnown
  <2> QED BY <2>2, <2>3
<1>10. /\ minted'["txn"] <= MaxTxn
       /\ \A u \in Task : pc'[u] \in LoginLabels => u \in Handler
       /\ \A y \in 1..MaxTxn : y > minted'["txn"] => dialled'[y] = 0
  <2>1. x <= minted["txn"] /\ minted["txn"] \in 0..MaxTxn
    <3>1. x \in 1..minted["txn"] /\ minted["txn"] \in 0..MaxTxn
      BY LoginNumbers DEF LoginsKnown, x
    <3> QED BY <3>1
  <2> QED BY <1>1, <1>2, <1>3, <2>1, LoginNumbers DEF LoginsKnown
<1> QED BY <1>1, <1>2, <1>8, <1>9, <1>10 DEF LoginsKnown

(* bump_txn_attempts: a handler that tried has counted.                    *)
LEMMA LoginsCounted ==
  ASSUME IsFiniteSet(Handler), TypeOK, LoginsKnown,
         NEW t \in Task, LoginRefused(t)
  PROVE  LoginsKnown'
<1> DEFINE x == ctx[t].txn
           T == Trying(x)
<1>1. /\ pc[t] = "validating" /\ pc'[t] = "read_attempts"
      /\ UNCHANGED <<minted, faults, dialled, ctx>>
      /\ txns' = {IF row.id = x THEN [row EXCEPT !.attempts = @ + 1] ELSE row :
                    row \in txns}
      /\ \A u \in Task \ {t} : pc'[u] = pc[u]
  BY DEF LoginRefused, At, CountAttempt, Goto, history, TypeOK, TaskTypeOK
<1>2. t \in Handler
  BY <1>1 DEF LoginsKnown, LoginLabels
<1>3. /\ T \in SUBSET Handler /\ t \in T /\ Trying(x)' = T \ {t}
      /\ (Trying(x) \cup Counting(x))' = Trying(x) \cup Counting(x)
  BY <1>1, <1>2 DEF Trying, Counting, Task
<1>4. \A y : y # x => Trying(y)' = Trying(y) /\ Counting(y)' = Counting(y)
  BY <1>1 DEF Trying, Counting, Task
<1>5. Cardinality(T) \in Nat /\ Cardinality(T \ {t}) = Cardinality(T) - 1
  <2> HIDE DEF T
  <2> QED BY <1>3, HandlerFacts
<1>6. Lost' = Lost /\ LoginsBounded'
  BY <1>1 DEF Lost, LoginsKnown, LoginsBounded
<1>7. ASSUME NEW row \in txns'
      PROVE  \E old \in txns :
               /\ old.id = row.id
               /\ row.attempts = IF row.id = x THEN old.attempts + 1 ELSE old.attempts
  <2>1. PICK old \in txns :
          row = IF old.id = x THEN [old EXCEPT !.attempts = @ + 1] ELSE old
    BY <1>1
  <2>2. old \in TxnRow
    BY DEF TypeOK, StoreTypeOK
  <2> QED BY <2>1, <2>2 DEF TxnRow
<1>8. ASSUME NEW row \in txns'
      PROVE  /\ row.id \in 1..minted["txn"]
             /\ dialled[row.id] <= row.attempts + Cardinality(Trying(row.id)') + Lost
             /\ dialled[row.id] <= AttemptLimit - 1 + Lost
                  + Cardinality((Trying(row.id) \cup Counting(row.id))')
  <2>1. PICK old \in txns :
          /\ old.id = row.id
          /\ row.attempts = IF row.id = x THEN old.attempts + 1 ELSE old.attempts
    BY <1>7
  <2>2. /\ row.id \in 1..minted["txn"]
        /\ dialled[row.id] <= old.attempts + Cardinality(Trying(row.id)) + Lost
        /\ dialled[row.id] <= AttemptLimit - 1 + Lost
             + Cardinality(Trying(row.id) \cup Counting(row.id))
    BY <2>1 DEF LoginsKnown
  <2>3. old.attempts \in Nat /\ dialled[row.id] \in Nat /\ Lost \in Nat
    BY <2>1, LoginNumbers
  <2>4. CASE row.id = x
    <3>1. /\ Trying(row.id) = T /\ Trying(row.id)' = T \ {t}
          /\ (Trying(row.id) \cup Counting(row.id))'
               = Trying(row.id) \cup Counting(row.id)
      BY <1>1, <1>3, <2>4
    <3>2. /\ Cardinality(Trying(row.id)') = Cardinality(T) - 1
          /\ Cardinality(Trying(row.id)) = Cardinality(T)
          /\ row.attempts = old.attempts + 1
      BY <1>5, <2>1, <2>4, <3>1
    <3>3. dialled[row.id] <= row.attempts + Cardinality(Trying(row.id)') + Lost
      <4> DEFINE n == Cardinality(T)
                 now == Cardinality(Trying(row.id)')
      <4>1. /\ dialled[row.id] <= old.attempts + n + Lost
            /\ now = n - 1 /\ n \in Nat
        BY <1>5, <2>2, <3>2
      <4> HIDE DEF n, now
      <4>2. dialled[row.id] <= row.attempts + now + Lost
        BY <2>3, <3>2, <4>1
      <4> QED BY <4>2 DEF now
    <3> QED BY <2>2, <3>1, <3>3
  <2>5. CASE row.id # x
    <3> HIDE DEF x
    <3>1. Trying(row.id)' = Trying(row.id) /\ Counting(row.id)' = Counting(row.id)
      BY <1>4, <2>5
    <3> QED BY <2>1, <2>2, <2>5, <3>1
  <2> QED BY <2>4, <2>5
<1>9. /\ minted'["txn"] <= MaxTxn
      /\ \A u \in Task : pc'[u] \in LoginLabels => u \in Handler
      /\ \A y \in 1..MaxTxn : y > minted'["txn"] => dialled'[y] = 0
  BY <1>1, <1>2 DEF LoginsKnown
<1> QED BY <1>1, <1>6, <1>8, <1>9 DEF LoginsKnown

(* A handler that has counted shows the form again only while the limit is *)
(* not reached; otherwise it goes on to drop the transaction.              *)
LEMMA LoginsRead ==
  ASSUME IsFiniteSet(Handler), TypeOK, LoginsKnown,
         NEW t \in Task, ReadAttempts(t)
  PROVE  LoginsKnown'
<1> DEFINE x == ctx[t].txn
           T == Trying(x)
           A == Trying(x) \cup Counting(x)
<1>1. /\ pc[t] = "read_attempts" /\ t \in Handler
      /\ UNCHANGED <<txns, minted, faults, dialled>>
      /\ txns \subseteq TxnRow
      /\ \A u \in Task \ {t} : pc'[u] = pc[u] /\ ctx'[u] = ctx[u]
  BY DEF ReadAttempts, At, store, history, Goto, Finish, Keep, TypeOK, TaskTypeOK,
         StoreTypeOK, LoginsKnown, LoginLabels
<1>2. CASE AttemptsExhausted(x)
  <2>1. pc'[t] = "cancel_txn" /\ ctx' = ctx
    BY <1>2 DEF ReadAttempts, Goto, TypeOK, TaskTypeOK
  <2>2. \A y : Trying(y) \subseteq Trying(y)' /\ Counting(y) \subseteq Counting(y)'
    BY <1>1, <2>1 DEF Trying, Counting, Task
  <2>3. \A u \in Task : pc'[u] \in LoginLabels => u \in Handler
    BY <1>1 DEF LoginsKnown
  <2> QED BY <1>1, <2>2, <2>3, LoginsKept
<1>3. CASE ~ AttemptsExhausted(x)
  <2>1. pc'[t] = "idle"
    BY <1>3 DEF ReadAttempts, Finish, Goto, TypeOK, TaskTypeOK
  <2>2. PICK low \in txns : low.id = x /\ ~ low.attempts >= AttemptLimit
    BY <1>3 DEF AttemptsExhausted
  <2>3. /\ T \in SUBSET (A \ {t}) /\ A \in SUBSET Handler
        /\ {u \in Handler : /\ pc'[u] \in {"validating", "put_code", "close_txn"}
                            /\ ctx'[u].txn = x} = T
        /\ {u \in Handler : /\ pc'[u] \in {"read_attempts", "cancel_txn"}
                            /\ ctx'[u].txn = x} = Counting(x) \ {t}
    BY <1>1, <2>1 DEF Trying, Counting, Task
  <2>4. \A y : y # x => Trying(y)' = Trying(y) /\ Counting(y)' = Counting(y)
    BY <1>1, <2>1 DEF Trying, Counting, Task
  <2>5. /\ Cardinality(T) \in Nat /\ Cardinality(A \ {t}) \in Nat
        /\ Cardinality(T) <= Cardinality(A \ {t})
    <3> HIDE DEF T, A
    <3>1. A \ {t} \in SUBSET Handler /\ T \in SUBSET Handler
      BY <2>3
    <3> QED BY <2>3, <3>1, HandlerFacts
  <2>6. dialled[x] <= low.attempts + Cardinality(T) + Lost
    BY <2>2 DEF LoginsKnown
  <2>7. dialled[x] <= AttemptLimit - 1 + Lost + Cardinality(A \ {t})
    <3>1. low.attempts \in Nat /\ dialled[x] \in Nat /\ Lost \in Nat
          /\ AttemptLimit \in Nat
      BY <2>2, LoginNumbers
    <3> HIDE DEF x, T, A
    <3> QED BY <2>2, <2>5, <2>6, <3>1
  <2>8. Lost' = Lost /\ LoginsBounded'
    BY <1>1 DEF Lost, LoginsKnown, LoginsBounded
  <2>9. ASSUME NEW row \in txns'
        PROVE  /\ row.id \in 1..minted["txn"]
               /\ dialled[row.id] <= row.attempts + Cardinality(Trying(row.id)') + Lost
               /\ dialled[row.id] <= AttemptLimit - 1 + Lost
                    + Cardinality((Trying(row.id) \cup Counting(row.id))')
    <3>1. /\ row.id \in 1..minted["txn"]
          /\ dialled[row.id] <= row.attempts + Cardinality(Trying(row.id)) + Lost
          /\ dialled[row.id] <= AttemptLimit - 1 + Lost
               + Cardinality(Trying(row.id) \cup Counting(row.id))
      BY <1>1 DEF LoginsKnown
    <3> HIDE DEF x
    <3>2. CASE row.id = x
      <4>1. /\ Trying(row.id)' = T /\ Trying(row.id) = T
            /\ (Trying(row.id) \cup Counting(row.id))' = A \ {t}
        BY <1>1, <2>1, <2>3, <3>2 DEF Trying, Counting, Task, x
      <4> QED BY <2>7, <3>1, <3>2, <4>1
    <3>3. CASE row.id # x
      <4>1. Trying(row.id)' = Trying(row.id) /\ Counting(row.id)' = Counting(row.id)
        BY <2>4, <3>3
      <4> QED BY <3>1, <4>1
    <3> QED BY <3>2, <3>3
  <2>10. /\ minted'["txn"] <= MaxTxn
         /\ \A u \in Task : pc'[u] \in LoginLabels => u \in Handler
         /\ \A y \in 1..MaxTxn : y > minted'["txn"] => dialled'[y] = 0
    BY <1>1 DEF LoginsKnown
  <2> QED BY <1>1, <2>8, <2>9, <2>10 DEF LoginsKnown
<1> QED BY <1>2, <1>3

(* delete_txn: its handler is done, and there is no row to log in for.     *)
LEMMA LoginsClosed ==
  ASSUME IsFiniteSet(Handler), TypeOK, LoginsKnown,
         NEW t \in Task, CancelTxn(t) \/ CloseTxn(t)
  PROVE  LoginsKnown'
<1>1. /\ UNCHANGED <<minted, faults, dialled>>
      /\ txns' = {row \in txns : row.id # ctx[t].txn}
      /\ pc'[t] = "idle"
      /\ \A u \in Task \ {t} : pc'[u] = pc[u] /\ ctx'[u] = ctx[u]
  BY DEF CancelTxn, CloseTxn, DeleteTxn, Finish, Goto, Keep, history, TypeOK,
         TaskTypeOK
<1>2. \A y : y # ctx[t].txn =>
        Trying(y) \subseteq Trying(y)' /\ Counting(y) \subseteq Counting(y)'
  BY <1>1 DEF Trying, Counting, Task
<1>3. \A u \in Task : pc'[u] \in LoginLabels => u \in Handler
  BY <1>1 DEF LoginsKnown, LoginLabels
<1>4. txns' \subseteq TxnRow
  BY <1>1 DEF TypeOK, StoreTypeOK
<1> QED BY <1>1, <1>2, <1>3, <1>4, LoginsKept

(* complete_login goes on for the same transaction.                        *)
LEMMA LoginsSucceed ==
  ASSUME IsFiniteSet(Handler), TypeOK, LoginsKnown,
         NEW t \in Task, LoginAccepted(t) \/ MintCode(t)
  PROVE  LoginsKnown'
<1>1. /\ UNCHANGED <<txns, faults, dialled>>
      /\ minted'["txn"] = minted["txn"]
      /\ pc[t] \in {"validating", "put_code"} /\ pc'[t] \in {"put_code", "close_txn"}
      /\ ctx'[t].txn = ctx[t].txn
      /\ \A u \in Task \ {t} : pc'[u] = pc[u] /\ ctx'[u] = ctx[u]
  BY DEF LoginAccepted, MintCode, At, PutCredential, PutCode, Mint, Kind, Goto,
         Keep, history, TypeOK, StoreTypeOK, TaskTypeOK, Context
<1>2. \A y : Trying(y) \subseteq Trying(y)' /\ Counting(y) \subseteq Counting(y)'
  BY <1>1 DEF Trying, Counting, Task
<1>3. \A u \in Task : pc'[u] \in LoginLabels => u \in Handler
  BY <1>1 DEF LoginsKnown, LoginLabels
<1>4. txns' \subseteq TxnRow
  BY <1>1 DEF TypeOK, StoreTypeOK
<1> QED BY <1>1, <1>2, <1>3, <1>4, LoginsKept

(* A fault loses what is in flight, and is counted for all of it.          *)
LEMMA LoginsLost ==
  ASSUME IsFiniteSet(Handler), TypeOK, LoginsKnown,
         UNCHANGED <<txns, minted, dialled>>, faults' = faults + 1,
         \A u \in Task : pc'[u] = pc[u] \/ pc'[u] = "idle"
  PROVE  LoginsKnown'
<1> DEFINE H == Cardinality(Handler)
<1>1. /\ H \in Nat /\ Lost \in Nat /\ Lost' = Lost + H
      /\ H * (faults' + 1) = H * (faults + 1) + H /\ H * (faults + 1) \in Nat
  <2>1. faults \in Nat /\ faults + 1 \in Nat
    BY LoginNumbers
  <2> QED BY <2>1, HandlerFacts DEF Lost
<1> HIDE DEF H
<1>2. LoginsBounded'
  BY <1>1, LoginNumbers DEF LoginsBounded, LoginsKnown, H
<1>3. ASSUME NEW row \in txns'
      PROVE  /\ row.id \in 1..minted["txn"]
             /\ dialled[row.id] <= row.attempts + Cardinality(Trying(row.id)') + Lost'
             /\ dialled[row.id] <= AttemptLimit - 1 + Lost'
                  + Cardinality((Trying(row.id) \cup Counting(row.id))')
  <2> DEFINE T == Trying(row.id)
             A == Trying(row.id) \cup Counting(row.id)
             T1 == Trying(row.id)'
             A1 == (Trying(row.id) \cup Counting(row.id))'
  <2>1. /\ T \in SUBSET Handler /\ A \in SUBSET Handler
        /\ T1 \in SUBSET Handler /\ A1 \in SUBSET Handler
    BY DEF Trying, Counting
  <2>2. /\ row.id \in 1..minted["txn"]
        /\ dialled[row.id] <= row.attempts + Cardinality(T) + Lost
        /\ dialled[row.id] <= AttemptLimit - 1 + Lost + Cardinality(A)
    BY DEF LoginsKnown
  <2>3. /\ row.attempts \in Nat /\ dialled[row.id] \in Nat /\ AttemptLimit \in Nat
    BY LoginNumbers
  <2> HIDE DEF T, A, T1, A1
  <2>4. /\ Cardinality(T) \in Nat /\ Cardinality(T1) \in Nat
        /\ Cardinality(A) \in Nat /\ Cardinality(A1) \in Nat
        /\ Cardinality(T) <= H /\ Cardinality(A) <= H
    <3>1. Handler \in SUBSET Handler
      OBVIOUS
    <3> QED BY <2>1, <3>1, HandlerFacts DEF H
  <2>5. /\ dialled[row.id] <= row.attempts + Cardinality(T1) + Lost'
        /\ dialled[row.id] <= AttemptLimit - 1 + Lost' + Cardinality(A1)
    BY <1>1, <2>2, <2>3, <2>4
  <2> QED BY <2>2, <2>5 DEF T1, A1
<1>4. \A u \in Task : pc'[u] \in LoginLabels => u \in Handler
  BY DEF LoginsKnown, LoginLabels
<1> QED BY <1>2, <1>3, <1>4 DEF LoginsKnown

(* A statement of one task that has no part in a login.                    *)
LEMMA LoginsOfOthers ==
  ASSUME IsFiniteSet(Handler), TypeOK, LoginsKnown, NEW t \in Task,
         UNCHANGED <<txns, dialled, faults>>, minted'["txn"] = minted["txn"],
         pc[t] \notin LoginLabels, pc'[t] \notin LoginLabels,
         \A u \in Task \ {t} : pc'[u] = pc[u] /\ ctx'[u] = ctx[u]
  PROVE  LoginsKnown'
<1>1. \A u \in Task : \/ pc'[u] = pc[u] /\ ctx'[u].txn = ctx[u].txn
                      \/ pc[u] \notin LoginLabels /\ pc'[u] \notin LoginLabels
  OBVIOUS
<1>2. txns' \subseteq TxnRow
  BY DEF TypeOK, StoreTypeOK
<1>3. \A row \in txns' :
         \E old \in txns : old.id = row.id /\ old.attempts = row.attempts
  OBVIOUS
<1> QED BY <1>1, <1>2, <1>3, LoginsAside

(* A statement of no task: rows age, or expired ones are purged.           *)
LEMMA LoginsAge ==
  ASSUME IsFiniteSet(Handler), TypeOK, LoginsKnown,
         (PurgeStatement \/ TimePasses) /\ UNCHANGED <<tasks, faults, history>>
  PROVE  LoginsKnown'
<1>1. /\ UNCHANGED <<pc, ctx, dialled, faults>>
      /\ minted'["txn"] = minted["txn"]
  BY DEF PurgeStatement, PurgeTxns, PurgeCodes, PurgeAccessTokens,
     PurgeRefreshTokens, TimePasses, TxnExpires, CodeExpires, AccessTokenExpires,
     RefreshTokenExpires, tasks, history
<1>2. \/ txns' \subseteq txns
      \/ \E row \in txns : txns' = Aged(txns, row)
  BY DEF PurgeStatement, PurgeTxns, PurgeCodes, PurgeAccessTokens,
     PurgeRefreshTokens, TimePasses, TxnExpires, CodeExpires, AccessTokenExpires,
     RefreshTokenExpires, Unexpired
<1>3. txns \subseteq TxnRow
  BY DEF TypeOK, StoreTypeOK
<1>4. ASSUME NEW row \in txns'
      PROVE  /\ row \in TxnRow
             /\ \E old \in txns : old.id = row.id /\ old.attempts = row.attempts
  <2>1. CASE row \in txns
    BY <1>3, <2>1
  <2>2. CASE row \notin txns
    <3>1. PICK old \in txns : row = [old EXCEPT !.expired = TRUE]
      BY <1>2, <2>2 DEF Aged
    <3> QED BY <1>3, <3>1 DEF TxnRow
  <2> QED BY <2>1, <2>2
<1> QED BY <1>1, <1>4, LoginsAside

(* Every step of the server, of the commands and of the clock.             *)
LEMMA LoginsStep ==
  ASSUME IsFiniteSet(Handler), TypeOK, LoginsKnown, [Next]_vars
  PROVE  LoginsKnown'
<1>1. ASSUME NEW t \in Task, NEW c \in Client, Authorize(t, c)
      PROVE  LoginsKnown'
  BY <1>1, LoginsOpened
<1>2. ASSUME NEW t \in Handler, LoginSubmit(t) PROVE LoginsKnown'
  BY <1>2, LoginsTried
<1>3. ASSUME NEW t \in Task, LoginRefused(t) PROVE LoginsKnown'
  BY <1>3, LoginsCounted
<1>4. ASSUME NEW t \in Task, ReadAttempts(t) PROVE LoginsKnown'
  BY <1>4, LoginsRead
<1>5. ASSUME NEW t \in Task, CancelTxn(t) \/ CloseTxn(t) PROVE LoginsKnown'
  BY <1>5, LoginsClosed
<1>6. ASSUME NEW t \in Task, LoginAccepted(t) \/ MintCode(t) PROVE LoginsKnown'
  BY <1>6, LoginsSucceed
<1>7. ASSUME NEW t \in Task, NEW c \in Client, RedeemCode(t, c) \/ RotateToken(t, c)
      PROVE  LoginsKnown'
  <2>1. /\ UNCHANGED <<txns, dialled, faults, minted>>
        /\ pc[t] = "idle" /\ pc'[t] \in {"create_grant", "put_access"}
        /\ \A u \in Task \ {t} : pc'[u] = pc[u] /\ ctx'[u] = ctx[u]
    BY <1>7 DEF RedeemCode, ConsumeCode, RotateToken, RotateRefreshToken, At,
       Goto, Keep, history, TypeOK, TaskTypeOK
  <2> QED BY <2>1, LoginsOfOthers DEF LoginLabels
<1>8. ASSUME NEW t \in Task,
             \/ LookUpToken(t) \/ (\E g \in grants : ReadGrant(t, g))
             \/ Authenticate(t) \/ FinishCall(t) \/ IssueRefused(t)
             \/ CountGrants(t)
      PROVE  LoginsKnown'
  <2>1. /\ UNCHANGED <<txns, dialled, faults, minted>>
        /\ pc[t] \in {"idle", "get_credential", "serving", "put_access",
                      "put_refresh", "count_grants"}
        /\ pc'[t] \in {"get_credential", "delete_grant", "serving", "idle",
                       "delete_credential"}
        /\ \A u \in Task \ {t} : pc'[u] = pc[u] /\ ctx'[u] = ctx[u]
    BY <1>8 DEF LookUpToken, ReadGrant, Authenticate, FinishCall, IssueRefused,
       CountGrants, At, Goto, Keep, Finish, store, history, TypeOK, TaskTypeOK
  <2> QED BY <2>1, LoginsOfOthers DEF LoginLabels
<1>9. ASSUME NEW t \in Task,
             \/ OpenGrant(t) \/ IssueAccess(t) \/ IssueRefresh(t)
             \/ DeleteGrantRow(t) \/ EraseCredential(t)
      PROVE  LoginsKnown'
  <2>1. /\ UNCHANGED <<txns, dialled, faults>>
        /\ minted'["txn"] = minted["txn"]
        /\ pc[t] \in {"create_grant", "put_access", "put_refresh",
                      "delete_grant", "delete_credential"}
        /\ pc'[t] \in {"put_access", "put_refresh", "idle", "count_grants"}
        /\ \A u \in Task \ {t} : pc'[u] = pc[u] /\ ctx'[u] = ctx[u]
    BY <1>9 DEF OpenGrant, IssueAccess, IssueRefresh, DeleteGrantRow,
       EraseCredential, CreateGrant, PutAccessToken, PutRefreshToken, DeleteGrant,
       DeleteCredential, Mint, Kind, At, Goto, Keep, Finish, history, TypeOK,
       StoreTypeOK, TaskTypeOK
  <2> QED BY <2>1, LoginsOfOthers DEF LoginLabels
<1>10. ASSUME NEW t \in Task, Purge(t) PROVE LoginsKnown'
  BY <1>10, LoginsAge DEF Purge
<1>11. CASE Tick
  BY <1>11, LoginsAge DEF Tick
<1>12. ASSUME NEW t \in Task, StatementFails(t) PROVE LoginsKnown'
  <2>1. /\ UNCHANGED <<txns, minted, dialled>> /\ faults' = faults + 1
        /\ \A u \in Task : pc'[u] = pc[u] \/ pc'[u] = "idle"
    BY <1>12 DEF StatementFails, Finish, Goto, store, history, TypeOK, TaskTypeOK
  <2> QED BY <2>1, LoginsLost
<1>13. ASSUME NEW p \in Server, ServerRestarts(p) PROVE LoginsKnown'
  <2>1. /\ UNCHANGED <<txns, minted, dialled>> /\ faults' = faults + 1
        /\ \A u \in Task : pc'[u] = pc[u] \/ pc'[u] = "idle"
    BY <1>13 DEF ServerRestarts, store, history
  <2> QED BY <2>1, LoginsLost
<1>14. CASE UNCHANGED vars
  <2>1. UNCHANGED <<txns, minted, dialled, faults, pc, ctx>>
    BY <1>14 DEF vars, store, tasks, history
  <2>2. txns' \subseteq TxnRow
    BY <2>1 DEF TypeOK, StoreTypeOK
  <2> QED BY <2>1, <2>2, LoginsAside
<1> QED
  BY <1>1, <1>2, <1>3, <1>4, <1>5, <1>6, <1>7, <1>8, <1>9, <1>10, <1>11, <1>12,
     <1>13, <1>14
     DEF Next, Request, Resume, RevokeByCommand, RevokeByToken, Task

(* What is known of the logins is an invariant, with however many handlers *)
(* on however many processes.                                              *)
THEOREM ServerIsSound ==
  ASSUME IsFiniteSet(Handler)
  PROVE  Spec => []ServerInductive
<1>1. Init => LoginsKnown
  BY LoginsStart
<1>2. TypeOK /\ LoginsKnown /\ [Next]_vars => LoginsKnown'
  BY LoginsStep
<1>3. Spec => []LoginsKnown
  BY <1>1, <1>2, TypeCorrect, PTL DEF Spec
<1>4. Inductive /\ LoginsKnown => ServerInductive
  BY DEF ServerInductive
<1> QED BY <1>3, <1>4, InductiveHolds, PTL

(* bump_txn_attempts: a consent transaction lets a client try AttemptLimit *)
(* - 1 logins, and beyond those at most one for every handler that was     *)
(* under way, and again for every handler after each fault.                *)
THEOREM LoginsAreBounded ==
  ASSUME IsFiniteSet(Handler)
  PROVE  Spec => []LoginsBounded
<1>1. ServerInductive => LoginsBounded
  BY DEF ServerInductive, LoginsKnown
<1> QED BY <1>1, ServerIsSound, PTL
=============================================================================
