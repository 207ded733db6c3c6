------------------------------ MODULE SecretKey ------------------------------
(***************************************************************************)
(* The file with the key that encrypts stored secrets, from its creation   *)
(* on first use.  `serve` and every command of `http` open the             *)
(* authorization store with load_or_create_key: they look whether the file *)
(* exists, then read it, or create it and write the key they generated.    *)
(*                                                                         *)
(* A process that finds the file empty refuses to start and tells the      *)
(* operator to delete it.                                                  *)
(***************************************************************************)
EXTENDS Naturals

CONSTANTS
    Process,     \* processes that open the store
    MaxKeys,     \* how many keys may be generated
    MaxKills,    \* how many processes may be killed
    Careful      \* whether the operator looks again before he deletes the file

ASSUME KeyConstants ==
    /\ MaxKeys \in Nat
    /\ MaxKills \in Nat
    /\ Careful \in BOOLEAN

VARIABLES
    keyFile,     \* the file at secret_key_file
    process,     \* process[p]: where p stands in starting, and its key
    stored,      \* the keys that the secrets in the database are encrypted with
    advised,     \* whether a process has told the operator to delete the file
    generated,   \* keys generated so far; the last of them is the newest
    kills        \* processes killed so far

keyVars == <<keyFile, process, stored, advised, generated, kills>>

NoKey == 0
Key == 1 .. MaxKeys

\* A file that is not there, one that its creator has still to write, and one
\* with a key.
Absent == [is |-> "absent", key |-> NoKey]
Empty == [is |-> "empty", key |-> NoKey]
Holding(k) == [is |-> "whole", key |-> k]

Down == [pc |-> "down", key |-> NoKey]

KeyTypeOK ==
    /\ keyFile \in {Absent, Empty} \cup {Holding(k) : k \in Key}
    /\ process \in [Process ->
                      [pc : {"down", "look", "read", "create", "write", "up"},
                       key : Key \cup {NoKey}]]
    /\ stored \in SUBSET Key
    /\ advised \in BOOLEAN
    /\ generated \in 0 .. MaxKeys
    /\ kills \in 0 .. MaxKills
    /\ \A p \in Process : process[p].pc \in {"write", "up"} => process[p].key \in Key

KeyInit ==
    /\ keyFile = Absent
    /\ process = [p \in Process |-> Down]
    /\ stored = {}
    /\ advised = FALSE
    /\ generated = 0
    /\ kills = 0

-----------------------------------------------------------------------------
(* load_or_create_key                                                      *)

Goes(p, pc) == process' = [process EXCEPT ![p].pc = pc]

\* Refused, or killed.
Ends(p) == process' = [process EXCEPT ![p] = Down]

Start(p) ==
    /\ process[p].pc = "down"
    /\ Goes(p, "look")
    /\ UNCHANGED <<keyFile, stored, advised, generated, kills>>

\* path.exists()
Look(p) ==
    /\ process[p].pc = "look"
    /\ Goes(p, IF keyFile.is = "absent" THEN "create" ELSE "read")
    /\ UNCHANGED <<keyFile, stored, advised, generated, kills>>

ReadKey(p) ==
    /\ process[p].pc = "read"
    /\ keyFile.is = "whole"
    /\ process' = [process EXCEPT ![p] = [pc |-> "up", key |-> keyFile.key]]
    /\ UNCHANGED <<keyFile, stored, advised, generated, kills>>

\* Looked at again and again until there is a key.
BadReadEmpty(p) ==
    /\ process[p].pc = "read"
    /\ keyFile.is = "empty"
    /\ Goes(p, "look")
    /\ UNCHANGED <<keyFile, stored, advised, generated, kills>>

\* "Secret key file is empty. Delete it to generate a new one."
ReadEmpty(p) ==
    /\ process[p].pc = "read"
    /\ keyFile.is = "empty"
    /\ Ends(p)
    /\ advised' = TRUE
    /\ UNCHANGED <<keyFile, stored, generated, kills>>

\* The file has gone since it was looked at: read_bytes raises.
ReadGone(p) ==
    /\ process[p].pc = "read"
    /\ keyFile.is = "absent"
    /\ Ends(p)
    /\ UNCHANGED <<keyFile, stored, advised, generated, kills>>

\* Created without O_EXCL: a file that is there by now is emptied.
BadCreateKey(p) ==
    /\ process[p].pc = "create"
    /\ generated < MaxKeys
    /\ keyFile' = Empty
    /\ generated' = generated + 1
    /\ process' = [process EXCEPT ![p] = [pc |-> "write", key |-> generated']]
    /\ UNCHANGED <<stored, advised, kills>>

\* O_CREAT | O_EXCL
CreateKey(p) ==
    /\ process[p].pc = "create"
    /\ keyFile.is = "absent"
    /\ generated < MaxKeys
    /\ keyFile' = Empty
    /\ generated' = generated + 1
    /\ process' = [process EXCEPT ![p] = [pc |-> "write", key |-> generated']]
    /\ UNCHANGED <<stored, advised, kills>>

\* Another process has created it since it was looked at: os.open raises.
CreateExists(p) ==
    /\ process[p].pc = "create"
    /\ keyFile.is # "absent"
    /\ Ends(p)
    /\ UNCHANGED <<keyFile, stored, advised, generated, kills>>

WriteKey(p) ==
    /\ process[p].pc = "write"
    /\ keyFile' = Holding(process[p].key)
    /\ Goes(p, "up")
    /\ UNCHANGED <<stored, advised, generated, kills>>

-----------------------------------------------------------------------------

\* A sign-in, or the registration of a client: put_credential, put_client.
StoreSecret(p) ==
    /\ process[p].pc = "up"
    /\ stored' = stored \cup {process[p].key}
    /\ UNCHANGED <<keyFile, process, advised, generated, kills>>

\* The process is killed or stopped, or what it writes cannot be written.
Stop(p) ==
    /\ process[p].pc # "down"
    /\ kills < MaxKills
    /\ Ends(p)
    /\ kills' = kills + 1
    /\ UNCHANGED <<keyFile, stored, advised, generated>>

\* External: the operator does what he was told, which takes him longer than a
\* process needs between creating the file and writing the key.  If he is
\* careful he looks first whether the file is still empty.
DeleteAsAdvised ==
    /\ advised
    /\ keyFile.is # "absent"
    /\ \A p \in Process : process[p].pc # "write"
    /\ Careful => keyFile.is = "empty"
    /\ keyFile' = Absent
    /\ advised' = FALSE
    /\ UNCHANGED <<process, stored, generated, kills>>

-----------------------------------------------------------------------------

LoadOrCreateKey(p) ==
    \/ Look(p)
    \/ ReadKey(p) \/ ReadEmpty(p) \/ ReadGone(p)
    \/ CreateKey(p) \/ CreateExists(p) \/ WriteKey(p)

KeyNext ==
    \/ DeleteAsAdvised
    \/ \E p \in Process :
        Start(p) \/ LoadOrCreateKey(p) \/ StoreSecret(p) \/ Stop(p)

KeySpec == KeyInit /\ [][KeyNext]_keyVars

\* A process that has failed is started again (Restart=on-failure in the unit
\* of deploy/), and the operator does in the end as he was told.
KeyFairSpec ==
    /\ KeySpec
    /\ WF_keyVars(DeleteAsAdvised)
    /\ \A p \in Process :
        WF_keyVars(Start(p)) /\ WF_keyVars(LoadOrCreateKey(p))

-----------------------------------------------------------------------------
(* What the key file guarantees.                                           *)

\* "those secrets have to survive a restart" (crypto.py): every secret in the
\* database is encrypted with the key that the next process will read.
SecretsSurvive == \A k \in stored : keyFile.is = "whole" /\ keyFile.key = k

\* Processes that are up, started at the same time or not, have one key: a
\* sign-in with one is served by every other (AuthStore.get_credential).
OneKey ==
    \A p, q \in Process :
        process[p].pc = "up" /\ process[q].pc = "up"
            => process[p].key = process[q].key

\* A key that was written stays.
KeyStays == [][keyFile.is = "whole" => keyFile' = keyFile]_keyVars

\* A start that was killed between creating the file and writing the key does
\* not lock the others out for good: what they tell the operator helps.
Recovers == \A p \in Process : []<>(process[p].pc = "up")

-----------------------------------------------------------------------------
(* The invariant behind them, for a careful operator.                      *)

\* One process at most is about to write, to a file that is empty until then;
\* processes are up only with the key in the file.
KeyInductive ==
    /\ KeyTypeOK
    /\ \A p \in Process :
        /\ process[p].pc = "write" => /\ keyFile = Empty
                                      /\ \A q \in Process : process[q].pc = "write"
                                                             => q = p
        /\ process[p].pc = "up" => /\ keyFile.is = "whole"
                                   /\ process[p].key = keyFile.key
    /\ SecretsSurvive
==============================================================================
