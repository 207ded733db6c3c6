------------------------------ MODULE ToolCalls ------------------------------
(***************************************************************************)
(* The MCP server at work: which profile a tool call runs with             *)
(* (operations.py, context.py), the permission checks before it, and the   *)
(* metadata cache that all calls share.  server.py runs each call in a     *)
(* thread of its own, so calls interleave at every step; the profile       *)
(* commands of ProfileFile run beside them, in other processes.            *)
(*                                                                         *)
(* A remote server (`odoo-mcp serve --auth oauth`) takes calls that carry  *)
(* the profile of the user whose token they came with.  Otherwise          *)
(* (`odoo-mcp run`, and `serve --auth local`) calls use profiles.json.     *)
(***************************************************************************)
EXTENDS ProfileFile

CONSTANTS
    Call,         \* threads that serve tool calls
    Modes,        \* how the server may be started: TRUE with OAuth
    User,         \* who may call a remote server
    NoUser,       \* who calls otherwise
    UserProfile,  \* UserProfile[u]: what user u signed in with; no permissions
    Tool,         \* the tools that are called
    Query,        \* what metadata is asked for: operation, model, and the rest
    NoQuery,      \* what other tools ask
    TTL,          \* METADATA_CACHE_TTL
    Delay,        \* how long an answer may be under way to the cache
    MaxTime       \* where the clock of the model stops

ASSUME RemoteAssumption ==
    /\ Modes \subseteq BOOLEAN
    /\ UserProfile \in [User -> [name : Name, settings : Granting]]
    /\ NoUser \notin User
ASSUME ToolAssumption ==
    /\ Tool \subseteq {"operation", "metadata", "version"}
    /\ NoQuery \notin Query
ASSUME TimeAssumption ==
    TTL \in Nat \ {0} /\ Delay \in Nat /\ MaxTime \in Nat

VARIABLES
    up,         \* whether the server runs
    remote,     \* whether it runs with OAuth
    fallback,   \* the profile it was started with (_fallback_profile)
    calls,      \* calls[t]: where call t stands, and its local variables
    cache,      \* _metadata_cache: a dictionary
    now         \* the clock

callVars == <<up, remote, fallback, calls, cache, now>>
vars == <<profileVars, up, remote, fallback, calls, cache, now>>

\* What Odoo answered: with which credentials, to what, and when.
Answer == [source : Settings \cup {NoSettings},
           query : Query \cup {NoQuery},
           at : Nat]

NoAnswer == [source |-> NoSettings, query |-> NoQuery, at |-> 0]

\* The same entries for every profile.
BadCacheKey(named, query) == <<NoName, query>>

\* '_default' stands for no name.
CacheKey(named, query) == <<named, query>>

CacheKeys == (Name \cup {NoName}) \X Query

CacheEntry == [data : Answer, ts : Nat]

\* age is how old the answer was when the call got it.
CallState ==
    [pc : {"idle", "tool", "op", "client", "lookup", "evict", "read", "store",
           "send", "done"},
     tool : Tool \cup {"none"},
     user : User \cup {NoUser},
     named : Name \cup {NoName},
     query : Query \cup {NoQuery},
     client : Settings \cup {NoSettings},
     answer : Answer,
     age : Nat]

Quiet == [pc |-> "idle", tool |-> "none", user |-> NoUser, named |-> NoName,
          query |-> NoQuery, client |-> NoSettings, answer |-> NoAnswer,
          age |-> 0]

CallsTypeOK ==
    /\ up \in BOOLEAN
    /\ remote \in Modes \cup {FALSE}
    /\ fallback \in Settings \cup {NoSettings}
    /\ calls \in [Call -> CallState]
    /\ DOMAIN cache \subseteq CacheKeys
    /\ \A k \in DOMAIN cache : cache[k] \in CacheEntry
    /\ now \in 0 .. MaxTime

Init ==
    /\ ProfilesInit
    /\ up = FALSE
    /\ remote = FALSE
    /\ fallback = NoSettings
    /\ calls = [t \in Call |-> Quiet]
    /\ cache = <<>>
    /\ now = 0

-----------------------------------------------------------------------------
(* Which profile.                                                          *)

\* get_profile: the named profile or the default one.  There is none where
\* load_profiles raises: every caller treats its ValueError like a miss.
Found(named) ==
    IF Readable
    THEN SettingsOf(file.config,
                    IF named = NoName THEN file.config.default ELSE named)
    ELSE NoSettings

\* The profile that the server was started with is not passed on.
BadResolve(named) == Found(named)

\* resolve_profile
Resolve(named) ==
    IF named = NoName /\ fallback # NoSettings THEN fallback ELSE Found(named)

\* The profile of the request is not asked for.
BadResolveActive(call) == Resolve(call.named)

\* resolve_active_profile.  A request's profile goes before the others, and
\* only its own name may be given.
ResolveActive(call) ==
    IF remote
    THEN IF call.named \in {NoName, UserProfile[call.user].name}
         THEN UserProfile[call.user].settings
         ELSE NoSettings
    ELSE Resolve(call.named)

\* check_permission lets a call pass whose profile it cannot resolve.
Denied(call) == ResolveActive(call) \notin Granting \cup {NoSettings}

-----------------------------------------------------------------------------
(* The server starts and stops.                                            *)

\* cmd_run, and cmd_serve without OAuth; with OAuth there is no fallback.
StartServer(named, oauth) ==
    /\ ~ up
    /\ up' = TRUE
    /\ remote' = oauth
    /\ IF oauth
       THEN fallback' = NoSettings
       ELSE /\ Readable
            /\ named # NoName => Found(named) # NoSettings
            /\ fallback' = Found(named)
    /\ UNCHANGED <<profileVars, calls, cache, now>>

\* What the process held is gone.
StopServer ==
    /\ up
    /\ killed < MaxFaults
    /\ killed' = killed + 1
    /\ up' = FALSE
    /\ remote' = FALSE
    /\ fallback' = NoSettings
    /\ calls' = [t \in Call |-> Quiet]
    /\ cache' = <<>>
    /\ UNCHANGED <<file, cmd, told, overlapped, now>>

-----------------------------------------------------------------------------
(* A tool call.                                                            *)

Becomes(t, call) ==
    /\ calls' = [calls EXCEPT ![t] = call]
    /\ UNCHANGED <<profileVars, up, remote, fallback, now>>

Goes(t, pc) == Becomes(t, [calls[t] EXCEPT !.pc = pc])

\* A result without data: denied, refused, failed, or taken by the caller.
Ends(t) == Becomes(t, Quiet)

StartCall(t, tool, user, named, query) ==
    /\ up
    /\ calls[t].pc = "idle"
    /\ IF remote THEN user \in User ELSE user = NoUser
    /\ query = NoQuery <=> tool # "metadata"
    /\ Becomes(t, [Quiet EXCEPT
                     !.pc = IF tool = "version" THEN "send" ELSE "tool",
                     !.tool = tool, !.user = user, !.named = named,
                     !.query = query])
    /\ UNCHANGED cache

\* The tool is not checked.
BadCheckTool(t) ==
    /\ calls[t].pc = "tool"
    /\ Goes(t, "op")
    /\ UNCHANGED cache

\* server._check_permission
CheckTool(t) ==
    /\ calls[t].pc = "tool"
    /\ IF Denied(calls[t]) THEN Ends(t) ELSE Goes(t, "op")
    /\ UNCHANGED cache

\* check_permission, in the operation
CheckOperation(t) ==
    /\ calls[t].pc = "op"
    /\ IF Denied(calls[t]) THEN Ends(t) ELSE Goes(t, "client")
    /\ UNCHANGED cache

\* _get_client resolves the profile anew; ValueError ends the call.
GetClient(t) ==
    /\ calls[t].pc = "client"
    /\ LET profile == ResolveActive(calls[t])
       IN IF profile = NoSettings
          THEN Ends(t)
          ELSE Becomes(t, [calls[t] EXCEPT
                             !.client = profile,
                             !.pc = IF calls[t].tool = "metadata"
                                    THEN "lookup" ELSE "send"])
    /\ UNCHANGED cache

\* op_get_version: the profile is resolved without the request's, and no
\* permission is needed.
GetVersion(t) ==
    /\ calls[t].pc = "send"
    /\ calls[t].tool = "version"
    /\ LET profile == Resolve(calls[t].named)
       IN IF profile = NoSettings
          THEN Ends(t)
          ELSE Becomes(t, [calls[t] EXCEPT !.client = profile, !.pc = "done"])
    /\ UNCHANGED cache

\* The call to Odoo is made.
Send(t) ==
    /\ calls[t].pc = "send"
    /\ calls[t].tool = "operation"
    /\ Goes(t, "done")
    /\ UNCHANGED cache

Served(t, answer) ==
    Becomes(t, [calls[t] EXCEPT !.pc = "done", !.answer = answer,
                                !.age = now - answer.at])

KeyOf(t) == CacheKey(calls[t].named, calls[t].query)

\* Entries stay for good.
BadFresh(entry) == entry.ts <= now

Fresh(entry) == now - entry.ts < TTL

\* _cache_get.  An entry past its time is removed in a second step: another
\* thread may have removed it, or replaced it, in between.
Lookup(t) ==
    /\ calls[t].pc = "lookup"
    /\ IF KeyOf(t) \notin DOMAIN cache
       THEN Goes(t, "read")
       ELSE IF Fresh(cache[KeyOf(t)])
            THEN Served(t, cache[KeyOf(t)].data)
            ELSE Goes(t, "evict")
    /\ UNCHANGED cache

Evict(t) ==
    /\ calls[t].pc = "evict"
    /\ cache' = [k \in DOMAIN cache \ {KeyOf(t)} |-> cache[k]]
    /\ Goes(t, "read")

\* Odoo answers what the credentials of the call may see.
ReadMetadata(t) ==
    /\ calls[t].pc = "read"
    /\ Becomes(t, [calls[t] EXCEPT
                     !.pc = "store",
                     !.answer = [source |-> calls[t].client,
                                 query |-> calls[t].query, at |-> now]])
    /\ UNCHANGED cache

\* _cache_set
StoreMetadata(t) ==
    /\ calls[t].pc = "store"
    /\ cache' = [k \in DOMAIN cache \cup {KeyOf(t)} |->
                    IF k = KeyOf(t)
                    THEN [data |-> calls[t].answer, ts |-> now]
                    ELSE cache[k]]
    /\ Served(t, calls[t].answer)

\* An argument is refused, or Odoo cannot be reached or refuses.
CallFails(t) ==
    /\ calls[t].pc \in {"client", "read", "send"}
    /\ Ends(t)
    /\ UNCHANGED cache

FinishCall(t) ==
    /\ calls[t].pc = "done"
    /\ Ends(t)
    /\ UNCHANGED cache

\* An answer reaches the cache within the timeout of the connection.
Tick ==
    /\ now < MaxTime
    /\ \A t \in Call : calls[t].pc = "store" => now - calls[t].answer.at < Delay
    /\ now' = now + 1
    /\ UNCHANGED <<profileVars, up, remote, fallback, calls, cache>>

-----------------------------------------------------------------------------

CallBegins(t) ==
    \E tool \in Tool, user \in User \cup {NoUser}, named \in Name \cup {NoName},
       query \in Query \cup {NoQuery} : StartCall(t, tool, user, named, query)

CallGoesOn(t) ==
    \/ CheckTool(t)
    \/ CheckOperation(t)
    \/ GetClient(t)
    \/ GetVersion(t)
    \/ Send(t)
    \/ Lookup(t)
    \/ Evict(t)
    \/ ReadMetadata(t)
    \/ StoreMetadata(t)
    \/ CallFails(t)
    \/ FinishCall(t)

Next ==
    \/ ProfilesNext /\ UNCHANGED callVars
    \/ \E named \in Name \cup {NoName}, oauth \in Modes :
            StartServer(named, oauth)
    \/ StopServer
    \/ \E t \in Call : CallBegins(t) \/ CallGoesOn(t)
    \/ Tick

Spec == Init /\ [][Next]_vars
==============================================================================
