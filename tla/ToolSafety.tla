----------------------------- MODULE ToolSafety ------------------------------
(***************************************************************************)
(* What the caller of a tool is guaranteed.                                *)
(***************************************************************************)
EXTENDS ToolCalls

\* A call got its result: the operation went to Odoo, or an answer came back.
Done(t) == calls[t].pc = "done"

CallersOwn(call) == call.client = UserProfile[call.user].settings

\* With OAuth every call but that of get_version works with the credentials of
\* the user who makes it, whatever profile it names, whatever the commands do
\* to profiles.json, and whatever server ran before (resolve_active_profile).
ActsAsCaller ==
    remote => \A t \in Call :
        (Done(t) /\ calls[t].tool # "version") => CallersOwn(calls[t])

\* "every tool call runs as that Odoo user", and "`profiles.json` is not used
\* in this mode" (docs/http-mode.md).
EveryCallActsAsCaller ==
    remote => \A t \in Call : Done(t) => CallersOwn(calls[t])

\* Without OAuth, a call that names no profile works with the one the server
\* was started with, if there was one, however profiles.json has changed since;
\* and what that profile does not permit is not done (check_permission).
FallbackServes ==
    \A t \in Call :
        (/\ Done(t)
         /\ ~ remote
         /\ fallback # NoSettings
         /\ calls[t].named = NoName)
            => /\ calls[t].client = fallback
               /\ calls[t].tool # "version" => fallback \in Granting

\* Metadata that a call gets is what it asked for, and what Odoo shows to the
\* credentials that the call works with (_cache_key).
AnswersAreOwn ==
    \A t \in Call :
        (Done(t) /\ calls[t].tool = "metadata")
            => /\ calls[t].answer.source = calls[t].client
               /\ calls[t].answer.query = calls[t].query

\* No answer is older than the cache's lifetime and the time it took to get
\* there: entries are stamped when they are stored, which is later than when
\* Odoo answered, and late answers replace earlier ones (_cache_get, _cache_set).
AnswersAreFresh == \A t \in Call : Done(t) => calls[t].age < TTL + Delay

-----------------------------------------------------------------------------
(* The invariant behind these properties.                                  *)

\* The call has its client, and what follows works with it.
HasClient(call) ==
    \/ call.pc \in {"lookup", "evict", "read", "store", "done"}
    \/ call.pc = "send" /\ call.tool # "version"

\* The call has passed a permission check.
WasChecked(call) ==
    call.tool # "version" /\ (call.pc \in {"op", "client"} \/ HasClient(call))

\* The call is served by the profile that the server was started with.
OnFallback(call) ==
    ~ remote /\ fallback # NoSettings /\ call.named = NoName

\* A user makes the call, and its client is that user's.
CallerKnown(call) ==
    (remote /\ call.pc # "idle")
        => /\ call.user \in User
           /\ (HasClient(call) /\ call.tool # "version")
                => CallersOwn(call)

FallbackKnown(call) ==
    OnFallback(call)
        => /\ HasClient(call) => call.client = fallback
           /\ WasChecked(call) => fallback \in Granting

\* An answer on its way to the cache, and one that has come back.
AgeKnown(call) ==
    /\ call.pc = "store"
        => call.answer.at <= now /\ now - call.answer.at <= Delay
    /\ call.age < TTL + Delay

CallKnown(call) ==
    /\ ~ up => call.pc = "idle"
    /\ call.pc # "idle" => call.tool \in Tool
    /\ call.tool = "metadata" => call.query # NoQuery
    /\ call.pc \in {"lookup", "evict", "read", "store"} => call.tool = "metadata"
    /\ CallerKnown(call)
    /\ FallbackKnown(call)
    /\ AgeKnown(call)

EntryKnown(entry) ==
    /\ entry.data.at <= entry.ts
    /\ entry.ts - entry.data.at <= Delay
    /\ entry.ts <= now

CallsInductive ==
    /\ CallsTypeOK
    /\ \A t \in Call : CallKnown(calls[t])
    /\ \A k \in DOMAIN cache : EntryKnown(cache[k])

\* Without users and without commands every name stands for one profile as
\* long as the server runs: calls and cache hold what that profile may see.
OwnCall(call) ==
    call.tool = "metadata"
        => /\ HasClient(call) => call.client = Resolve(call.named)
           /\ call.pc \in {"store", "done"}
                => /\ call.answer.source = Resolve(call.named)
                   /\ call.answer.query = call.query

OwnEntry(key, entry) ==
    entry.data.source = Resolve(key[1]) /\ entry.data.query = key[2]

OwnInductive ==
    /\ ~ up => DOMAIN cache = {}
    /\ \A t \in Call : OwnCall(calls[t])
    /\ \A k \in DOMAIN cache : OwnEntry(k, cache[k])
==============================================================================
