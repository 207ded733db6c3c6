------------------------------ MODULE ToolProofs ------------------------------
(***************************************************************************)
(* Proofs about tool calls: types, whose credentials a call works with,    *)
(* and how old a cached answer may be.                                     *)
(***************************************************************************)
EXTENDS ToolSafety, ProfileProofs

\* Both invariants: a call resolves its profile from profiles.json.
Inv == ProfilesInductive /\ CallsInductive

-----------------------------------------------------------------------------
(* Which profile.                                                          *)

\* A profile that is resolved has settings, or is not there.
LEMMA ResolvedSettings ==
    ASSUME Inv, NEW named
    PROVE  Resolve(named) \in Settings \cup {NoSettings}
  <1>1. file.config \in Config
    BY DEF Inv, ProfilesInductive, ProfilesTypeOK
  <1>2. Found(named) \in Settings \cup {NoSettings}
    BY <1>1, SettingsFound DEF Found
  <1> QED
    BY <1>2 DEF Resolve, Inv, CallsInductive, CallsTypeOK

\* The same with the profile that a request comes with, which permits all.
LEMMA ActiveSettings ==
    ASSUME Inv, NEW call, remote => call.user \in User
    PROVE  /\ ResolveActive(call) \in Settings \cup {NoSettings}
           /\ (remote /\ ResolveActive(call) # NoSettings)
                => ResolveActive(call) = UserProfile[call.user].settings
           /\ OnFallback(call) => ResolveActive(call) = fallback
  <1>1. Resolve(call.named) \in Settings \cup {NoSettings}
    BY ResolvedSettings
  <1>2. remote => UserProfile[call.user].settings \in Settings
    BY RemoteAssumption, SettingsAssumption
  <1> QED
    BY <1>1, <1>2 DEF ResolveActive, Resolve, OnFallback

-----------------------------------------------------------------------------
(* One call takes a step.                                                  *)

\* The other calls keep what is known of them.
LEMMA CallMoves ==
    ASSUME CallsInductive, NEW t \in Call, NEW call \in CallState,
           CallKnown(call), Becomes(t, call)
    PROVE  /\ calls' \in [Call -> CallState]
           /\ \A u \in Call : CallKnown(calls[u])'
           /\ UNCHANGED <<up, remote, fallback, now>>
  <1>1. /\ calls' = [calls EXCEPT ![t] = call]
        /\ UNCHANGED <<up, remote, fallback, now>>
    BY DEF Becomes
  <1>2. calls \in [Call -> CallState] /\ \A u \in Call : CallKnown(calls[u])
    BY DEF CallsInductive, CallsTypeOK
  <1>3. \A u \in Call : calls'[u] = IF u = t THEN call ELSE calls[u]
    BY <1>1, <1>2
  <1>4. ASSUME NEW u \in Call
        PROVE  CallKnown(calls[u])'
    <2>1. CASE u = t
      BY <1>1, <1>3, <2>1
      DEF CallKnown, CallerKnown, FallbackKnown, AgeKnown, HasClient,
          WasChecked, OnFallback
    <2>2. CASE u # t
      <3>1. CallKnown(calls[u])
        BY <1>2
      <3>2. calls'[u] = calls[u]
        BY <1>3, <2>2
      <3> QED
        BY <1>1, <3>1, <3>2
        DEF CallKnown, CallerKnown, FallbackKnown, AgeKnown, HasClient,
            WasChecked, OnFallback
    <2> QED
      BY <2>1, <2>2
  <1> QED
    BY <1>1, <1>2, <1>3, <1>4

\* The cache stays as it is.
LEMMA CacheStays ==
    ASSUME CallsInductive, NEW t \in Call, NEW call \in CallState,
           CallKnown(call), Becomes(t, call), UNCHANGED cache
    PROVE  CallsInductive'
  <1>1. /\ calls' \in [Call -> CallState]
        /\ \A u \in Call : CallKnown(calls[u])'
        /\ UNCHANGED <<up, remote, fallback, now>>
    BY CallMoves
  <1> QED
    BY <1>1 DEF CallsInductive, CallsTypeOK, EntryKnown

\* A thread that serves no call.
LEMMA QuietIsKnown == Quiet \in CallState /\ CallKnown(Quiet)
  <1>1. NoAnswer \in Answer
    BY DEF NoAnswer, Answer
  <1>2. Quiet \in CallState
    BY <1>1 DEF Quiet, CallState
  <1>3. 0 < TTL + Delay
    BY TimeAssumption
  <1>4. Quiet.pc = "idle" /\ Quiet.tool = "none" /\ Quiet.age = 0
    BY DEF Quiet
  <1> QED
    BY <1>2, <1>3, <1>4
    DEF CallKnown, CallerKnown, FallbackKnown, AgeKnown, HasClient, WasChecked

\* A call that has its client goes on to something else that it waits for.
LEMMA GoesOnKnown ==
    ASSUME NEW call \in CallState, CallKnown(call), HasClient(call),
           NEW new \in CallState,
           new.pc \in {"lookup", "evict", "read", "store", "done"},
           new.tool = call.tool, new.user = call.user, new.named = call.named,
           new.query = call.query, new.client = call.client, AgeKnown(new),
           new.pc = "done" \/ call.pc \in {"lookup", "evict", "read"}
    PROVE  CallKnown(new)
  BY DEF CallKnown, CallerKnown, CallersOwn, FallbackKnown, HasClient,
         WasChecked, OnFallback

\* Every step of a call: whose client it gets, what it passes, and how old
\* its answer is.
LEMMA CallKeeps ==
    ASSUME Inv, NEW t \in Call, CallBegins(t) \/ CallGoesOn(t)
    PROVE  CallsInductive'
  <1> DEFINE call == calls[t]
  <1>0. CallsInductive /\ now \in Nat
    <2>1. CallsInductive /\ now \in 0 .. MaxTime
      BY DEF Inv, CallsInductive, CallsTypeOK
    <2> QED
      BY <2>1, TimeAssumption
  <1>1. /\ CallsInductive
        /\ calls \in [Call -> CallState]
        /\ call \in CallState
        /\ CallKnown(call)
        /\ DOMAIN cache \subseteq CacheKeys
        /\ \A k \in DOMAIN cache : cache[k] \in CacheEntry /\ EntryKnown(cache[k])
        /\ now \in Nat
    BY <1>0 DEF CallsInductive, CallsTypeOK
  <1> HIDE DEF call
  <1>2. ASSUME NEW tool \in Tool, NEW user \in User \cup {NoUser},
               NEW named \in Name \cup {NoName}, NEW query \in Query \cup {NoQuery},
               StartCall(t, tool, user, named, query)
        PROVE  CallsInductive'
    <2> DEFINE new == [Quiet EXCEPT
                         !.pc = IF tool = "version" THEN "send" ELSE "tool",
                         !.tool = tool, !.user = user, !.named = named,
                         !.query = query]
    <2>1. /\ up
          /\ remote => user \in User
          /\ query = NoQuery <=> tool # "metadata"
          /\ Becomes(t, new)
          /\ UNCHANGED cache
      BY <1>2 DEF StartCall
    <2>2. new \in CallState
      BY QuietIsKnown DEF Quiet, CallState
    <2>3. /\ new.pc = IF tool = "version" THEN "send" ELSE "tool"
          /\ new.tool = tool
          /\ new.user = user
          /\ new.query = query
          /\ new.age = 0
      BY DEF Quiet
    <2> HIDE DEF new
    <2>4. CallKnown(new)
      BY <2>1, <2>3, TimeAssumption
      DEF CallKnown, CallerKnown, FallbackKnown, AgeKnown, HasClient, WasChecked
    <2> QED
      BY <1>1, <2>1, <2>2, <2>4, CacheStays
  <1>3. ASSUME UNCHANGED cache, Ends(t)
        PROVE  CallsInductive'
    BY <1>1, <1>3, QuietIsKnown, CacheStays DEF Ends
  <1>4. ASSUME ~ Denied(call), call.pc \in {"tool", "op"},
               NEW pc \in {"op", "client"}, Goes(t, pc), UNCHANGED cache
        PROVE  CallsInductive'
    <2> DEFINE new == [call EXCEPT !.pc = pc]
    <2>1. Becomes(t, new)
      BY <1>4 DEF Goes, call
    <2>2. new \in CallState
      BY <1>1 DEF CallState
    <2>3. /\ new.pc \in {"op", "client"}
          /\ new.tool = call.tool
          /\ new.user = call.user
          /\ new.named = call.named
          /\ new.query = call.query
          /\ new.age = call.age
      BY <1>1 DEF CallState
    <2> HIDE DEF new
    <2>4. remote => call.user \in User
      BY <1>1, <1>4 DEF CallKnown, CallerKnown
    <2>5. OnFallback(call) => fallback \in Granting
      BY <2>4, <1>4, ActiveSettings DEF Denied, OnFallback
    <2>6. OnFallback(new) <=> OnFallback(call)
      BY <2>3 DEF OnFallback
    <2>7. CallKnown(new)
      BY <1>1, <1>4, <2>3, <2>5, <2>6
      DEF CallKnown, CallerKnown, FallbackKnown, AgeKnown, HasClient, WasChecked
    <2> QED
      BY <1>1, <1>4, <2>1, <2>2, <2>7, CacheStays
  <1>5. CASE CheckTool(t)
    BY <1>3, <1>4, <1>5 DEF CheckTool, call
  <1>6. CASE CheckOperation(t)
    BY <1>3, <1>4, <1>6 DEF CheckOperation, call
  <1>7. CASE GetClient(t)
    <2> DEFINE profile == ResolveActive(call)
    <2> DEFINE new == [call EXCEPT !.client = profile,
                                   !.pc = IF call.tool = "metadata"
                                          THEN "lookup" ELSE "send"]
    <2>1. CASE profile = NoSettings
      BY <1>3, <1>7, <2>1 DEF GetClient, call
    <2>2. CASE profile # NoSettings
      <3>1. Becomes(t, new) /\ UNCHANGED cache /\ call.pc = "client"
        BY <1>7, <2>2 DEF GetClient, call
      <3>2. remote => call.user \in User
        BY <1>1, <3>1 DEF CallKnown, CallerKnown
      <3>3. /\ profile \in Settings \cup {NoSettings}
            /\ remote => profile = UserProfile[call.user].settings
            /\ OnFallback(call) => profile = fallback
        BY <2>2, <3>2, ActiveSettings
      <3> HIDE DEF profile
      <3>4. new \in CallState
        BY <1>1, <3>3 DEF CallState
      <3>5. /\ new.pc \in {"lookup", "send"}
            /\ new.tool = call.tool
            /\ new.user = call.user
            /\ new.named = call.named
            /\ new.query = call.query
            /\ new.client = profile
            /\ new.age = call.age
            /\ new.pc = "lookup" => call.tool = "metadata"
        BY <1>1 DEF CallState
      <3> HIDE DEF new
      <3>6. OnFallback(new) <=> OnFallback(call)
        BY <3>5 DEF OnFallback
      <3>7. CallKnown(new)
        BY <1>1, <3>1, <3>2, <3>3, <3>5, <3>6
        DEF CallKnown, CallerKnown, CallersOwn, FallbackKnown, AgeKnown,
            HasClient, WasChecked
      <3> QED
        BY <1>1, <3>1, <3>4, <3>7, CacheStays
    <2> QED
      BY <2>1, <2>2
  <1>8. CASE GetVersion(t)
    <2> DEFINE profile == Resolve(call.named)
    <2> DEFINE new == [call EXCEPT !.client = profile, !.pc = "done"]
    <2>1. CASE profile = NoSettings
      BY <1>3, <1>8, <2>1 DEF GetVersion, call
    <2>2. CASE profile # NoSettings
      <3>1. /\ Becomes(t, new)
            /\ UNCHANGED cache
            /\ call.pc = "send"
            /\ call.tool = "version"
        BY <1>8, <2>2 DEF GetVersion, call
      <3>2. /\ profile \in Settings \cup {NoSettings}
            /\ OnFallback(call) => profile = fallback
        BY ResolvedSettings DEF Resolve, OnFallback
      <3> HIDE DEF profile
      <3>3. new \in CallState
        BY <1>1, <3>2 DEF CallState
      <3>4. /\ new.pc = "done"
            /\ new.tool = "version"
            /\ new.user = call.user
            /\ new.named = call.named
            /\ new.query = call.query
            /\ new.client = profile
            /\ new.age = call.age
        BY <1>1, <3>1 DEF CallState
      <3> HIDE DEF new
      <3>5. OnFallback(new) <=> OnFallback(call)
        BY <3>4 DEF OnFallback
      <3>6. CallKnown(new)
        BY <1>1, <3>1, <3>2, <3>4, <3>5
        DEF CallKnown, CallerKnown, FallbackKnown, AgeKnown, HasClient, WasChecked
      <3> QED
        BY <1>1, <3>1, <3>3, <3>6, CacheStays
    <2> QED
      BY <2>1, <2>2
  <1>9. CASE Send(t)
    <2> DEFINE new == [call EXCEPT !.pc = "done"]
    <2>1. /\ Becomes(t, new)
          /\ UNCHANGED cache
          /\ call.pc = "send"
          /\ call.tool = "operation"
      BY <1>9 DEF Send, Goes, call
    <2>2. new \in CallState
      BY <1>1 DEF CallState
    <2>3. /\ new.pc = "done"
          /\ new.tool = call.tool
          /\ new.user = call.user
          /\ new.named = call.named
          /\ new.query = call.query
          /\ new.client = call.client
          /\ new.age = call.age
      BY <1>1 DEF CallState
    <2> HIDE DEF new
    <2>4. HasClient(call) /\ AgeKnown(new)
      BY <1>1, <2>1, <2>3 DEF HasClient, AgeKnown, CallKnown
    <2>5. CallKnown(new)
      BY <1>1, <2>2, <2>3, <2>4, GoesOnKnown
    <2> QED
      BY <1>1, <2>1, <2>2, <2>5, CacheStays
  <1>10. ASSUME call.pc \in {"lookup", "evict"}, NEW pc \in {"read", "evict"},
                Goes(t, pc)
         PROVE  \E new \in CallState : CallKnown(new) /\ Becomes(t, new)
    <2> DEFINE new == [call EXCEPT !.pc = pc]
    <2>1. Becomes(t, new)
      BY <1>10 DEF Goes, call
    <2>2. new \in CallState
      BY <1>1 DEF CallState
    <2>3. /\ new.pc = pc
          /\ new.tool = call.tool
          /\ new.user = call.user
          /\ new.named = call.named
          /\ new.query = call.query
          /\ new.client = call.client
          /\ new.age = call.age
      BY <1>1 DEF CallState
    <2> HIDE DEF new
    <2>4. HasClient(call) /\ AgeKnown(new)
      BY <1>1, <1>10, <2>3 DEF HasClient, AgeKnown, CallKnown
    <2>5. CallKnown(new)
      BY <1>1, <1>10, <2>2, <2>3, <2>4, GoesOnKnown
    <2> QED
      BY <2>1, <2>2, <2>5
  <1>11. ASSUME NEW answer \in Answer, answer.at <= now,
                now - answer.at < TTL + Delay, HasClient(call),
                Served(t, answer)
         PROVE  \E new \in CallState : CallKnown(new) /\ Becomes(t, new)
    <2> DEFINE new == [call EXCEPT !.pc = "done", !.answer = answer,
                                   !.age = now - answer.at]
    <2>1. Becomes(t, new)
      BY <1>11 DEF Served, call
    <2>2. now - answer.at \in Nat
      BY <1>1, <1>11 DEF Answer
    <2>3. new \in CallState
      BY <1>1, <2>2 DEF CallState
    <2>4. /\ new.pc = "done"
          /\ new.tool = call.tool
          /\ new.user = call.user
          /\ new.named = call.named
          /\ new.query = call.query
          /\ new.client = call.client
          /\ new.age = now - answer.at
      BY <1>1 DEF CallState
    <2> HIDE DEF new
    <2>5. AgeKnown(new)
      BY <1>11, <2>4 DEF AgeKnown
    <2>6. CallKnown(new)
      BY <1>1, <1>11, <2>3, <2>4, <2>5, GoesOnKnown
    <2> QED
      BY <2>1, <2>3, <2>6
  <1>12. CASE Lookup(t)
    <2>1. call.pc = "lookup" /\ UNCHANGED cache
      BY <1>12 DEF Lookup, call
    <2>2. CASE Goes(t, "read") \/ Goes(t, "evict")
      BY <1>1, <1>10, <2>1, <2>2, CacheStays
    <2>3. CASE ~ (Goes(t, "read") \/ Goes(t, "evict"))
      <3> DEFINE entry == cache[KeyOf(t)]
      <3>1. /\ KeyOf(t) \in DOMAIN cache
            /\ Fresh(entry)
            /\ Served(t, entry.data)
        BY <1>12, <2>3 DEF Lookup
      <3>2. entry \in CacheEntry /\ EntryKnown(entry)
        BY <1>1, <3>1
      <3> HIDE DEF entry
      <3>3. entry.data \in Answer /\ entry.data.at \in Nat /\ entry.ts \in Nat
        BY <3>2 DEF CacheEntry, Answer
      <3>4. entry.data.at <= now /\ now - entry.data.at < TTL + Delay
        BY <1>1, <3>1, <3>2, <3>3, TimeAssumption DEF EntryKnown, Fresh
      <3>5. HasClient(call)
        BY <2>1 DEF HasClient
      <3> QED
        BY <1>1, <1>11, <2>1, <3>1, <3>3, <3>4, <3>5, CacheStays
    <2> QED
      BY <2>2, <2>3
  <1>13. CASE Evict(t)
    <2>1. /\ call.pc = "evict"
          /\ Goes(t, "read")
          /\ cache' = [k \in DOMAIN cache \ {KeyOf(t)} |-> cache[k]]
      BY <1>13 DEF Evict, call
    <2>2. PICK new \in CallState : CallKnown(new) /\ Becomes(t, new)
      BY <1>10, <2>1
    <2>3. /\ calls' \in [Call -> CallState]
          /\ \A u \in Call : CallKnown(calls[u])'
          /\ UNCHANGED <<up, remote, fallback, now>>
      BY <1>1, <2>2, CallMoves
    <2>4. /\ DOMAIN cache' \subseteq DOMAIN cache
          /\ \A k \in DOMAIN cache' : cache'[k] = cache[k]
      BY <2>1
    <2> QED
      BY <1>1, <2>3, <2>4 DEF CallsInductive, CallsTypeOK, EntryKnown
  <1>14. CASE ReadMetadata(t)
    <2> DEFINE answer == [source |-> call.client, query |-> call.query,
                          at |-> now]
    <2> DEFINE new == [call EXCEPT !.pc = "store", !.answer = answer]
    <2>1. /\ call.pc = "read"
          /\ Becomes(t, new)
          /\ UNCHANGED cache
      BY <1>14 DEF ReadMetadata, call
    <2>2. answer \in Answer /\ answer.at = now
      BY <1>1 DEF CallState, Answer
    <2> HIDE DEF answer
    <2>3. new \in CallState
      BY <1>1, <2>2 DEF CallState
    <2>4. /\ new.pc = "store"
          /\ new.tool = call.tool
          /\ new.user = call.user
          /\ new.named = call.named
          /\ new.query = call.query
          /\ new.client = call.client
          /\ new.age = call.age
          /\ new.answer = answer
      BY <1>1 DEF CallState
    <2> HIDE DEF new
    <2>5. AgeKnown(new)
      BY <1>1, <2>2, <2>4, TimeAssumption DEF AgeKnown, CallKnown
    <2>6. CallKnown(new)
      BY <1>1, <2>1, <2>3, <2>4, <2>5, GoesOnKnown DEF HasClient
    <2> QED
      BY <1>1, <2>1, <2>3, <2>6, CacheStays
  <1>15. CASE StoreMetadata(t)
    <2> DEFINE answer == call.answer
    <2> DEFINE entry == [data |-> answer, ts |-> now]
    <2> DEFINE key == KeyOf(t)
    <2>1. /\ call.pc = "store"
          /\ Served(t, answer)
          /\ cache' = [k \in DOMAIN cache \cup {key} |->
                        IF k = key THEN entry ELSE cache[k]]
      BY <1>15 DEF StoreMetadata, call
    <2>2. /\ answer \in Answer
          /\ answer.at \in Nat
          /\ answer.at <= now
          /\ now - answer.at <= Delay
      BY <1>1, <2>1 DEF CallState, Answer, CallKnown, AgeKnown
    <2>3. key \in CacheKeys
      <3>1. call.query \in Query
        BY <1>1, <2>1 DEF CallKnown, CallState
      <3>2. key = <<call.named, call.query>>
        BY DEF KeyOf, CacheKey, call
      <3>3. call.named \in Name \cup {NoName}
        BY <1>1 DEF CallState
      <3> QED
        BY <3>1, <3>2, <3>3 DEF CacheKeys
    <2> HIDE DEF answer, key
    <2>4. now - answer.at < TTL + Delay
      BY <1>1, <2>2, TimeAssumption
    <2>5. PICK new \in CallState : CallKnown(new) /\ Becomes(t, new)
      BY <1>11, <2>1, <2>2, <2>4 DEF HasClient
    <2>6. /\ calls' \in [Call -> CallState]
          /\ \A u \in Call : CallKnown(calls[u])'
          /\ UNCHANGED <<up, remote, fallback, now>>
      BY <1>1, <2>5, CallMoves
    <2>7. entry \in CacheEntry /\ EntryKnown(entry)
      BY <1>1, <2>2 DEF CacheEntry, EntryKnown
    <2> HIDE DEF entry
    <2>8. /\ DOMAIN cache' \subseteq CacheKeys
          /\ \A k \in DOMAIN cache' :
                cache'[k] \in CacheEntry /\ EntryKnown(cache'[k])
      BY <1>1, <2>1, <2>3, <2>7
    <2> QED
      BY <1>1, <2>6, <2>8 DEF CallsInductive, CallsTypeOK, EntryKnown
  <1>16. CASE CallFails(t)
    BY <1>3, <1>16 DEF CallFails
  <1>17. CASE FinishCall(t)
    BY <1>3, <1>17 DEF FinishCall
  <1> QED
    BY <1>2, <1>5, <1>6, <1>7, <1>8, <1>9, <1>12, <1>13, <1>14, <1>15, <1>16,
       <1>17 DEF CallBegins, CallGoesOn

-----------------------------------------------------------------------------
(* The server, the clock, and the theorems.                                *)

\* The server starts and stops, the clock ticks, and profiles.json changes.
LEMMA ServerKeeps ==
    ASSUME Inv,
           \/ \E named \in Name \cup {NoName}, oauth \in Modes :
                StartServer(named, oauth)
           \/ StopServer
           \/ Tick
           \/ UNCHANGED callVars
    PROVE  CallsInductive'
  <1>1. /\ calls \in [Call -> CallState]
        /\ \A t \in Call : calls[t] \in CallState /\ CallKnown(calls[t])
        /\ DOMAIN cache \subseteq CacheKeys
        /\ \A k \in DOMAIN cache : cache[k] \in CacheEntry /\ EntryKnown(cache[k])
        /\ now \in 0 .. MaxTime
        /\ up \in BOOLEAN
        /\ fallback \in Settings \cup {NoSettings}
        /\ remote \in Modes \cup {FALSE}
    BY DEF Inv, CallsInductive, CallsTypeOK
  <1>2. ASSUME NEW named \in Name \cup {NoName}, NEW oauth \in Modes,
               StartServer(named, oauth)
        PROVE  CallsInductive'
    <2>1. /\ ~ up
          /\ up' = TRUE /\ remote' \in Modes
          /\ UNCHANGED <<calls, cache, now>>
      BY <1>2 DEF StartServer
    <2>2. fallback' \in Settings \cup {NoSettings}
      <3>1. file.config \in Config
        BY DEF Inv, ProfilesInductive, ProfilesTypeOK
      <3>2. Found(named) \in Settings \cup {NoSettings}
        BY <3>1, SettingsFound DEF Found
      <3> QED
        BY <1>2, <3>2 DEF StartServer
    <2>3. \A t \in Call : CallKnown(calls[t])'
      <3> TAKE t \in Call
      <3>1. calls[t].pc = "idle" /\ AgeKnown(calls[t])
        BY <1>1, <2>1 DEF CallKnown
      <3>2. CallKnown(calls[t])
        BY <1>1
      <3> QED
        BY <2>1, <3>1, <3>2
        DEF CallKnown, CallerKnown, FallbackKnown, AgeKnown, HasClient,
            WasChecked
    <2> QED
      BY <1>1, <2>1, <2>2, <2>3 DEF CallsInductive, CallsTypeOK, EntryKnown
  <1>3. CASE StopServer
    <2>1. /\ up' = FALSE
          /\ remote' = FALSE
          /\ fallback' = NoSettings
          /\ calls' = [t \in Call |-> Quiet]
          /\ DOMAIN cache' = {}
          /\ now' = now
      BY <1>3 DEF StopServer
    <2>2. \A t \in Call : CallKnown(calls[t])'
      <3>1. \A t \in Call : calls'[t] = Quiet
        BY <2>1
      <3>2. /\ Quiet.pc = "idle"
            /\ Quiet.tool = "none"
            /\ Quiet.age = 0
        BY DEF Quiet
      <3> HIDE DEF Quiet
      <3>3. 0 < TTL + Delay
        BY TimeAssumption
      <3> QED
        BY <3>1, <3>2, <3>3
        DEF CallKnown, CallerKnown, FallbackKnown, AgeKnown, HasClient,
            WasChecked
    <2> QED
      BY <1>1, <2>1, <2>2, QuietIsKnown DEF CallsInductive, CallsTypeOK
  <1>4. CASE Tick
    <2>1. /\ now < MaxTime
          /\ \A t \in Call :
               calls[t].pc = "store" => now - calls[t].answer.at < Delay
          /\ now' = now + 1
          /\ UNCHANGED <<up, remote, fallback, calls, cache>>
      BY <1>4 DEF Tick
    <2>2. \A t \in Call : CallKnown(calls[t])'
      <3> TAKE t \in Call
      <3>1. calls[t].answer.at \in Nat
        BY <1>1 DEF CallState, Answer
      <3>2. CallKnown(calls[t])
        BY <1>1
      <3>3. AgeKnown(calls[t])'
        BY <1>1, <2>1, <3>1, <3>2, TimeAssumption DEF CallKnown, AgeKnown
      <3> QED
        BY <2>1, <3>2, <3>3
        DEF CallKnown, CallerKnown, FallbackKnown, HasClient, WasChecked,
            OnFallback
    <2>3. \A k \in DOMAIN cache : EntryKnown(cache[k])'
      <3> TAKE k \in DOMAIN cache
      <3>1. EntryKnown(cache[k]) /\ cache[k].ts \in Nat
        BY <1>1 DEF CacheEntry
      <3> QED
        BY <1>1, <2>1, <3>1 DEF EntryKnown
    <2>4. now' \in 0 .. MaxTime
      BY <1>1, <2>1, TimeAssumption
    <2> QED
      BY <1>1, <2>1, <2>2, <2>3, <2>4 DEF CallsInductive, CallsTypeOK
  <1>5. CASE UNCHANGED callVars
    BY <1>5
    DEF Inv, CallsInductive, CallsTypeOK, CallKnown, CallerKnown,
        FallbackKnown, AgeKnown, HasClient, WasChecked, OnFallback,
        EntryKnown, callVars
  <1> QED
    BY <1>2, <1>3, <1>4, <1>5

\* Steps of the server and of calls leave the commands as they were; a stop
\* of the server only counts as one of the kills.
LEMMA CommandsUntouched ==
    ASSUME ProfilesInductive,
           \/ \E named \in Name \cup {NoName}, oauth \in Modes :
                StartServer(named, oauth)
           \/ StopServer
           \/ \E t \in Call : CallBegins(t) \/ CallGoesOn(t)
           \/ Tick
    PROVE  ProfilesInductive'
  <1>1. CASE StopServer
    <2>1. UNCHANGED <<file, cmd, told, overlapped>> /\ killed' \in 0 .. MaxFaults
      BY <1>1, FaultsAssumption
      DEF StopServer, ProfilesInductive, ProfilesTypeOK
    <2> QED
      BY <2>1
      DEF ProfilesInductive, ProfilesTypeOK, Sound, KeysDistinct, HasDefault,
          Keys, JobKnown
  <1>2. CASE ~ StopServer
    <2>1. UNCHANGED profileVars
      BY <1>2
      DEF StartServer, Tick, CallBegins, CallGoesOn, StartCall, CheckTool,
          CheckOperation, GetClient, GetVersion, Send, Lookup, Evict,
          ReadMetadata, StoreMetadata, CallFails, FinishCall, Goes, Ends,
          Served, Becomes
    <2> QED
      BY <2>1, ProfilesStutter
  <1> QED
    BY <1>1, <1>2

\* Every step keeps both invariants.
LEMMA NextKeeps == Inv /\ [Next]_vars => Inv'
  <1> SUFFICES ASSUME Inv, [Next]_vars
               PROVE  Inv'
    OBVIOUS
  <1>1. CASE ProfilesNext /\ UNCHANGED callVars
    <2>1. ProfilesInductive'
      BY <1>1, CommandKeeps DEF ProfilesNext, Inv
    <2> QED
      BY <1>1, <2>1, ServerKeeps DEF Inv
  <1>2. CASE \E t \in Call : CallBegins(t) \/ CallGoesOn(t)
    BY <1>2, CallKeeps, CommandsUntouched DEF Inv
  <1>3. CASE \/ \E named \in Name \cup {NoName}, oauth \in Modes :
                StartServer(named, oauth)
             \/ StopServer
             \/ Tick
    BY <1>3, ServerKeeps, CommandsUntouched DEF Inv
  <1>4. CASE UNCHANGED vars
    <2>1. UNCHANGED profileVars /\ UNCHANGED callVars
      BY <1>4 DEF vars, profileVars, callVars
    <2> QED
      BY <2>1, ProfilesStutter, ServerKeeps DEF Inv
  <1> QED
    BY <1>1, <1>2, <1>3, <1>4 DEF Next

\* The server has not been started, and nothing is cached.
LEMMA InitHolds == Init => Inv
  <1> SUFFICES ASSUME Init
               PROVE  Inv
    OBVIOUS
  <1>1. ProfilesInductive
    BY ProfilesInitSound DEF Init
  <1>2. /\ up = FALSE
        /\ remote = FALSE
        /\ fallback = NoSettings
        /\ calls = [t \in Call |-> Quiet]
        /\ DOMAIN cache = {}
        /\ now \in 0 .. MaxTime
    BY TimeAssumption DEF Init
  <1>3. \A t \in Call : calls[t] = Quiet
    BY <1>2
  <1> QED
    BY <1>1, <1>2, <1>3, QuietIsKnown DEF Inv, CallsInductive, CallsTypeOK

\* Types, callers, fallback and ages are as CallsInductive says in every
\* state of the server, for any number of calls, commands and users.
THEOREM CallsAreKnown == Spec => [](ProfilesInductive /\ CallsInductive)
  BY InitHolds, NextKeeps, PTL DEF Spec, Inv

\* Every variable of the server keeps its type.
THEOREM CallsTypes == Spec => []CallsTypeOK
  <1>1. CallsInductive => CallsTypeOK
    BY DEF CallsInductive
  <1> QED
    BY <1>1, CallsAreKnown, PTL

\* With OAuth a call of any tool but get_version works with the credentials
\* of the user who makes it, for any users, profiles and commands
\* (resolve_active_profile).
THEOREM CallersOwnCredentials == Spec => []ActsAsCaller
  <1>1. CallsInductive => ActsAsCaller
    BY DEF CallsInductive, CallKnown, CallerKnown, HasClient, ActsAsCaller,
           Done
  <1> QED
    BY <1>1, CallsAreKnown, PTL

\* A call without a profile works with the one the server was started with,
\* and within its permissions (resolve_profile, check_permission).
THEOREM FallbackStaysInUse == Spec => []FallbackServes
  <1>1. CallsInductive => FallbackServes
    BY DEF CallsInductive, CallKnown, FallbackKnown, OnFallback, HasClient,
           WasChecked, FallbackServes, Done
  <1> QED
    BY <1>1, CallsAreKnown, PTL

\* However calls interleave, an answer is younger than the cache's lifetime
\* and the longest time an answer takes to get there (_cache_get).
THEOREM AnswersStayFresh == Spec => []AnswersAreFresh
  <1>1. CallsInductive => AnswersAreFresh
    BY DEF CallsInductive, CallKnown, AgeKnown, AnswersAreFresh
  <1> QED
    BY <1>1, CallsAreKnown, PTL

-----------------------------------------------------------------------------
(* Whose answers the cache holds, where names do not change their meaning.  *)

\* A call takes a step while every name keeps its profile.
LEMMA OwnCallKeeps ==
    ASSUME ~ remote, Inv, OwnInductive, NEW t \in Call,
           CallBegins(t) \/ CallGoesOn(t)
    PROVE  OwnInductive'
  <1> DEFINE call == calls[t]
  <1>1. /\ calls \in [Call -> CallState]
        /\ call \in CallState
        /\ CallKnown(call)
        /\ OwnCall(call)
        /\ \A k \in DOMAIN cache : OwnEntry(k, cache[k])
    BY DEF Inv, CallsInductive, CallsTypeOK, OwnInductive
  <1>2. up
    BY <1>1
    DEF CallBegins, CallGoesOn, StartCall, CheckTool, CheckOperation,
        GetClient, GetVersion, Send, Lookup, Evict, ReadMetadata,
        StoreMetadata, CallFails, FinishCall, CallKnown
  <1> HIDE DEF call
  <1>3. ASSUME NEW new, Becomes(t, new)
        PROVE  /\ up'
               /\ \A u \in Call : calls'[u] = IF u = t THEN new ELSE calls[u]
               /\ \A n : Resolve(n)' = Resolve(n)
    BY <1>1, <1>2, <1>3
    DEF Becomes, Resolve, Found, profileVars, Readable
  <1>4. ASSUME NEW new, Becomes(t, new), OwnCall(new)
        PROVE  /\ up'
               /\ \A u \in Call : OwnCall(calls[u])'
               /\ \A k, entry : OwnEntry(k, entry) => OwnEntry(k, entry)'
    <2>1. /\ up'
          /\ \A u \in Call : calls'[u] = IF u = t THEN new ELSE calls[u]
          /\ \A n : Resolve(n)' = Resolve(n)
      BY <1>3, <1>4
    <2>2. \A u \in Call : OwnCall(calls[u])
      BY DEF OwnInductive
    <2> QED
      BY <1>4, <2>1, <2>2 DEF OwnCall, OwnEntry, HasClient
  <1>5. ASSUME NEW new, Becomes(t, new), OwnCall(new), UNCHANGED cache
        PROVE  OwnInductive'
    BY <1>1, <1>4, <1>5 DEF OwnInductive
  <1>6. ASSUME Ends(t), UNCHANGED cache
        PROVE  OwnInductive'
    <2>1. OwnCall(Quiet)
      BY DEF OwnCall, Quiet
    <2> QED
      BY <1>5, <1>6, <2>1 DEF Ends
  <1>7. ASSUME NEW pc \in {"op", "client"}, Goes(t, pc), UNCHANGED cache
        PROVE  OwnInductive'
    <2> DEFINE new == [call EXCEPT !.pc = pc]
    <2>1. new.pc = pc
      BY <1>1 DEF CallState
    <2>2. Becomes(t, new)
      BY <1>7 DEF Goes, call
    <2> HIDE DEF new
    <2>3. OwnCall(new)
      BY <1>7, <2>1 DEF OwnCall, HasClient
    <2> QED
      BY <1>5, <1>7, <2>2, <2>3
  <1>8. ASSUME NEW pc \in {"read", "evict"}, Goes(t, pc),
               call.pc \in {"lookup", "evict"}
        PROVE  \E new : Becomes(t, new) /\ OwnCall(new)
    <2> DEFINE new == [call EXCEPT !.pc = pc]
    <2>1. /\ new.pc = pc
          /\ new.tool = call.tool
          /\ new.named = call.named
          /\ new.client = call.client
      BY <1>1 DEF CallState
    <2>2. Becomes(t, new)
      BY <1>8 DEF Goes, call
    <2> HIDE DEF new
    <2>3. OwnCall(new)
      BY <1>1, <1>8, <2>1 DEF OwnCall, HasClient
    <2> QED
      BY <2>2, <2>3
  <1>9. ASSUME NEW answer, Served(t, answer), HasClient(call),
               answer.source = Resolve(call.named), answer.query = call.query
        PROVE  \E new : Becomes(t, new) /\ OwnCall(new)
    <2> DEFINE new == [call EXCEPT !.pc = "done", !.answer = answer,
                                   !.age = now - answer.at]
    <2>1. /\ new.tool = call.tool
          /\ new.named = call.named
          /\ new.query = call.query
          /\ new.client = call.client
          /\ new.answer = answer
      BY <1>1 DEF CallState
    <2>2. Becomes(t, new)
      BY <1>9 DEF Served, call
    <2> HIDE DEF new
    <2>3. OwnCall(new)
      BY <1>1, <1>9, <2>1 DEF OwnCall
    <2> QED
      BY <2>2, <2>3
  <1>10. KeyOf(t) = <<call.named, call.query>>
    BY DEF KeyOf, CacheKey, call
  <1>11. ASSUME NEW tool \in Tool, NEW user, NEW named, NEW query,
                StartCall(t, tool, user, named, query)
         PROVE  OwnInductive'
    <2> DEFINE new == [Quiet EXCEPT
                         !.pc = IF tool = "version" THEN "send" ELSE "tool",
                         !.tool = tool, !.user = user, !.named = named,
                         !.query = query]
    <2>1. /\ new.tool = tool
          /\ new.pc = IF tool = "version" THEN "send" ELSE "tool"
      BY DEF Quiet
    <2>2. Becomes(t, new) /\ UNCHANGED cache
      BY <1>11 DEF StartCall
    <2> HIDE DEF new
    <2>3. OwnCall(new)
      BY <2>1 DEF OwnCall, HasClient
    <2> QED
      BY <1>5, <2>2, <2>3
  <1>12. CASE CheckTool(t) \/ CheckOperation(t)
    BY <1>6, <1>7, <1>12 DEF CheckTool, CheckOperation
  <1>13. CASE GetClient(t)
    <2> DEFINE profile == ResolveActive(call)
    <2> DEFINE new == [call EXCEPT !.client = profile,
                                   !.pc = IF call.tool = "metadata"
                                          THEN "lookup" ELSE "send"]
    <2>1. CASE profile = NoSettings
      BY <1>6, <1>13, <2>1 DEF GetClient, call
    <2>2. CASE profile # NoSettings
      <3>1. Becomes(t, new) /\ UNCHANGED cache
        BY <1>13, <2>2 DEF GetClient, call
      <3>2. profile = Resolve(call.named)
        BY DEF ResolveActive
      <3> HIDE DEF profile
      <3>3. /\ new.pc \in {"lookup", "send"}
            /\ new.named = call.named
            /\ new.client = profile
        BY <1>1 DEF CallState
      <3> HIDE DEF new
      <3>4. OwnCall(new)
        BY <3>2, <3>3 DEF OwnCall
      <3> QED
        BY <1>5, <3>1, <3>4
    <2> QED
      BY <2>1, <2>2
  <1>14. CASE GetVersion(t)
    <2> DEFINE profile == Resolve(call.named)
    <2> DEFINE new == [call EXCEPT !.client = profile, !.pc = "done"]
    <2>1. CASE profile = NoSettings
      BY <1>6, <1>14, <2>1 DEF GetVersion, call
    <2>2. CASE profile # NoSettings
      <3>1. /\ Becomes(t, new)
            /\ UNCHANGED cache
            /\ call.tool = "version"
        BY <1>14, <2>2 DEF GetVersion, call
      <3>2. new.tool = call.tool
        BY <1>1 DEF CallState
      <3> HIDE DEF new
      <3> QED
        BY <1>5, <3>1, <3>2 DEF OwnCall
    <2> QED
      BY <2>1, <2>2
  <1>15. CASE Send(t)
    <2> DEFINE new == [call EXCEPT !.pc = "done"]
    <2>1. /\ Becomes(t, new)
          /\ UNCHANGED cache
          /\ call.tool = "operation"
      BY <1>15 DEF Send, Goes, call
    <2>2. new.tool = call.tool
      BY <1>1 DEF CallState
    <2> HIDE DEF new
    <2> QED
      BY <1>5, <2>1, <2>2 DEF OwnCall
  <1>16. CASE Lookup(t)
    <2>1. call.pc = "lookup" /\ UNCHANGED cache
      BY <1>16 DEF Lookup, call
    <2>2. CASE Goes(t, "read") \/ Goes(t, "evict")
      BY <1>5, <1>8, <2>1, <2>2
    <2>3. CASE ~ (Goes(t, "read") \/ Goes(t, "evict"))
      <3>1. KeyOf(t) \in DOMAIN cache /\ Served(t, cache[KeyOf(t)].data)
        BY <1>16, <2>3 DEF Lookup
      <3>2. OwnEntry(KeyOf(t), cache[KeyOf(t)])
        BY <1>1, <3>1
      <3>3. /\ cache[KeyOf(t)].data.source = Resolve(call.named)
            /\ cache[KeyOf(t)].data.query = call.query
        BY <1>10, <3>2 DEF OwnEntry
      <3> QED
        BY <1>5, <1>9, <2>1, <3>1, <3>3 DEF HasClient
    <2> QED
      BY <2>2, <2>3
  <1>17. CASE Evict(t)
    <2>1. /\ call.pc = "evict"
          /\ Goes(t, "read")
          /\ cache' = [k \in DOMAIN cache \ {KeyOf(t)} |-> cache[k]]
      BY <1>17 DEF Evict, call
    <2>2. /\ up'
          /\ \A u \in Call : OwnCall(calls[u])'
          /\ \A k, entry : OwnEntry(k, entry) => OwnEntry(k, entry)'
      <3>1. PICK new : Becomes(t, new) /\ OwnCall(new)
        BY <1>8, <2>1
      <3> QED
        BY <1>4, <3>1
    <2>3. /\ DOMAIN cache' \subseteq DOMAIN cache
          /\ \A k \in DOMAIN cache' : cache'[k] = cache[k]
      BY <2>1
    <2>4. \A k \in DOMAIN cache' : OwnEntry(k, cache[k])'
      BY <1>1, <2>2, <2>3
    <2> QED
      BY <2>2, <2>4 DEF OwnInductive
  <1>18. CASE ReadMetadata(t)
    <2> DEFINE answer == [source |-> call.client, query |-> call.query,
                          at |-> now]
    <2> DEFINE new == [call EXCEPT !.pc = "store", !.answer = answer]
    <2>1. call.pc = "read" /\ Becomes(t, new) /\ UNCHANGED cache
      BY <1>18 DEF ReadMetadata, call
    <2>2. answer.source = call.client /\ answer.query = call.query
      OBVIOUS
    <2> HIDE DEF answer
    <2>3. /\ new.tool = call.tool
          /\ new.named = call.named
          /\ new.query = call.query
          /\ new.client = call.client
          /\ new.answer = answer
      BY <1>1 DEF CallState
    <2> HIDE DEF new
    <2>4. OwnCall(new)
      BY <1>1, <2>1, <2>2, <2>3 DEF OwnCall, HasClient
    <2> QED
      BY <1>5, <2>1, <2>4
  <1>19. CASE StoreMetadata(t)
    <2> DEFINE entry == [data |-> call.answer, ts |-> now]
    <2> DEFINE key == KeyOf(t)
    <2>1. /\ call.pc = "store"
          /\ Served(t, call.answer)
          /\ cache' = [k \in DOMAIN cache \cup {key} |->
                        IF k = key THEN entry ELSE cache[k]]
      BY <1>19 DEF StoreMetadata, call
    <2>2. /\ call.answer.source = Resolve(call.named)
          /\ call.answer.query = call.query
      BY <1>1, <2>1 DEF CallKnown, OwnCall
    <2>3. /\ up'
          /\ \A u \in Call : OwnCall(calls[u])'
          /\ \A k, e : OwnEntry(k, e) => OwnEntry(k, e)'
      <3>1. PICK new : Becomes(t, new) /\ OwnCall(new)
        BY <1>9, <2>1, <2>2 DEF HasClient
      <3> QED
        BY <1>4, <3>1
    <2>4. OwnEntry(key, entry)
      BY <1>10, <2>2 DEF OwnEntry
    <2> HIDE DEF entry, key
    <2>5. \A k \in DOMAIN cache' :
            \/ k = key /\ cache'[k] = entry
            \/ k \in DOMAIN cache /\ cache'[k] = cache[k]
      BY <2>1
    <2>6. \A k \in DOMAIN cache' : OwnEntry(k, cache[k])'
      BY <1>1, <2>3, <2>4, <2>5
    <2> QED
      BY <2>3, <2>6 DEF OwnInductive
  <1>20. CASE CallFails(t) \/ FinishCall(t)
    BY <1>6, <1>20 DEF CallFails, FinishCall
  <1> QED
    BY <1>11, <1>12, <1>13, <1>14, <1>15, <1>16, <1>17, <1>18, <1>19, <1>20
    DEF CallBegins, CallGoesOn

\* While no command can change profiles.json, every name keeps its profile as
\* long as the server runs, and it starts with an empty cache.
LEMMA OwnKeeps ==
    ASSUME Modes = {FALSE}, Command = {}, Inv, OwnInductive, [Next]_vars
    PROVE  OwnInductive'
  <1>1. \A t \in Call : CallKnown(calls[t])
    BY DEF Inv, CallsInductive
  <1>2. CASE ProfilesNext /\ UNCHANGED callVars
    BY <1>2 DEF ProfilesNext
  <1>3. CASE \E t \in Call : CallBegins(t) \/ CallGoesOn(t)
    <2>1. ~ remote
      BY DEF Inv, CallsInductive, CallsTypeOK
    <2> QED
      BY <1>3, <2>1, OwnCallKeeps
  <1>4. ASSUME NEW named \in Name \cup {NoName}, NEW oauth \in Modes,
               StartServer(named, oauth)
        PROVE  OwnInductive'
    <2>1. ~ up /\ UNCHANGED <<calls, cache>>
      BY <1>4 DEF StartServer
    <2>2. \A t \in Call : calls[t].pc = "idle"
      BY <1>1, <2>1 DEF CallKnown
    <2> QED
      BY <2>1, <2>2 DEF OwnInductive, OwnCall, HasClient
  <1>5. CASE StopServer
    <2>1. calls' = [t \in Call |-> Quiet] /\ DOMAIN cache' = {}
      BY <1>5 DEF StopServer
    <2>2. \A t \in Call : calls'[t].tool = "none"
      BY <2>1 DEF Quiet
    <2> QED
      BY <2>1, <2>2 DEF OwnInductive, OwnCall
  <1>6. CASE Tick
    BY <1>6 DEF Tick, profileVars, OwnInductive, OwnCall, OwnEntry, HasClient,
                Resolve, Found, Readable
  <1>7. CASE UNCHANGED vars
    BY <1>7 DEF vars, profileVars, OwnInductive, OwnCall, OwnEntry, HasClient, Resolve,
                Found, Readable
  <1> QED
    BY <1>2, <1>3, <1>4, <1>5, <1>6, <1>7 DEF Next

\* Without OAuth, and as long as nothing changes profiles.json, the metadata a
\* call gets is what its own profile may see and what it asked for, for any
\* number of calls and queries (_cache_key).  With OAuth it does not hold
\* (MCToolsRemoteCache).
THEOREM AnswersStayOwn ==
    ASSUME Modes = {FALSE}, Command = {}
    PROVE  Spec => []AnswersAreOwn
  <1>1. Init => OwnInductive
    <2> SUFFICES ASSUME Init
                 PROVE  OwnInductive
      OBVIOUS
    <2>1. DOMAIN cache = {} /\ calls = [t \in Call |-> Quiet]
      BY DEF Init
    <2>2. \A t \in Call : calls[t].tool = "none"
      BY <2>1 DEF Quiet
    <2> QED
      BY <2>1, <2>2 DEF OwnInductive, OwnCall
  <1>2. Inv /\ OwnInductive /\ [Next]_vars => OwnInductive'
    BY OwnKeeps
  <1>3. Inv /\ OwnInductive => AnswersAreOwn
    BY DEF OwnInductive, OwnCall, HasClient, AnswersAreOwn, Done
  <1>4. Spec => []Inv
    BY InitHolds, NextKeeps, PTL DEF Spec
  <1> QED
    BY <1>1, <1>2, <1>3, <1>4, PTL DEF Spec
==============================================================================
