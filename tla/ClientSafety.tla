---------------------------- MODULE ClientSafety -----------------------------
(***************************************************************************)
(* What the clients of Odoo guarantee.                                     *)
(***************************************************************************)
EXTENDS OdooClient

\* However often the network fails, Odoo does what a request asks for at most
\* once, and has done it when the tool is told that it succeeded.  Of what is
\* repeated, the lookup of a signature (_fetch_method_signature) does nothing;
\* only XML-RPC may have a request done twice, and only if its connection
\* dropped (_execute_kw_raw).
RepeatedOnlyIfDropped ==
    /\ performed <= IF request.again THEN 2 ELSE 1
    /\ request.again => client.speaks = "xmlrpcs" /\ trouble
    /\ (answered = "ok" /\ task.kind # "test") => performed > 0

\* No argument gets the name of another one: what Odoo does with a JSON-2
\* request, each parameter has the value that stands in its place, or that was
\* given by its name (_build_body).
ArgumentsInPlace ==
    (performed > 0 /\ client.speaks = "json2s") =>
        \A i \in 1 .. Len(Signature(request.method)) :
            LET name == Signature(request.method)[i]
            IN name \in DOMAIN Body =>
                   \/ Body[name] = i
                   \/ Body[name] = 0 /\ name \in request.named

\* A client asks for the signature of a method in one round of attempts at
\* most, whether it gets one or not and however many requests it makes
\* ("We cache Odoo endpoint method signatures ... to avoid redundant network
\* round-trips", client.py).
FetchesBounded == \A m \in Method : client.fetches[m] <= Attempts

\* A sign-in succeeds only if Odoo has let in somebody with the secret that is
\* stored, over the protocol that is stored with it: "any secret would
\* otherwise pass without Odoo ever being contacted" (op_validate_credentials).
AcceptedIsProved ==
    \A profile \in stored :
        \E protocol \in Protocol :
            /\ profile.protocol \in {protocol, "auto"}
            /\ \/ <<protocol, profile.password>> \in proved
               \/ <<protocol, profile.apiKey>> \in proved

\* What a user can sign in with, whatever the protocol: an API key in its
\* place is of no use before JSON-2, nor a password with it.
Usable(profile) ==
    IF odoo >= 19
    THEN "key" \in {profile.password, profile.apiKey}
    ELSE profile.password \in {"password", "key"}

\* A sign-in with protocol 'auto' that fails though nothing went wrong on the
\* way has a secret that the server does not take: detect_protocol, the choice
\* of the field and the second client agree on the protocol.
RefusedForCause ==
    (/\ task.pc = "over"
     /\ task.kind \in {"test", "proof"}
     /\ answered = "error"
     /\ task.profile.protocol = "auto"
     /\ ~ trouble)
        => ~ Usable(task.profile)

\* "Persist the resolved protocol so no tool call ever pays for auto-detection
\* again" (consent.py): the profile that a sign-in stores names its protocol.
ProtocolResolved == \A profile \in stored : profile.protocol # "auto"

\* Every sign-in and every tool call comes to an end, whatever fails, unless
\* it gets to the one request that has no timeout (version.py, the last probe
\* of get_server_version).
WorkEnds == task.pc # "idle" ~> (task.pc = "idle" \/ MayHang)

-----------------------------------------------------------------------------
(* The invariant behind these properties.                                  *)

\* A request is made by a tool, or to prove a secret; before it is posted, or
\* posted again, it has not been performed, or once.
RequestKnown ==
    /\ task.pc \notin {"ready", "over"}
        => /\ performed <= IF request.again THEN 1 ELSE 0
           /\ answered = "none"
    /\ task.pc \notin {"post", "ready", "over"} => ~ request.again
    /\ task.kind # "call"
        => /\ request \in {WhoAmI, [WhoAmI EXCEPT !.again = TRUE]}
           /\ task.pc \notin {"fetch", "ready"}
    /\ task.pc \in {"name", "post"} => task.kind \in {"proof", "call"}
    /\ task.pc \in {"idle", "detect", "create", "login", "tested", "name"}
        => request.tries = 0

\* While a signature is asked for, it has been asked for as often as it was
\* tried; what has been answered is in the cache.
FetchesKnown ==
    \A m \in Method :
        /\ client.fetches[m] <= Attempts
        /\ client.signatures[m] = "miss"
            => client.fetches[m] = IF task.pc = "fetch" /\ request.method = m
                                   THEN request.tries ELSE 0
        /\ (task.pc = "fetch" /\ request.method = m)
            => client.signatures[m] = "miss" /\ request.tries < Attempts

\* The client has the secret that its protocol takes, and a test has let its
\* user in where that protocol logs in.
ClientKnown ==
    /\ task.pc \in {"login", "tested", "ready", "name", "fetch", "post"}
        => /\ client.secret = SecretFor(client.speaks)
           /\ task.protocol \in {client.speaks, "auto"}
    /\ (task.pc = "tested" /\ client.speaks # "json2s")
        => <<client.speaks, client.secret>> \in proved

\* A sign-in knows one secret.  Unless something has gone wrong it speaks the
\* protocol of the server's version, or is about to find it.
SignInKnown ==
    task.kind \in {"test", "proof"}
        => /\ task.profile.password = "none" \/ task.profile.apiKey = "none"
           /\ task.kind = "test" => task.protocol = task.profile.protocol
           /\ (task.profile.protocol = "auto" /\ ~ trouble)
                => /\ task.protocol \in {"auto", Chosen(odoo)}
                   /\ task.pc \notin {"idle", "detect"}
                        => client.speaks = Chosen(odoo)

ClientInductive ==
    /\ ClientTypeOK
    /\ RepeatedOnlyIfDropped
    /\ AcceptedIsProved
    /\ RefusedForCause
    /\ task.pc # "over" => stored = {}
    /\ task.pc = "tested" => task.kind = "test"
    /\ task.pc = "idle" <=> task.kind = "none"
    /\ RequestKnown
    /\ FetchesKnown
    /\ ClientKnown
    /\ SignInKnown
==============================================================================
