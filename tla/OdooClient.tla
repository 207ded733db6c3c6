----------------------------- MODULE OdooClient ------------------------------
(***************************************************************************)
(* The clients that speak to Odoo (client.py, version.py): which protocol   *)
(* is used and with which secret, how arguments get their names, and what   *)
(* is asked again when the network fails.  One task at a time works with    *)
(* one client: a tool call makes up to MaxRequests requests with the client *)
(* that it created, and the sign-in of the consent page tests what the user *)
(* typed (op_validate_credentials).                                         *)
(*                                                                          *)
(* Odoo itself is external: what it serves and lets in is modelled from     *)
(* what the clients expect of it.                                           *)
(***************************************************************************)
EXTENDS Naturals, Sequences

CONSTANTS
    Major,        \* versions of Odoo
    Method,       \* methods of Odoo's models
    Instance,     \* those that take the ids of records first
    Parameters,   \* Parameters[m]: the other parameters of m, in their order
    Known,        \* methods in _JSON2_METHOD_SIGNATURES
    Table,        \* Table[m]: the names that it has for m
    Name,         \* names of parameters
    Made,         \* Made[i]: the name '_arg<i-1>', which no parameter has
    MaxArgs,      \* most positional arguments of a request
    MaxRequests,  \* most requests of a tool call
    Attempts,     \* how often a signature is asked for
    CallProfile   \* profiles that tools are called with

Protocol == {"json2s", "jsonrpcs", "xmlrpcs"}

\* What is written in a field: the password, an API key, or something else.
Secret == {"password", "key", "wrong", "none"}

Profile == {p \in [protocol : Protocol \cup {"auto"},
                   password : Secret, apiKey : Secret] :
               p.password # "none" \/ p.apiKey # "none"}

\* Odoo's own order: the ids come first.
Signature(m) == (IF m \in Instance THEN <<"ids">> ELSE <<>>) \o Parameters[m]

ASSUME MethodAssumption ==
    /\ Instance \subseteq Method
    /\ Known \subseteq Method
    /\ "search_read" \in Known
    /\ "ids" \in Name
    /\ Parameters \in [Method -> Seq(Name \ {"ids"})]
    /\ Table \in [Known -> Seq(Name)]
    /\ \A m \in Known : \A i \in 1 .. Len(Table[m]) :
            i <= Len(Signature(m)) /\ Table[m][i] = Signature(m)[i]
    /\ \A m \in Method : \A i, j \in 1 .. Len(Signature(m)) :
            Signature(m)[i] = Signature(m)[j] => i = j
ASSUME BoundAssumption ==
    /\ Major \subseteq Nat
    /\ MaxArgs \in Nat /\ MaxArgs >= 2
    /\ MaxRequests \in Nat \ {0}
    /\ Attempts \in Nat \ {0}
    /\ CallProfile \subseteq Profile
    /\ \A i \in 1 .. MaxArgs : Made[i] \notin Name

VARIABLES
    odoo,       \* external: the version of the server
    task,       \* what is done, and with which profile
    client,     \* the client in use
    request,    \* the request under way, or the last one
    stored,     \* the profile that the sign-in has persisted, if it has
    proved,     \* history: <<protocol, secret>> that Odoo let in for the task
    performed,  \* history: how often Odoo did what the request asks for
    answered,   \* what came of the task or its request so far
    trouble     \* history: something failed on the way, or in Odoo

vars == <<odoo, task, client, request, stored, proved, performed, answered,
          trouble>>

Task == [pc : {"idle", "detect", "create", "login", "tested", "ready", "name",
               "fetch", "post", "over"},
         kind : {"none", "test", "proof", "call"},
         profile : Profile,
         protocol : Protocol \cup {"auto"},
         probe : 1 .. 3,
         left : 0 .. MaxRequests]

\* signatures is _signatures_cache; fetches counts what it is there to save.
Client == [speaks : Protocol,
           secret : Secret,
           uid : BOOLEAN,
           signatures : [Method -> {"miss", "described", "none"}],
           fetches : [Method -> Nat]]

\* count positional arguments, and named ones; ids says that the first one
\* is a number or a list of numbers, again that it was posted a second time.
Request == [method : Method, count : 0 .. MaxArgs, named : SUBSET Name,
            ids : BOOLEAN, tries : Nat, again : BOOLEAN]

ClientTypeOK ==
    /\ odoo \in Major
    /\ task \in Task
    /\ client \in Client
    /\ request \in Request
    /\ stored \subseteq Profile
    /\ proved \subseteq (Protocol \X Secret)
    /\ performed \in Nat
    /\ answered \in {"none", "ok", "error"}
    /\ trouble \in BOOLEAN

AnyProfile == [protocol |-> "auto", password |-> "wrong", apiKey |-> "none"]

NewClient(protocol, secret) ==
    [speaks |-> protocol, secret |-> secret, uid |-> FALSE,
     signatures |-> [m \in Method |-> "miss"],
     fetches |-> [m \in Method |-> 0]]

Asking(method, count, named, ids) ==
    [method |-> method, count |-> count, named |-> named, ids |-> ids,
     tries |-> 0, again |-> FALSE]

\* What op_validate_credentials reads to prove a secret: [[], ["id", "login"]]
\* are its positional arguments.  Its limit is left out.
WhoAmI == Asking("search_read", 2, {}, TRUE)

Idle == [pc |-> "idle", kind |-> "none", profile |-> AnyProfile,
         protocol |-> "auto", probe |-> 1, left |-> 0]

Init ==
    /\ odoo \in Major
    /\ task = Idle
    /\ client = NewClient("xmlrpcs", "none")
    /\ request = WhoAmI
    /\ stored = {}
    /\ proved = {}
    /\ performed = 0
    /\ answered = "none"
    /\ trouble = FALSE

-----------------------------------------------------------------------------
(* Odoo.                                                                   *)

Serves(protocol) ==
    CASE protocol = "json2s" -> odoo >= 19
      [] protocol = "jsonrpcs" -> odoo >= 8
      [] OTHER -> TRUE

\* JSON-2 takes API keys only; the others take them in place of the password.
LetIn ==
    /\ Serves(client.speaks)
    /\ client.secret = "key" \/ (client.speaks # "json2s"
                                 /\ client.secret = "password")

\* /web/version, /jsonrpc and /xmlrpc/2/common tell the version.
Answers(probe) ==
    CASE probe = 1 -> odoo >= 19
      [] probe = 2 -> odoo >= 8
      [] OTHER -> TRUE

-----------------------------------------------------------------------------
(* Which protocol, and with which secret.                                  *)

Goes(pc) == task' = [task EXCEPT !.pc = pc]

Fails ==
    /\ Goes("over")
    /\ answered' = "error"

Begins(kind, profile) ==
    /\ task.pc = "idle"
    /\ task' = [pc |-> IF profile.protocol = "auto" THEN "detect"
                      ELSE "create",
                kind |-> kind, profile |-> profile,
                protocol |-> profile.protocol, probe |-> 1,
                left |-> MaxRequests]
    /\ UNCHANGED <<odoo, client, request, stored, proved, performed, answered,
                   trouble>>

\* login_submit: a password or an API key.
StartSignIn(profile) ==
    /\ profile.password = "none" \/ profile.apiKey = "none"
    /\ Begins("test", profile)

\* _get_client
StartCall(profile) == Begins("call", profile)

\* The result goes to the caller, and the client is dropped.
Return ==
    /\ task.pc = "over"
    /\ task' = Idle
    /\ client' = NewClient("xmlrpcs", "none")
    /\ request' = WhoAmI
    /\ stored' = {}
    /\ proved' = {}
    /\ performed' = 0
    /\ answered' = "none"
    /\ trouble' = FALSE
    /\ UNCHANGED odoo

\* detect_protocol
Chosen(major) ==
    IF major >= 19 THEN "json2s"
    ELSE IF major >= 8 THEN "jsonrpcs" ELSE "xmlrpcs"

Detected(protocol) ==
    /\ task' = [task EXCEPT !.pc = "create"]
    /\ client' = NewClient(protocol, "none")

\* get_server_version: an endpoint tells the version ...
ProbeAnswers ==
    /\ task.pc = "detect"
    /\ Answers(task.probe)
    /\ Detected(Chosen(odoo))
    /\ UNCHANGED <<odoo, request, stored, proved, performed, answered,
                   trouble>>

\* ... or is not there, or fails: the next one is asked.  When none answers
\* it is XML-RPC.
ProbeFails ==
    /\ task.pc = "detect"
    /\ IF task.probe < 3
       THEN /\ task' = [task EXCEPT !.probe = task.probe + 1]
            /\ UNCHANGED client
       ELSE Detected("xmlrpcs")
    /\ trouble' = (trouble \/ Answers(task.probe))
    /\ UNCHANGED <<odoo, request, stored, proved, performed, answered>>

\* The protocol that was asked for, or the detected one.
Speaks == IF task.protocol = "auto" THEN client.speaks ELSE task.protocol

\* What is in the place of the password is not tried.
BadSecretFor(protocol) ==
    IF protocol = "json2s" THEN task.profile.apiKey ELSE task.profile.password

\* JSON-2 takes the API key, or what is in the place of the password.
SecretFor(protocol) ==
    IF protocol # "json2s" \/ task.profile.apiKey = "none"
    THEN task.profile.password
    ELSE task.profile.apiKey

\* create_client; what follows depends on what the client is for.  Without a
\* secret JSON-2 refuses at once; no profile is like that.
CreateClient ==
    /\ task.pc = "create"
    /\ client' = NewClient(Speaks, SecretFor(Speaks))
    /\ Goes(IF task.kind = "call" THEN "ready"
            ELSE IF Speaks # "json2s" THEN "login"
            ELSE IF task.kind = "test" THEN "tested" ELSE "name")
    /\ UNCHANGED <<odoo, request, stored, proved, performed, answered,
                   trouble>>

-----------------------------------------------------------------------------
(* JSON-RPC and XML-RPC log in before the first request.                   *)

LetsIn ==
    proved' = proved \cup {<<client.speaks, client.secret>>}

\* authenticate: the uid is kept for the requests to come.
Login ==
    /\ task.pc = "login"
    /\ LetIn
    /\ LetsIn
    /\ client' = [client EXCEPT !.uid = TRUE]
    /\ Goes(IF task.kind = "test" THEN "tested" ELSE "post")
    /\ UNCHANGED <<odoo, request, stored, performed, answered, trouble>>

\* Odoo does not know the user, or the connection fails.
LoginFails ==
    /\ task.pc = "login"
    /\ trouble' = (trouble \/ LetIn)
    /\ Fails
    /\ UNCHANGED <<odoo, client, request, stored, proved, performed>>

-----------------------------------------------------------------------------
(* The sign-in.                                                            *)

\* op_test_connection: XmlRpcClient has no attribute 'protocol'.
Resolved ==
    IF client.speaks = "xmlrpcs" THEN task.protocol ELSE client.speaks

Accepted(protocol) ==
    /\ stored' = {[task.profile EXCEPT !.protocol = protocol]}
    /\ answered' = "ok"
    /\ Goes("over")

\* That JSON-2 logs in without asking Odoo is forgotten.
BadNeedsProof == task.profile.password = "none"

\* op_validate_credentials reads something where nothing is proved yet.
NeedsProof == Resolved = "json2s" \/ task.profile.password = "none"

\* The second client gets the protocol that the first one reported.  Before,
\* get_server_version is asked once more, for a text only.
Tested ==
    /\ task.pc = "tested"
    /\ IF NeedsProof
       THEN /\ task' = [task EXCEPT
                          !.kind = "proof",
                          !.protocol = Resolved,
                          !.pc = IF Resolved = "auto" THEN "detect" ELSE "create",
                          !.probe = 1]
            /\ request' = WhoAmI
            /\ UNCHANGED <<stored, answered>>
       ELSE /\ Accepted(Resolved)
            /\ UNCHANGED request
    /\ UNCHANGED <<odoo, client, proved, performed, trouble>>

-----------------------------------------------------------------------------
(* A request.                                                              *)

\* Tools pass the ids of records first where a method takes them.
StartRequest(asked) ==
    /\ task.pc = "ready"
    /\ task.left > 0
    /\ (asked.method \in Instance /\ asked.count > 0) => asked.ids
    /\ request' = asked
    /\ performed' = 0
    /\ answered' = "none"
    /\ task' = [task EXCEPT
                  !.left = task.left - 1,
                  !.pc = IF client.speaks = "json2s" THEN "name"
                         ELSE IF client.uid THEN "post" ELSE "login"]
    /\ UNCHANGED <<odoo, client, stored, proved, trouble>>

\* The tool has what it needs.
FinishCall ==
    /\ task.pc = "ready"
    /\ Goes("over")
    /\ UNCHANGED <<odoo, client, request, stored, proved, performed, answered,
                   trouble>>

\* _build_body: the table, or the cache.
NameArguments ==
    /\ task.pc = "name"
    /\ \/ request.method \in Known
       \/ client.signatures[request.method] # "miss"
    /\ Goes("post")
    /\ UNCHANGED <<odoo, client, request, stored, proved, performed, answered,
                   trouble>>

\* ... or /doc-bearer is asked.
AskForSignature ==
    /\ task.pc = "name"
    /\ request.method \notin Known
    /\ client.signatures[request.method] = "miss"
    /\ Goes("fetch")
    /\ UNCHANGED <<odoo, client, request, stored, proved, performed, answered,
                   trouble>>

Remembered(signature) ==
    [client EXCEPT !.signatures[request.method] = signature,
                   !.fetches[request.method] = @ + 1]

\* _fetch_method_signature: the answer describes the method ...
SignatureFound ==
    /\ task.pc = "fetch"
    /\ LetIn
    /\ client' = Remembered("described")
    /\ Goes("post")
    /\ UNCHANGED <<odoo, request, stored, proved, performed, answered,
                   trouble>>

\* ... or does not, or is none that can be used.
SignatureMissing ==
    /\ task.pc = "fetch"
    /\ client' = Remembered("none")
    /\ Goes("post")
    /\ UNCHANGED <<odoo, request, stored, proved, performed, answered,
                   trouble>>

\* From the start when every attempt has failed.
BadSignatureUnavailable ==
    /\ task.pc = "fetch"
    /\ request' = [request EXCEPT
                     !.tries = IF @ + 1 < Attempts THEN @ + 1 ELSE 0]
    /\ trouble' = TRUE
    /\ UNCHANGED <<odoo, task, client, stored, proved, performed, answered>>

\* The server is busy or the connection fails: asked again, so many times.
SignatureUnavailable ==
    /\ task.pc = "fetch"
    /\ request' = [request EXCEPT !.tries = @ + 1]
    /\ IF request.tries + 1 < Attempts
       THEN /\ client' = [client EXCEPT !.fetches[request.method] = @ + 1]
            /\ UNCHANGED task
       ELSE /\ client' = Remembered("none")
            /\ Goes("post")
    /\ trouble' = TRUE
    /\ UNCHANGED <<odoo, stored, proved, performed, answered>>

\* 'ids' are not among the parameters that Odoo describes.
BadDescribed(m) == Parameters[m]

Described(m) == Signature(m)

\* Positional arguments get the names in their order, as far as there are
\* names; a named argument (0) gives way to a positional one.
ByName(names) ==
    LET Given == {i \in 1 .. Len(names) : i <= request.count}
    IN [n \in request.named \cup {names[i] : i \in Given} |->
            IF \E i \in Given : names[i] = n
            THEN CHOOSE i \in Given : names[i] = n
            ELSE 0]

\* The heuristic: ids by their looks, and made-up names for the rest.
ByLooks ==
    LET first == IF request.ids /\ request.count > 0 THEN 1 ELSE 0
        Given == (first + 1) .. request.count
        names == {Made[i - first] : i \in Given}
                   \cup (IF first = 1 THEN {"ids"} ELSE {})
    IN [n \in request.named \cup names |->
            IF first = 1 /\ n = "ids" THEN 1
            ELSE IF \E i \in Given : Made[i - first] = n
                 THEN CHOOSE i \in Given : Made[i - first] = n
                 ELSE 0]

Body ==
    IF request.method \in Known THEN ByName(Table[request.method])
    ELSE IF client.signatures[request.method] = "described"
         THEN ByName(Described(request.method))
         ELSE ByLooks

\* External: JSON-2 does nothing with names that the method does not have.
Understood ==
    client.speaks = "json2s" =>
        DOMAIN Body \subseteq
            {"ids"} \cup {Signature(request.method)[i] :
                             i \in 1 .. Len(Signature(request.method))}

-----------------------------------------------------------------------------
(* execute_kw posts the request.  The transport of XML-RPC, which is the    *)
(* standard library's, posts it a second time when the connection drops.   *)

Performs ==
    /\ LetIn
    /\ Understood
    /\ LetsIn
    /\ performed' = performed + 1

\* Odoo does it, and answers.
PostAnswered ==
    /\ task.pc = "post"
    /\ Performs
    /\ IF task.kind = "proof"
       THEN Accepted(task.protocol)
       ELSE Goes("ready") /\ answered' = "ok" /\ UNCHANGED stored
    /\ UNCHANGED <<odoo, client, request, trouble>>

\* The connection drops, before or after Odoo has done it.  Nothing tells the
\* two apart: XML-RPC posts it again, once.
ConnectionDropped ==
    /\ task.pc = "post"
    /\ client.speaks = "xmlrpcs" /\ ~ request.again
    /\ Performs \/ UNCHANGED <<performed, proved>>
    /\ request' = [request EXCEPT !.again = TRUE]
    /\ trouble' = TRUE
    /\ UNCHANGED <<odoo, task, client, stored, answered>>

\* The request is posted again after a timeout.
BadAnswerLost ==
    /\ task.pc = "post"
    /\ Performs
    /\ UNCHANGED task
    /\ UNCHANGED answered
    /\ trouble' = TRUE
    /\ UNCHANGED <<odoo, client, request, stored>>

\* Odoo does it, but the answer is late, lost or cannot be read.
AnswerLost ==
    /\ task.pc = "post"
    /\ Performs
    /\ Fails
    /\ trouble' = TRUE
    /\ UNCHANGED <<odoo, client, request, stored>>

\* Odoo refuses, fails, or is not reached.
PostFails ==
    /\ task.pc = "post"
    /\ Fails
    /\ trouble' = (trouble \/ (LetIn /\ Understood))
    /\ UNCHANGED <<odoo, client, request, stored, proved, performed>>

-----------------------------------------------------------------------------

AnyRequest ==
    \E m \in Method, count \in 0 .. MaxArgs, named \in SUBSET Name,
       ids \in BOOLEAN : StartRequest(Asking(m, count, named, ids))

\* What a task does once it is started.
Works ==
    \/ ProbeAnswers \/ ProbeFails
    \/ CreateClient
    \/ Login \/ LoginFails
    \/ Tested
    \/ AnyRequest
    \/ FinishCall
    \/ NameArguments \/ AskForSignature
    \/ SignatureFound \/ SignatureMissing \/ SignatureUnavailable
    \/ PostAnswered \/ ConnectionDropped \/ AnswerLost \/ PostFails
    \/ Return

Next ==
    \/ \E profile \in Profile : StartSignIn(profile)
    \/ \E profile \in CallProfile : StartCall(profile)
    \/ Works

Spec == Init /\ [][Next]_vars

\* get_server_version sends its request to XML-RPC without a timeout.
MayHang == task.pc = "tested" \/ (task.pc = "detect" /\ task.probe = 3)

\* Every other request to Odoo has one, and threads go on.
FairSpec == Spec /\ WF_vars(Works /\ ~ MayHang)
==============================================================================
