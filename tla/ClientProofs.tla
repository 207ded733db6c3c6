----------------------------- MODULE ClientProofs -----------------------------
(***************************************************************************)
(* Proofs about the clients of Odoo: requests performed once, arguments in *)
(* their places, and sign-ins that are accepted and refused for a cause.   *)
(***************************************************************************)
EXTENDS ClientSafety, TLAPS

-----------------------------------------------------------------------------
(* The names of arguments.                                                 *)

\* No two parameters of a method have the same name, and "ids" is the first.
LEMMA SignatureNames ==
    ASSUME NEW m \in Method
    PROVE  /\ Signature(m) \in Seq(Name)
           /\ \A i \in 1 .. Len(Signature(m)) :
                Signature(m)[i] = "ids" => i = 1
  <1>1. Parameters[m] \in Seq(Name \ {"ids"}) /\ "ids" \in Name
    BY MethodAssumption
  <1>2. CASE m \in Instance
    <2>1. Signature(m) = <<"ids">> \o Parameters[m]
      BY <1>2 DEF Signature
    <2>2. \A i \in 1 .. Len(Signature(m)) :
            i # 1 => Signature(m)[i] = Parameters[m][i - 1]
                     /\ i - 1 \in 1 .. Len(Parameters[m])
      BY <1>1, <2>1
    <2> QED
      BY <1>1, <2>1, <2>2
  <1>3. CASE m \notin Instance
    <2>1. Signature(m) = Parameters[m]
      BY <1>1, <1>3 DEF Signature
    <2> QED
      BY <1>1, <2>1
  <1> QED
    BY <1>2, <1>3

\* Names that are given in a signature's order reach their places.
LEMMA NamedInPlace ==
    ASSUME request \in Request, NEW names, NEW m \in Method,
           Len(names) \in Nat, Len(names) <= Len(Signature(m)),
           \A i \in 1 .. Len(names) : names[i] = Signature(m)[i],
           NEW i \in 1 .. Len(Signature(m)),
           Signature(m)[i] \in DOMAIN ByName(names)
    PROVE  \/ ByName(names)[Signature(m)[i]] = i
           \/ /\ ByName(names)[Signature(m)[i]] = 0
              /\ Signature(m)[i] \in request.named
  <1> DEFINE name == Signature(m)[i]
             Given == {j \in 1 .. Len(names) : j <= request.count}
  <1>1. \A j \in 1 .. Len(Signature(m)) : Signature(m)[j] = name => j = i
    BY MethodAssumption
  <1>2. \A j \in Given : names[j] = name => j = i
    BY <1>1, SignatureNames
  <1>3. name \in request.named \cup {names[j] : j \in Given}
    BY DEF ByName
  <1>4. ByName(names)[name] = IF \E j \in Given : names[j] = name
                              THEN CHOOSE j \in Given : names[j] = name
                              ELSE 0
    BY <1>3 DEF ByName
  <1>5. CASE \E j \in Given : names[j] = name
    <2> DEFINE w == CHOOSE j \in Given : names[j] = name
    <2>1. w \in Given /\ names[w] = name
      BY <1>5
    <2> HIDE DEF w
    <2>2. w = i
      BY <1>2, <2>1
    <2>3. ByName(names)[name] = w
      BY <1>4, <1>5 DEF w
    <2> QED
      BY <2>2, <2>3
  <1>6. CASE ~ \E j \in Given : names[j] = name
    <2>1. name \in request.named
      BY <1>3, <1>6
    <2> QED
      BY <1>4, <1>6, <2>1
  <1> QED
    BY <1>5, <1>6

\* Names that are made up reach no parameter, and ids are the first one.
LEMMA GuessedInPlace ==
    ASSUME request \in Request, NEW m \in Method,
           NEW i \in 1 .. Len(Signature(m)),
           Signature(m)[i] \in DOMAIN ByLooks
    PROVE  \/ ByLooks[Signature(m)[i]] = i
           \/ /\ ByLooks[Signature(m)[i]] = 0
              /\ Signature(m)[i] \in request.named
  <1> DEFINE name == Signature(m)[i]
             first == IF request.ids /\ request.count > 0 THEN 1 ELSE 0
             Given == (first + 1) .. request.count
             names == {Made[j - first] : j \in Given}
                        \cup (IF first = 1 THEN {"ids"} ELSE {})
  <1>1. name \in Name /\ (name = "ids" => i = 1)
    BY SignatureNames
  <1>2. \A j \in Given : Made[j - first] # name
    <2>1. request.count \in 0 .. MaxArgs
      BY DEF Request
    <2>2. \A j \in Given : j - first \in 1 .. MaxArgs
      BY <2>1, BoundAssumption
    <2> QED
      BY <1>1, <2>2, BoundAssumption
  <1>3. name \in request.named \cup names
    BY DEF ByLooks
  <1>4. ByLooks[name] = IF first = 1 /\ name = "ids" THEN 1
                        ELSE IF \E j \in Given : Made[j - first] = name
                             THEN CHOOSE j \in Given : Made[j - first] = name
                             ELSE 0
    BY <1>3 DEF ByLooks
  <1> QED
    BY <1>1, <1>2, <1>3, <1>4

\* Whatever is asked for and known of the method.
LEMMA BodyInPlace ==
    ASSUME ClientTypeOK
    PROVE  ArgumentsInPlace
  <1> SUFFICES ASSUME NEW i \in 1 .. Len(Signature(request.method)),
                      Signature(request.method)[i] \in DOMAIN Body
               PROVE  \/ Body[Signature(request.method)[i]] = i
                      \/ /\ Body[Signature(request.method)[i]] = 0
                         /\ Signature(request.method)[i] \in request.named
    BY DEF ArgumentsInPlace
  <1>1. request \in Request /\ request.method \in Method
    BY DEF ClientTypeOK, Request
  <1>2. CASE request.method \in Known
    <2>1. Body = ByName(Table[request.method])
      BY <1>2 DEF Body
    <2>2. Table[request.method] \in Seq(Name)
      BY <1>2, MethodAssumption
    <2>3. /\ Len(Table[request.method]) \in Nat
          /\ \A j \in 1 .. Len(Table[request.method]) :
                /\ j <= Len(Signature(request.method))
                /\ Table[request.method][j] = Signature(request.method)[j]
      BY <1>2, <2>2, MethodAssumption
    <2>4. Len(Signature(request.method)) \in Nat
      BY <1>1, SignatureNames
    <2>5. Len(Table[request.method]) <= Len(Signature(request.method))
      BY <2>3, <2>4
    <2> QED
      BY <1>1, <2>1, <2>3, <2>5, NamedInPlace
  <1>3. CASE request.method \notin Known /\ Body = ByLooks
    BY <1>1, <1>3, GuessedInPlace
  <1>4. CASE Body = ByName(Signature(request.method))
    <2>1. Len(Signature(request.method)) \in Nat
      BY <1>1, SignatureNames
    <2> QED
      BY <1>1, <1>4, <2>1, NamedInPlace
  <1> QED
    BY <1>2, <1>3, <1>4 DEF Body, Described

-----------------------------------------------------------------------------
(* Types.                                                                  *)

LEMMA NewClientType ==
    ASSUME NEW protocol \in Protocol, NEW secret \in Secret
    PROVE  NewClient(protocol, secret) \in Client
  BY DEF NewClient, Client

LEMMA AskingType ==
    ASSUME NEW m \in Method, NEW count \in 0 .. MaxArgs,
           NEW named \in SUBSET Name, NEW ids \in BOOLEAN
    PROVE  Asking(m, count, named, ids) \in Request
  BY BoundAssumption DEF Asking, Request

LEMMA WhoAmIType == WhoAmI \in Request
  <1>1. 2 \in 0 .. MaxArgs /\ "search_read" \in Method
    BY BoundAssumption, MethodAssumption
  <1> QED
    BY <1>1, AskingType DEF WhoAmI

LEMMA IdleType == Idle \in Task
  BY BoundAssumption DEF Idle, Task, AnyProfile, Profile, Protocol, Secret

\* The fields of a task, a client and a request, for the steps below.
LEMMA Fields ==
    ASSUME ClientTypeOK
    PROVE  /\ task.profile \in Profile
           /\ task.profile.password \in Secret
           /\ task.profile.apiKey \in Secret
           /\ task.profile.protocol \in Protocol \cup {"auto"}
           /\ task.protocol \in Protocol \cup {"auto"}
           /\ client.speaks \in Protocol
           /\ client.secret \in Secret
           /\ client.fetches \in [Method -> Nat]
           /\ client.signatures \in [Method -> {"miss", "described", "none"}]
           /\ request.method \in Method
           /\ odoo \in Nat
  BY BoundAssumption DEF ClientTypeOK, Task, Client, Request, Profile

LEMMA InitType == Init => ClientTypeOK
  <1> HAVE Init
  <1>1. odoo \in Major /\ task \in Task /\ request \in Request
    BY IdleType, WhoAmIType DEF Init
  <1>2. client \in Client
    BY NewClientType DEF Init, Protocol, Secret
  <1>3. /\ stored \subseteq Profile /\ proved \subseteq (Protocol \X Secret)
        /\ performed \in Nat /\ answered \in {"none", "ok", "error"}
        /\ trouble \in BOOLEAN
    BY DEF Init
  <1> QED
    BY <1>1, <1>2, <1>3 DEF ClientTypeOK

\* A task that goes on, and what is remembered of a signature, have their
\* types.
LEMMA GoesType ==
    ASSUME ClientTypeOK,
           NEW pc \in {"idle", "detect", "create", "login", "tested", "ready",
                       "name", "fetch", "post", "over"}
    PROVE  [task EXCEPT !.pc = pc] \in Task
  BY DEF ClientTypeOK, Task

LEMMA CountedType ==
    ASSUME ClientTypeOK, NEW m \in Method
    PROVE  [client EXCEPT !.fetches[m] = @ + 1] \in Client
  <1>1. [client.fetches EXCEPT ![m] = @ + 1] \in [Method -> Nat]
    BY Fields
  <1> QED
    BY <1>1 DEF ClientTypeOK, Client

LEMMA RememberedType ==
    ASSUME ClientTypeOK, NEW signature \in {"described", "none"}
    PROVE  Remembered(signature) \in Client
  <1>1. [client.fetches EXCEPT ![request.method] = @ + 1] \in [Method -> Nat]
    BY Fields
  <1>2. [client.signatures EXCEPT ![request.method] = signature]
            \in [Method -> {"miss", "described", "none"}]
    BY Fields
  <1> QED
    BY <1>1, <1>2 DEF ClientTypeOK, Client, Remembered

LEMMA TypeKeeps ==
    ASSUME ClientTypeOK, [Next]_vars
    PROVE  ClientTypeOK'
  <1>1. ASSUME NEW kind \in {"test", "call"}, NEW profile \in Profile,
               Begins(kind, profile)
        PROVE  ClientTypeOK'
    <2>1. task' \in Task
      BY <1>1, BoundAssumption DEF Begins, Task, Profile
    <2> QED
      BY <1>1, <2>1 DEF Begins, ClientTypeOK
  <1>2. CASE ProbeAnswers
    <2>1. Chosen(odoo) \in Protocol /\ "none" \in Secret
      BY DEF Chosen, Protocol, Secret
    <2>2. task' \in Task /\ client' \in Client
      BY <1>2, <2>1, GoesType, NewClientType DEF ProbeAnswers, Detected
    <2> QED
      BY <1>2, <2>2 DEF ProbeAnswers, ClientTypeOK
  <1>3. CASE ProbeFails
    <2>1. "xmlrpcs" \in Protocol /\ "none" \in Secret
      BY DEF Protocol, Secret
    <2>2. CASE task.probe < 3
      <3>1. task' \in Task /\ client' = client
        BY <1>3, <2>2 DEF ProbeFails, Task, ClientTypeOK
      <3> QED
        BY <1>3, <3>1 DEF ProbeFails, ClientTypeOK, Answers
    <2>3. CASE ~ (task.probe < 3)
      <3>1. task' \in Task /\ client' \in Client
        BY <1>3, <2>1, <2>3, GoesType, NewClientType DEF ProbeFails, Detected
      <3> QED
        BY <1>3, <3>1 DEF ProbeFails, ClientTypeOK, Answers
    <2> QED
      BY <2>2, <2>3
  <1>4. CASE CreateClient
    <2>1. Speaks \in Protocol /\ SecretFor(Speaks) \in Secret
      BY Fields DEF Speaks, SecretFor
    <2>2. client' \in Client
      BY <1>4, <2>1, NewClientType DEF CreateClient
    <2>3. task' \in Task
      BY <1>4, GoesType DEF CreateClient, Goes
    <2> QED
      BY <1>4, <2>2, <2>3 DEF CreateClient, ClientTypeOK
  <1>5. CASE Login
    <2>1. task' \in Task
      BY <1>5, GoesType DEF Login, Goes
    <2>2. client' \in Client
      BY <1>5 DEF Login, ClientTypeOK, Client
    <2>3. proved' \subseteq (Protocol \X Secret)
      BY <1>5, Fields DEF Login, LetsIn, ClientTypeOK
    <2> QED
      BY <1>5, <2>1, <2>2, <2>3 DEF Login, ClientTypeOK
  <1>6. CASE LoginFails
    <2>1. task' \in Task /\ answered' = "error"
      BY <1>6, GoesType DEF LoginFails, Fails, Goes
    <2>2. trouble' \in BOOLEAN
      BY <1>6 DEF LoginFails, ClientTypeOK, LetIn, Serves
    <2> QED
      BY <1>6, <2>1, <2>2 DEF LoginFails, ClientTypeOK
  <1>7. CASE Tested
    <2>1. Resolved \in Protocol \cup {"auto"}
      BY Fields DEF Resolved
    <2>2. CASE NeedsProof
      <3> DEFINE pc == IF Resolved = "auto" THEN "detect" ELSE "create"
      <3>0. task' = [task EXCEPT !.kind = "proof", !.protocol = Resolved,
                                 !.pc = pc, !.probe = 1]
        BY <1>7, <2>2 DEF Tested
      <3>a. pc \in {"detect", "create"}
        OBVIOUS
      <3> HIDE DEF pc
      <3>1. task' \in Task
        <4>1. task.profile \in Profile /\ task.left \in 0 .. MaxRequests
          BY DEF ClientTypeOK, Task
        <4>2. task' = [pc |-> pc, kind |-> "proof", profile |-> task.profile,
                       protocol |-> Resolved, probe |-> 1, left |-> task.left]
          BY <3>0 DEF ClientTypeOK, Task
        <4> QED
          BY <2>1, <3>a, <4>1, <4>2 DEF Task
      <3> QED
        BY <1>7, <2>2, <3>1, WhoAmIType DEF Tested, ClientTypeOK
    <2>3. CASE ~ NeedsProof
      <3>1. task' \in Task /\ answered' = "ok"
        BY <1>7, <2>3, GoesType DEF Tested, Accepted, Goes
      <3>2. [task.profile EXCEPT !.protocol = Resolved] \in Profile
        BY <2>1, Fields DEF Profile
      <3>3. stored' \subseteq Profile
        BY <1>7, <2>3, <3>2 DEF Tested, Accepted
      <3> QED
        BY <1>7, <2>3, <3>1, <3>3 DEF Tested, ClientTypeOK
    <2> QED
      BY <2>2, <2>3
  <1>8. ASSUME NEW asked \in Request, StartRequest(asked)
        PROVE  ClientTypeOK'
    <2>1. task.left \in Nat /\ task.left <= MaxRequests /\ task.left > 0
      BY <1>8, BoundAssumption DEF StartRequest, ClientTypeOK, Task
    <2>2. task.left - 1 \in 0 .. MaxRequests
      BY <2>1, BoundAssumption
    <2>3. task' \in Task
      BY <1>8, <2>2 DEF StartRequest, ClientTypeOK, Task
    <2> QED
      BY <1>8, <2>3 DEF StartRequest, ClientTypeOK
  <1>9. CASE FinishCall
    BY <1>9, GoesType DEF FinishCall, Goes, ClientTypeOK
  <1>10. CASE NameArguments \/ AskForSignature
    BY <1>10, GoesType DEF NameArguments, AskForSignature, Goes, ClientTypeOK
  <1>11. CASE SignatureFound \/ SignatureMissing
    <2>1. task' \in Task /\ client' \in Client
      BY <1>11, GoesType, RememberedType
      DEF SignatureFound, SignatureMissing, Goes
    <2> QED
      BY <1>11, <2>1 DEF SignatureFound, SignatureMissing, ClientTypeOK
  <1>12. CASE SignatureUnavailable
    <2>1. task' \in Task /\ client' \in Client
      BY <1>12, GoesType, RememberedType, CountedType, Fields
      DEF SignatureUnavailable, Goes, ClientTypeOK
    <2>2. request' \in Request
      BY <1>12 DEF SignatureUnavailable, ClientTypeOK, Request
    <2> QED
      BY <1>12, <2>1, <2>2 DEF SignatureUnavailable, ClientTypeOK
  <1>13. CASE PostAnswered
    <2>1. task' \in Task /\ answered' = "ok"
      BY <1>13, GoesType DEF PostAnswered, Accepted, Goes
    <2>2. [task.profile EXCEPT !.protocol = task.protocol] \in Profile
      BY Fields DEF Profile
    <2>3. stored' \subseteq Profile
      BY <1>13, <2>2 DEF PostAnswered, Accepted, ClientTypeOK
    <2>4. proved' \subseteq (Protocol \X Secret) /\ performed' \in Nat
      BY <1>13, Fields DEF PostAnswered, Performs, LetsIn, ClientTypeOK
    <2> QED
      BY <1>13, <2>1, <2>3, <2>4 DEF PostAnswered, ClientTypeOK
  <1>19. CASE ConnectionDropped
    <2>1. request' \in Request
      BY <1>19 DEF ConnectionDropped, ClientTypeOK, Request
    <2>2. proved' \subseteq (Protocol \X Secret) /\ performed' \in Nat
      BY <1>19, Fields DEF ConnectionDropped, Performs, LetsIn, ClientTypeOK
    <2> QED
      BY <1>19, <2>1, <2>2 DEF ConnectionDropped, ClientTypeOK
  <1>14. CASE AnswerLost
    <2>1. task' \in Task /\ answered' = "error"
      BY <1>14, GoesType DEF AnswerLost, Fails, Goes
    <2>2. proved' \subseteq (Protocol \X Secret) /\ performed' \in Nat
      BY <1>14, Fields DEF AnswerLost, Performs, LetsIn, ClientTypeOK
    <2> QED
      BY <1>14, <2>1, <2>2 DEF AnswerLost, ClientTypeOK
  <1>15. CASE PostFails
    <2>1. task' \in Task /\ answered' = "error"
      BY <1>15, GoesType DEF PostFails, Fails, Goes
    <2>2. trouble' \in BOOLEAN
      BY <1>15 DEF PostFails, ClientTypeOK, LetIn, Serves, Understood
    <2> QED
      BY <1>15, <2>1, <2>2 DEF PostFails, ClientTypeOK
  <1>16. CASE Return
    <2>1. client' \in Client
      BY <1>16, NewClientType DEF Return, Protocol, Secret
    <2> QED
      BY <1>16, <2>1, IdleType, WhoAmIType DEF Return, ClientTypeOK
  <1>17. CASE UNCHANGED vars
    BY <1>17 DEF vars, ClientTypeOK
  <1>18. AnyRequest => \E asked \in Request : StartRequest(asked)
    BY AskingType DEF AnyRequest
  <1> QED
    BY <1>1, <1>2, <1>3, <1>4, <1>5, <1>6, <1>7, <1>8, <1>9, <1>10, <1>11,
       <1>12, <1>13, <1>14, <1>15, <1>16, <1>17, <1>18, <1>19,
       BoundAssumption
    DEF Next, Works, StartSignIn, StartCall

-----------------------------------------------------------------------------
(* The stages of a task.                                                   *)

\* What changes when a task goes on, and what does not.
LEMMA GoesFields ==
    ASSUME ClientTypeOK, NEW pc, Goes(pc)
    PROVE  /\ task'.pc = pc
           /\ task'.kind = task.kind
           /\ task'.profile = task.profile
           /\ task'.protocol = task.protocol
  BY DEF ClientTypeOK, Task, Goes

LEMMA DetectedFields ==
    ASSUME ClientTypeOK, NEW protocol, Detected(protocol)
    PROVE  /\ task'.pc = "create"
           /\ task'.kind = task.kind
           /\ task'.profile = task.profile
           /\ task'.protocol = task.protocol
           /\ client' = NewClient(protocol, "none")
  BY DEF ClientTypeOK, Task, Detected

LEMMA ProbeFailsFields ==
    ASSUME ClientTypeOK, ProbeFails
    PROVE  /\ task'.pc \in {"detect", "create"}
           /\ task'.kind = task.kind
           /\ task'.profile = task.profile
           /\ task'.protocol = task.protocol
           /\ task'.pc = "create" => trouble'
           /\ task'.pc = "detect" => client' = client
           /\ task'.pc = "create" => client' = NewClient("xmlrpcs", "none")
  <1>1. CASE task.probe < 3
    BY <1>1 DEF ProbeFails, ClientTypeOK, Task
  <1>2. CASE ~ (task.probe < 3)
    <2>1. task.probe = 3
      BY <1>2 DEF ClientTypeOK, Task
    <2>2. Answers(task.probe)
      BY <2>1 DEF Answers
    <2> QED
      BY <1>2, <2>2, DetectedFields DEF ProbeFails
  <1> QED
    BY <1>1, <1>2

LEMMA BeginsFields ==
    ASSUME NEW kind, NEW profile, Begins(kind, profile)
    PROVE  /\ task.pc = "idle"
           /\ task'.pc = IF profile.protocol = "auto"
                         THEN "detect" ELSE "create"
           /\ task'.kind = kind
           /\ task'.profile = profile
           /\ task'.protocol = profile.protocol
  BY DEF Begins

LEMMA StartRequestFields ==
    ASSUME ClientTypeOK, NEW asked, StartRequest(asked)
    PROVE  /\ task.pc = "ready"
           /\ task'.pc = IF client.speaks = "json2s" THEN "name"
                         ELSE IF client.uid THEN "post" ELSE "login"
           /\ task'.kind = task.kind
           /\ task'.profile = task.profile
           /\ task'.protocol = task.protocol
  BY DEF ClientTypeOK, Task, StartRequest

LEMMA ProofFields ==
    ASSUME ClientTypeOK, Tested, NeedsProof
    PROVE  /\ task'.pc = IF Resolved = "auto" THEN "detect" ELSE "create"
           /\ task'.kind = "proof"
           /\ task'.profile = task.profile
           /\ task'.protocol = Resolved
           /\ request' = WhoAmI
  BY DEF ClientTypeOK, Task, Tested

LEMMA IdleFields ==
    /\ Idle.pc = "idle"
    /\ Idle.kind = "none"
    /\ WhoAmI.tries = 0
    /\ WhoAmI.method = "search_read"
    /\ WhoAmI.named = {} /\ WhoAmI.again = FALSE
  BY DEF Idle, WhoAmI, Asking

\* That a request has been posted again is all that changes of it.
LEMMA AgainFields ==
    ASSUME NEW r \in Request
    PROVE  /\ [r EXCEPT !.again = TRUE].again
           /\ [r EXCEPT !.again = TRUE].tries = r.tries
  BY DEF Request

\* A request is performed when it is sent and at no other stage, and only
\* tools ask for signatures.
Stages ==
    /\ RepeatedOnlyIfDropped
    /\ task.pc # "over" => stored = {}
    /\ task.pc = "tested" => task.kind = "test"
    /\ task.pc = "idle" <=> task.kind = "none"
    /\ RequestKnown

LEMMA InitStages == Init => Stages
  BY IdleFields
  DEF Init, Stages, RepeatedOnlyIfDropped, RequestKnown

LEMMA StagesKeep ==
    ASSUME ClientTypeOK, Stages, [Next]_vars
    PROVE  Stages'
  <1> USE DEF Stages, RepeatedOnlyIfDropped, RequestKnown
  <1>k. task.kind \in {"none", "test", "proof", "call"}
    BY DEF ClientTypeOK, Task
  <1>1. ASSUME NEW kind \in {"test", "call"}, NEW profile \in Profile,
               Begins(kind, profile)
        PROVE  Stages'
    <2>1. UNCHANGED <<request, stored, performed, answered>>
      BY <1>1 DEF Begins
    <2> QED
      BY <1>1, <2>1, BeginsFields
  <1>2. CASE ProbeAnswers
    BY <1>2, DetectedFields DEF ProbeAnswers
  <1>3. CASE ProbeFails
    <2>1. /\ task.pc = "detect"
          /\ UNCHANGED <<request, stored, performed, answered>>
      BY <1>3 DEF ProbeFails
    <2> QED
      BY <1>3, <2>1, ProbeFailsFields
  <1>4. CASE CreateClient
    <2>1. /\ task.pc = "create"
          /\ UNCHANGED <<request, stored, performed, answered>>
      BY <1>4 DEF CreateClient
    <2>2. /\ task'.kind = task.kind
          /\ task'.pc \in {"ready", "login", "tested", "name"}
          /\ task'.pc = "ready" => task.kind = "call"
          /\ task'.pc = "tested" => task.kind = "test"
          /\ task'.pc = "name" => task.kind \notin {"test", "call"}
      BY <1>4, GoesFields DEF CreateClient
    <2> QED
      BY <1>k, <2>1, <2>2
  <1>5. CASE Login
    <2>1. /\ task.pc = "login"
          /\ task'.pc = IF task.kind = "test" THEN "tested" ELSE "post"
          /\ task'.kind = task.kind
          /\ UNCHANGED <<request, stored, performed, answered>>
      BY <1>5, GoesFields DEF Login
    <2> QED
      BY <1>k, <2>1
  <1>6. CASE LoginFails
    BY <1>6, GoesFields DEF LoginFails, Fails
  <1>7. CASE Tested
    <2>1. CASE NeedsProof
      BY <1>7, <2>1, ProofFields, IdleFields DEF Tested
    <2>2. CASE ~ NeedsProof
      BY <1>7, <2>2, GoesFields DEF Tested, Accepted
    <2> QED
      BY <2>1, <2>2
  <1>8. CASE AnyRequest
    <2>1. PICK m \in Method, count \in 0 .. MaxArgs, named \in SUBSET Name,
               ids \in BOOLEAN : StartRequest(Asking(m, count, named, ids))
      BY <1>8 DEF AnyRequest
    <2>2. /\ request'.tries = 0 /\ ~ request'.again
          /\ performed' = 0 /\ answered' = "none" /\ stored' = stored
      BY <2>1 DEF StartRequest, Asking
    <2>3. /\ task.pc = "ready"
          /\ task'.pc \in {"name", "post", "login"}
          /\ task'.kind = task.kind
      BY <2>1, StartRequestFields
    <2> QED
      BY <1>k, <2>2, <2>3
  <1>9. CASE FinishCall
    BY <1>9, GoesFields DEF FinishCall
  <1>10. CASE NameArguments
    BY <1>10, GoesFields DEF NameArguments
  <1>11. CASE AskForSignature
    <2>1. /\ task.pc = "name" /\ request.method \notin Known
          /\ task'.pc = "fetch" /\ task'.kind = task.kind
          /\ UNCHANGED <<request, stored, performed, answered>>
      BY <1>11, GoesFields DEF AskForSignature
    <2>2. task.kind = "call"
      <3>1. request = WhoAmI \/ task.kind = "call"
        BY <1>k, <2>1, WhoAmIType, AgainFields
      <3> QED
        BY <1>k, <2>1, <3>1, IdleFields, MethodAssumption
    <2> QED
      BY <2>1, <2>2
  <1>12. CASE SignatureFound \/ SignatureMissing
    <2>1. /\ task.pc = "fetch" /\ task'.pc = "post" /\ task'.kind = task.kind
          /\ UNCHANGED <<request, stored, performed, answered>>
      BY <1>12, GoesFields DEF SignatureFound, SignatureMissing
    <2> QED
      BY <1>k, <2>1
  <1>13. CASE SignatureUnavailable
    <2>1. /\ task.pc = "fetch" /\ task'.pc \in {"fetch", "post"}
          /\ task'.kind = task.kind
          /\ UNCHANGED <<stored, performed, answered>>
          /\ ~ request'.again
      BY <1>13, GoesFields DEF SignatureUnavailable, ClientTypeOK, Request
    <2>2. task.kind = "call"
      BY <1>k, <2>1
    <2> QED
      BY <2>1, <2>2
  <1>14. CASE PostAnswered
    <2>1. /\ task.pc = "post" /\ UNCHANGED <<request, client, trouble>>
          /\ performed' = performed + 1
          /\ performed \in Nat
      BY <1>14 DEF PostAnswered, Performs, ClientTypeOK
    <2>2. CASE task.kind = "proof"
      BY <1>14, <2>1, <2>2, GoesFields DEF PostAnswered, Accepted
    <2>3. CASE task.kind # "proof"
      <3>1. /\ task'.pc = "ready" /\ task'.kind = task.kind
            /\ task.kind = "call" /\ answered' = "ok" /\ stored' = stored
        BY <1>14, <2>1, <2>3, GoesFields DEF PostAnswered
      <3> QED
        BY <2>1, <3>1
    <2> QED
      BY <2>2, <2>3
  <1>15. CASE AnswerLost
    <2>1. performed' = performed + 1 /\ performed \in Nat
      BY <1>15 DEF AnswerLost, Performs, ClientTypeOK
    <2> QED
      BY <1>15, <2>1, GoesFields DEF AnswerLost, Fails
  <1>16. CASE PostFails
    <2>1. trouble => trouble'
      BY <1>16 DEF PostFails
    <2>2. /\ task.pc = "post" /\ task'.pc = "over" /\ task'.kind = task.kind
          /\ answered' = "error"
          /\ UNCHANGED <<client, request, stored, performed>>
      BY <1>16, GoesFields DEF PostFails, Fails
    <2> QED
      BY <2>1, <2>2
  <1>17. CASE Return
    BY <1>17, IdleFields DEF Return
  <1>18. CASE UNCHANGED vars
    BY <1>18 DEF vars
  <1>19. CASE ConnectionDropped
    <2>1. /\ task.pc = "post" /\ client.speaks = "xmlrpcs"
          /\ ~ request.again
          /\ request' = [request EXCEPT !.again = TRUE] /\ trouble'
          /\ UNCHANGED <<task, client, stored, answered>>
      BY <1>19 DEF ConnectionDropped
    <2>2. request'.again /\ request'.tries = request.tries
      BY <2>1, AgainFields DEF ClientTypeOK
    <2>4. task.kind # "call" => request' = [WhoAmI EXCEPT !.again = TRUE]
      <3> SUFFICES ASSUME task.kind # "call"
                   PROVE  request = WhoAmI
        BY <2>1
      <3> QED
        BY <2>1, WhoAmIType, AgainFields
    <2>3. performed = 0 /\ performed' \in {0, 1}
      BY <1>19, <2>1 DEF ConnectionDropped, Performs, ClientTypeOK
    <2> QED
      BY <2>1, <2>2, <2>3, <2>4
  <1> QED
    BY <1>1, <1>2, <1>3, <1>4, <1>5, <1>6, <1>7, <1>8, <1>9, <1>10, <1>11,
       <1>12, <1>13, <1>14, <1>15, <1>16, <1>17, <1>18, <1>19, BoundAssumption
    DEF Next, Works, StartSignIn, StartCall

-----------------------------------------------------------------------------
(* How often signatures are asked for.                                     *)

LEMMA NewClientFields ==
    ASSUME NEW protocol, NEW secret, NEW m \in Method
    PROVE  /\ NewClient(protocol, secret).fetches[m] = 0
           /\ NewClient(protocol, secret).signatures[m] = "miss"
           /\ NewClient(protocol, secret).speaks = protocol
           /\ NewClient(protocol, secret).secret = secret
  BY DEF NewClient

\* A client that has asked for nothing yet, or the same one with the same
\* requests, knows its fetches where no signature is asked for.
LEMMA FetchesStay ==
    ASSUME ClientTypeOK, FetchesKnown, task.pc # "fetch", task'.pc # "fetch",
           \/ UNCHANGED <<client.fetches, client.signatures>>
           \/ \E protocol, secret : client' = NewClient(protocol, secret)
    PROVE  FetchesKnown'
  <1> SUFFICES ASSUME NEW m \in Method
               PROVE  /\ client'.fetches[m] <= Attempts
                      /\ client'.signatures[m] = "miss"
                            => client'.fetches[m] = 0
    BY DEF FetchesKnown
  <1>1. CASE UNCHANGED <<client.fetches, client.signatures>>
    BY <1>1 DEF FetchesKnown
  <1>2. CASE \E protocol, secret : client' = NewClient(protocol, secret)
    <2>1. client'.fetches[m] = 0
      BY <1>2, NewClientFields
    <2> QED
      BY <2>1, BoundAssumption
  <1> QED
    BY <1>1, <1>2

\* An answer, or none after the last attempt, is remembered.
LEMMA FetchRemembered ==
    ASSUME ClientTypeOK, FetchesKnown, task.pc = "fetch", task'.pc = "post",
           NEW signature \in {"described", "none"},
           client' = Remembered(signature)
    PROVE  FetchesKnown'
  <1> DEFINE r == request.method
  <1>1. /\ client'.signatures = [client.signatures EXCEPT ![r] = signature]
        /\ client'.fetches = [client.fetches EXCEPT ![r] = @ + 1]
    BY DEF ClientTypeOK, Client, Remembered
  <1>2. /\ r \in Method /\ client.fetches \in [Method -> Nat]
        /\ client.signatures \in [Method -> {"miss", "described", "none"}]
    BY Fields
  <1>3. client.fetches[r] = request.tries /\ request.tries < Attempts
    BY <1>2 DEF FetchesKnown
  <1>4. client'.fetches[r] <= Attempts /\ client'.signatures[r] # "miss"
    BY <1>1, <1>2, <1>3, BoundAssumption
  <1>5. \A m \in Method : m # r =>
            /\ client'.fetches[m] = client.fetches[m]
            /\ client'.signatures[m] = client.signatures[m]
    BY <1>1, <1>2
  <1>6. \A m \in Method : m # r =>
            /\ client.fetches[m] <= Attempts
            /\ client.signatures[m] = "miss" => client.fetches[m] = 0
    BY DEF FetchesKnown
  <1> HIDE DEF r
  <1>7. \A m \in Method :
            /\ client'.fetches[m] <= Attempts
            /\ client'.signatures[m] = "miss" => client'.fetches[m] = 0
    BY <1>4, <1>5, <1>6
  <1> QED
    BY <1>7 DEF FetchesKnown

LEMMA FetchesKeep ==
    ASSUME ClientTypeOK, Stages, FetchesKnown, [Next]_vars
    PROVE  FetchesKnown'
  <1>1. ASSUME NEW kind, NEW profile, Begins(kind, profile)
        PROVE  FetchesKnown'
    <2>1. client' = client
      BY <1>1 DEF Begins
    <2> QED
      BY <1>1, <2>1, BeginsFields, FetchesStay
  <1>2. CASE ProbeAnswers
    <2>1. task.pc = "detect"
      BY <1>2 DEF ProbeAnswers
    <2> QED
      BY <1>2, <2>1, DetectedFields, FetchesStay DEF ProbeAnswers
  <1>3. CASE ProbeFails
    <2>1. task.pc = "detect"
      BY <1>3 DEF ProbeFails
    <2> QED
      BY <1>3, <2>1, ProbeFailsFields, FetchesStay
  <1>4. CASE CreateClient
    <2>1. task.pc = "create" /\ task'.pc # "fetch"
      BY <1>4, GoesFields DEF CreateClient
    <2> QED
      BY <1>4, <2>1, FetchesStay DEF CreateClient
  <1>5. CASE Login
    <2>1. /\ client'.fetches = client.fetches
          /\ client'.signatures = client.signatures
      BY <1>5 DEF Login, ClientTypeOK, Client
    <2>2. task.pc = "login" /\ task'.pc # "fetch"
      BY <1>5, GoesFields DEF Login
    <2> QED
      BY <2>1, <2>2, FetchesStay
  <1>6. CASE LoginFails
    BY <1>6, GoesFields, FetchesStay DEF LoginFails, Fails
  <1>7. CASE Tested
    <2>1. task.pc = "tested" /\ client' = client
      BY <1>7 DEF Tested
    <2>2. task'.pc # "fetch"
      BY <1>7, GoesFields, ProofFields DEF Tested, Accepted
    <2> QED
      BY <2>1, <2>2, FetchesStay
  <1>8. CASE AnyRequest
    <2>1. PICK m \in Method, count \in 0 .. MaxArgs, named \in SUBSET Name,
               ids \in BOOLEAN : StartRequest(Asking(m, count, named, ids))
      BY <1>8 DEF AnyRequest
    <2>2. task.pc = "ready" /\ task'.pc # "fetch" /\ client' = client
      BY <2>1, StartRequestFields DEF StartRequest
    <2> QED
      BY <2>2, FetchesStay
  <1>9. CASE FinishCall \/ NameArguments
    <2>1. task.pc # "fetch" /\ task'.pc # "fetch" /\ client' = client
      BY <1>9, GoesFields DEF FinishCall, NameArguments
    <2> QED
      BY <2>1, FetchesStay
  <1>10. CASE AskForSignature
    <2>1. /\ task.pc = "name" /\ task'.pc = "fetch"
          /\ client.signatures[request.method] = "miss"
          /\ request' = request /\ client' = client
      BY <1>10, GoesFields DEF AskForSignature
    <2>2. request.tries = 0 /\ 0 < Attempts
      BY <2>1, BoundAssumption DEF Stages, RequestKnown
    <2> QED
      BY <2>1, <2>2 DEF FetchesKnown
  <1>11. CASE SignatureFound \/ SignatureMissing
    BY <1>11, GoesFields, FetchRemembered DEF SignatureFound, SignatureMissing
  <1>12. CASE SignatureUnavailable
    <2>1. task.pc = "fetch"
      BY <1>12 DEF SignatureUnavailable
    <2>2. CASE request.tries + 1 < Attempts
      <3> DEFINE r == request.method
      <3>1. /\ r \in Method /\ client.fetches \in [Method -> Nat]
            /\ request.tries \in Nat
        BY Fields DEF ClientTypeOK, Request
      <3>2. /\ client'.fetches = [client.fetches EXCEPT ![r] = @ + 1]
            /\ client'.signatures = client.signatures
        BY <1>12, <2>2 DEF SignatureUnavailable, ClientTypeOK, Client
      <3>3. /\ request'.method = r /\ request'.tries = request.tries + 1
            /\ task' = task
        BY <1>12, <2>2 DEF SignatureUnavailable, ClientTypeOK, Request
      <3>4. /\ client.fetches[r] = request.tries
            /\ client.signatures[r] = "miss"
        BY <2>1, <3>1 DEF FetchesKnown
      <3>5. /\ client'.fetches[r] = request'.tries
            /\ client'.fetches[r] <= Attempts
            /\ client'.signatures[r] = "miss"
        BY <2>2, <3>1, <3>2, <3>3, <3>4, BoundAssumption
      <3>6. \A m \in Method : m # r =>
                /\ client'.fetches[m] = client.fetches[m]
                /\ client'.signatures[m] = client.signatures[m]
        BY <3>1, <3>2
      <3> HIDE DEF r
      <3>7. ASSUME NEW m \in Method
            PROVE  /\ client'.fetches[m] <= Attempts
                   /\ client'.signatures[m] = "miss"
                        => client'.fetches[m] = IF m = r THEN request'.tries
                                                         ELSE 0
                   /\ m = r => client'.signatures[m] = "miss"
        <4>1. CASE m = r
          BY <3>5, <4>1
        <4>2. CASE m # r
          BY <2>1, <3>6, <4>2 DEF FetchesKnown, r
        <4> QED
          BY <4>1, <4>2
      <3> QED
        BY <2>1, <2>2, <3>3, <3>7 DEF FetchesKnown
    <2>3. CASE ~ (request.tries + 1 < Attempts)
      BY <1>12, <2>1, <2>3, GoesFields, FetchRemembered
      DEF SignatureUnavailable
    <2> QED
      BY <2>2, <2>3
  <1>13. CASE PostAnswered \/ ConnectionDropped \/ AnswerLost \/ PostFails
    <2>1. task.pc = "post" /\ client' = client
      BY <1>13 DEF PostAnswered, ConnectionDropped, AnswerLost, PostFails
    <2>2. task'.pc # "fetch"
      BY <1>13, GoesFields
      DEF PostAnswered, ConnectionDropped, AnswerLost, PostFails, Accepted,
          Fails
    <2> QED
      BY <2>1, <2>2, FetchesStay
  <1>14. CASE Return
    <2>1. task.pc = "over" /\ task'.pc = "idle"
      BY <1>14, IdleFields DEF Return
    <2> QED
      BY <1>14, <2>1, FetchesStay DEF Return
  <1>15. CASE UNCHANGED vars
    BY <1>15 DEF vars, FetchesKnown
  <1> QED
    BY <1>1, <1>2, <1>3, <1>4, <1>5, <1>6, <1>7, <1>8, <1>9, <1>10, <1>11,
       <1>12, <1>13, <1>14, <1>15
    DEF Next, Works, StartSignIn, StartCall

-----------------------------------------------------------------------------
(* What a sign-in proves, and why one fails.                               *)

LEMMA ClientKeeps ==
    ASSUME ClientTypeOK, Stages, ClientKnown, [Next]_vars
    PROVE  ClientKnown'
  <1> USE DEF ClientKnown
  <1>1. ASSUME NEW kind, NEW profile, Begins(kind, profile)
        PROVE  ClientKnown'
    BY <1>1, BeginsFields
  <1>2. CASE ProbeAnswers
    BY <1>2, DetectedFields DEF ProbeAnswers
  <1>3. CASE ProbeFails
    BY <1>3, ProbeFailsFields
  <1>4. CASE CreateClient
    <2>1. /\ task'.profile = task.profile /\ task'.protocol = task.protocol
          /\ task'.pc = "tested" => Speaks = "json2s"
      BY <1>4, GoesFields DEF CreateClient
    <2>2. client'.speaks = Speaks /\ client'.secret = SecretFor(Speaks)
      BY <1>4 DEF CreateClient, NewClient
    <2>3. client'.secret = SecretFor(client'.speaks)
      BY <2>2
    <2>4. task.protocol \in {Speaks, "auto"}
      BY DEF Speaks
    <2> QED
      BY <2>1, <2>2, <2>3, <2>4 DEF SecretFor
  <1>5. CASE Login
    <2>1. /\ task.pc = "login" /\ task'.profile = task.profile
          /\ task'.protocol = task.protocol
      BY <1>5, GoesFields DEF Login
    <2>2. client'.speaks = client.speaks /\ client'.secret = client.secret
      BY <1>5 DEF Login, ClientTypeOK, Client
    <2>3. <<client.speaks, client.secret>> \in proved'
      BY <1>5 DEF Login, LetsIn
    <2> QED
      BY <2>1, <2>2, <2>3 DEF SecretFor
  <1>6. CASE LoginFails
    BY <1>6, GoesFields DEF LoginFails, Fails
  <1>7. CASE Tested
    BY <1>7, GoesFields, ProofFields DEF Tested, Accepted
  <1>8. CASE AnyRequest
    <2>1. PICK m \in Method, count \in 0 .. MaxArgs, named \in SUBSET Name,
               ids \in BOOLEAN : StartRequest(Asking(m, count, named, ids))
      BY <1>8 DEF AnyRequest
    <2>2. /\ task.pc = "ready" /\ task'.pc # "tested"
          /\ task'.profile = task.profile /\ task'.protocol = task.protocol
          /\ client' = client
      BY <2>1, StartRequestFields DEF StartRequest
    <2> QED
      BY <2>2 DEF SecretFor
  <1>9. CASE FinishCall
    BY <1>9, GoesFields DEF FinishCall
  <1>10. CASE NameArguments \/ AskForSignature
    <2>1. /\ task.pc = "name" /\ task'.pc \in {"post", "fetch"}
          /\ task'.profile = task.profile /\ task'.protocol = task.protocol
          /\ client' = client
      BY <1>10, GoesFields DEF NameArguments, AskForSignature
    <2> QED
      BY <2>1 DEF SecretFor
  <1>11. CASE SignatureFound \/ SignatureMissing \/ SignatureUnavailable
    <2>1. /\ task.pc = "fetch" /\ task'.pc \in {"fetch", "post"}
          /\ task'.profile = task.profile /\ task'.protocol = task.protocol
      BY <1>11, GoesFields
      DEF SignatureFound, SignatureMissing, SignatureUnavailable
    <2>2. client'.speaks = client.speaks /\ client'.secret = client.secret
      BY <1>11 DEF SignatureFound, SignatureMissing, SignatureUnavailable,
                   Remembered, ClientTypeOK, Client
    <2> QED
      BY <2>1, <2>2 DEF SecretFor
  <1>12. CASE PostAnswered \/ ConnectionDropped \/ AnswerLost \/ PostFails
    <2>1. /\ task.pc = "post" /\ task'.pc \in {"post", "ready", "over"}
          /\ task'.profile = task.profile /\ task'.protocol = task.protocol
          /\ client' = client
      BY <1>12, GoesFields
      DEF PostAnswered, ConnectionDropped, AnswerLost, PostFails, Accepted,
          Fails
    <2> QED
      BY <2>1 DEF SecretFor
  <1>13. CASE Return
    BY <1>13, IdleFields DEF Return
  <1>14. CASE UNCHANGED vars
    BY <1>14 DEF vars, SecretFor
  <1> QED
    BY <1>1, <1>2, <1>3, <1>4, <1>5, <1>6, <1>7, <1>8, <1>9, <1>10, <1>11,
       <1>12, <1>13, <1>14
    DEF Next, Works, StartSignIn, StartCall

LEMMA SignInKeeps ==
    ASSUME ClientTypeOK, Stages, SignInKnown, [Next]_vars
    PROVE  SignInKnown'
  <1> USE DEF SignInKnown
  <1>c. odoo' = odoo => Chosen(odoo)' = Chosen(odoo)
    BY DEF Chosen
  <1>1. ASSUME NEW kind \in {"test", "call"}, NEW profile,
               Begins(kind, profile),
               kind = "test" => profile.password = "none"
                                \/ profile.apiKey = "none"
        PROVE  SignInKnown'
    BY <1>1, BeginsFields
  <1>2. CASE ProbeAnswers
    <2>1. task.pc = "detect" /\ odoo' = odoo /\ trouble' = trouble
      BY <1>2 DEF ProbeAnswers
    <2>2. /\ task'.pc = "create" /\ task'.kind = task.kind
          /\ task'.profile = task.profile /\ task'.protocol = task.protocol
          /\ client' = NewClient(Chosen(odoo), "none")
      BY <1>2, DetectedFields DEF ProbeAnswers
    <2>3. client'.speaks = Chosen(odoo)
      BY <2>2 DEF NewClient
    <2> QED
      BY <1>c, <2>1, <2>2, <2>3
  <1>3. CASE ProbeFails
    <2>1. /\ task.pc = "detect" /\ odoo' = odoo
          /\ trouble' = (trouble \/ Answers(task.probe))
      BY <1>3 DEF ProbeFails
    <2> QED
      BY <1>3, <1>c, <2>1, ProbeFailsFields
  <1>4. CASE CreateClient
    <2>1. /\ task.pc = "create" /\ odoo' = odoo /\ trouble' = trouble
          /\ client' = NewClient(Speaks, SecretFor(Speaks))
      BY <1>4 DEF CreateClient
    <2>2. /\ task'.kind = task.kind /\ task'.profile = task.profile
          /\ task'.protocol = task.protocol
          /\ task'.pc \in {"ready", "login", "tested", "name"}
      BY <1>4, GoesFields DEF CreateClient
    <2>3. client'.speaks = Speaks
      BY <2>1 DEF NewClient
    <2> QED
      BY <1>c, <2>1, <2>2, <2>3 DEF Speaks
  <1>5. CASE Login
    <2>1. /\ task.pc = "login" /\ odoo' = odoo /\ trouble' = trouble
          /\ client'.speaks = client.speaks
      BY <1>5 DEF Login, ClientTypeOK, Client
    <2>2. /\ task'.kind = task.kind /\ task'.profile = task.profile
          /\ task'.protocol = task.protocol
      BY <1>5, GoesFields DEF Login
    <2> QED
      BY <1>c, <2>1, <2>2
  <1>6. CASE LoginFails
    <2>1. /\ task.pc = "login" /\ odoo' = odoo /\ client' = client
          /\ trouble' = (trouble \/ LetIn)
      BY <1>6 DEF LoginFails
    <2>2. /\ task'.kind = task.kind /\ task'.profile = task.profile
          /\ task'.protocol = task.protocol
      BY <1>6, GoesFields DEF LoginFails, Fails
    <2> QED
      BY <1>c, <2>1, <2>2
  <1>7. CASE Tested
    <2>1. /\ task.pc = "tested" /\ odoo' = odoo /\ client' = client
          /\ trouble' = trouble
      BY <1>7 DEF Tested
    <2>2. task.kind = "test"
      BY <2>1 DEF Stages
    <2>3. CASE NeedsProof
      BY <1>7, <1>c, <2>1, <2>2, <2>3, ProofFields DEF Resolved
    <2>4. CASE ~ NeedsProof
      <3>1. /\ task'.kind = task.kind /\ task'.profile = task.profile
            /\ task'.protocol = task.protocol
        BY <1>7, <2>4, GoesFields DEF Tested, Accepted
      <3> QED
        BY <1>c, <2>1, <3>1
    <2> QED
      BY <2>3, <2>4
  <1>8. CASE AnyRequest
    <2>1. PICK m \in Method, count \in 0 .. MaxArgs, named \in SUBSET Name,
               ids \in BOOLEAN : StartRequest(Asking(m, count, named, ids))
      BY <1>8 DEF AnyRequest
    <2>2. task.pc = "ready" /\ task'.kind = task.kind
      BY <2>1, StartRequestFields
    <2> QED
      BY <2>2 DEF Stages, RequestKnown
  <1>9. CASE FinishCall \/ NameArguments \/ AskForSignature
    <2>1. /\ task.pc \in {"ready", "name"} /\ odoo' = odoo
          /\ client' = client /\ trouble' = trouble
      BY <1>9 DEF FinishCall, NameArguments, AskForSignature
    <2>2. /\ task'.kind = task.kind /\ task'.profile = task.profile
          /\ task'.protocol = task.protocol
      BY <1>9, GoesFields DEF FinishCall, NameArguments, AskForSignature
    <2> QED
      BY <1>c, <2>1, <2>2
  <1>10. CASE SignatureFound \/ SignatureMissing \/ SignatureUnavailable
    <2>1. task.pc = "fetch" /\ task'.kind = task.kind
      BY <1>10, GoesFields
      DEF SignatureFound, SignatureMissing, SignatureUnavailable
    <2> QED
      BY <2>1 DEF Stages, RequestKnown
  <1>11. CASE PostAnswered \/ ConnectionDropped \/ AnswerLost \/ PostFails
    <2>1. /\ task.pc = "post" /\ odoo' = odoo /\ client' = client
          /\ ~ trouble' => ~ trouble
      <3>1. CASE PostAnswered
        BY <3>1 DEF PostAnswered
      <3>2. CASE AnswerLost
        BY <3>2 DEF AnswerLost
      <3>3. CASE PostFails
        BY <3>3 DEF PostFails
      <3>4. CASE ConnectionDropped
        BY <3>4 DEF ConnectionDropped
      <3> QED
        BY <1>11, <3>1, <3>2, <3>3, <3>4
    <2>2. /\ task'.kind = task.kind /\ task'.profile = task.profile
          /\ task'.protocol = task.protocol
      BY <1>11, GoesFields
      DEF PostAnswered, ConnectionDropped, AnswerLost, PostFails, Accepted,
          Fails
    <2> QED
      BY <1>c, <2>1, <2>2
  <1>12. CASE Return
    BY <1>12, IdleFields DEF Return
  <1>13. CASE UNCHANGED vars
    BY <1>13, <1>c DEF vars
  <1> QED
    BY <1>1, <1>2, <1>3, <1>4, <1>5, <1>6, <1>7, <1>8, <1>9, <1>10, <1>11,
       <1>12, <1>13
    DEF Next, Works, StartSignIn, StartCall

\* Nobody knows a profile that is stored but the sign-in that stores it.
LEMMA AcceptedKeeps ==
    ASSUME ClientTypeOK, Stages, ClientKnown, AcceptedIsProved, [Next]_vars
    PROVE  AcceptedIsProved'
  <1>1. CASE Tested
    <2>1. task.pc = "tested" /\ stored = {}
      BY <1>1 DEF Tested, Stages
    <2>2. CASE NeedsProof
      BY <1>1, <2>1, <2>2 DEF Tested, AcceptedIsProved
    <2>3. CASE ~ NeedsProof
      <3>1. Resolved # "json2s" /\ task.profile.password # "none"
        BY <2>3 DEF NeedsProof
      <3>2. client.speaks # "json2s"
        BY <3>1 DEF Resolved
      <3>3. /\ client.secret = task.profile.password
            /\ <<client.speaks, client.secret>> \in proved
            /\ task.protocol \in {client.speaks, "auto"}
        BY <2>1, <3>2 DEF ClientKnown, SecretFor
      <3>4. Resolved \in {client.speaks, "auto"} /\ client.speaks \in Protocol
        BY <3>3, Fields DEF Resolved
      <3>5. stored' = {[task.profile EXCEPT !.protocol = Resolved]}
            /\ proved' = proved
        BY <1>1, <2>3 DEF Tested, Accepted
      <3>6. /\ [task.profile EXCEPT !.protocol = Resolved].protocol = Resolved
            /\ [task.profile EXCEPT !.protocol = Resolved].password
                    = task.profile.password
        BY Fields DEF Profile
      <3> QED
        BY <3>3, <3>4, <3>5, <3>6 DEF AcceptedIsProved
    <2> QED
      BY <2>2, <2>3
  <1>2. CASE PostAnswered
    <2>1. task.pc = "post" /\ stored = {}
      BY <1>2 DEF PostAnswered, Stages
    <2>2. CASE task.kind = "proof"
      <3>1. stored' = {[task.profile EXCEPT !.protocol = task.protocol]}
            /\ <<client.speaks, client.secret>> \in proved'
        BY <1>2, <2>2 DEF PostAnswered, Performs, LetsIn, Accepted
      <3>2. /\ client.secret \in {task.profile.password, task.profile.apiKey}
            /\ task.protocol \in {client.speaks, "auto"}
            /\ client.speaks \in Protocol
        BY <2>1, Fields DEF ClientKnown, SecretFor
      <3>3. LET new == [task.profile EXCEPT !.protocol = task.protocol]
            IN  /\ new.protocol = task.protocol
                /\ new.password = task.profile.password
                /\ new.apiKey = task.profile.apiKey
        BY Fields DEF Profile
      <3> QED
        BY <3>1, <3>2, <3>3 DEF AcceptedIsProved
    <2>3. CASE task.kind # "proof"
      BY <1>2, <2>1, <2>3 DEF PostAnswered, AcceptedIsProved
    <2> QED
      BY <2>2, <2>3
  <1>3. CASE Return
    BY <1>3 DEF Return, AcceptedIsProved
  <1>4. CASE stored' = stored /\ proved \subseteq proved'
    BY <1>4 DEF AcceptedIsProved
  <1>5. \/ stored' = stored /\ proved \subseteq proved'
        \/ Tested \/ PostAnswered \/ Return
    BY DEF Next, Works, StartSignIn, StartCall, Begins, ProbeAnswers,
           ProbeFails, CreateClient, Login, LoginFails, LetsIn, AnyRequest,
           StartRequest, FinishCall, NameArguments, AskForSignature,
           SignatureFound, SignatureMissing, SignatureUnavailable,
           ConnectionDropped, AnswerLost, Performs, PostFails, vars
  <1> QED
    BY <1>1, <1>2, <1>3, <1>4, <1>5

\* What proves a secret is in the table, and its names are in their places.
LEMMA WhoAmIUnderstood ==
    ASSUME ClientTypeOK,
           request \in {WhoAmI, [WhoAmI EXCEPT !.again = TRUE]}
    PROVE  Understood
  <1> DEFINE m == "search_read"
  <1>1. /\ m \in Known /\ m \in Method
        /\ request.method = m /\ request.named = {}
    <2>1. WhoAmI.method = m /\ WhoAmI.named = {} /\ WhoAmI \in Request
      BY IdleFields, WhoAmIType
    <2>2. LET again == [WhoAmI EXCEPT !.again = TRUE]
          IN  again.method = m /\ again.named = {}
      BY <2>1 DEF Request
    <2> QED
      BY <2>1, <2>2, MethodAssumption
  <1>2. Body = ByName(Table[m])
    BY <1>1 DEF Body
  <1>3. DOMAIN Body
            = {Table[m][i] : i \in {j \in 1 .. Len(Table[m]) :
                                        j <= request.count}}
    BY <1>1, <1>2 DEF ByName
  <1>4. \A i \in 1 .. Len(Table[m]) :
            i \in 1 .. Len(Signature(m)) /\ Table[m][i] = Signature(m)[i]
    BY <1>1, MethodAssumption, SignatureNames
  <1> QED
    BY <1>1, <1>3, <1>4 DEF Understood

\* Whom the server of a detected protocol does not let in has no secret that
\* could be used there.
LEMMA NotLetIn ==
    ASSUME ClientTypeOK, client.speaks = Chosen(odoo), ~ LetIn,
           client.secret = SecretFor(client.speaks),
           task.profile.password = "none" \/ task.profile.apiKey = "none"
    PROVE  ~ Usable(task.profile)
  <1>1. odoo \in Nat
    BY Fields
  <1>2. Serves(client.speaks)
    BY <1>1 DEF Chosen, Serves
  <1>3. CASE odoo >= 19
    <2>1. client.speaks = "json2s"
      BY <1>3 DEF Chosen
    <2>2. client.secret # "key"
      BY <1>2 DEF LetIn
    <2> QED
      BY <1>3, <2>1, <2>2 DEF Usable, SecretFor
  <1>4. CASE ~ (odoo >= 19)
    <2>1. client.speaks # "json2s"
      BY <1>4 DEF Chosen
    <2>2. client.secret \notin {"key", "password"}
      BY <1>2, <2>1 DEF LetIn
    <2> QED
      BY <1>4, <2>1, <2>2 DEF Usable, SecretFor
  <1> QED
    BY <1>3, <1>4

LEMMA RefusedKeeps ==
    ASSUME ClientTypeOK, Stages, ClientKnown, SignInKnown, RefusedForCause,
           [Next]_vars
    PROVE  RefusedForCause'
  <1>1. CASE LoginFails
    <2>1. /\ task.pc = "login" /\ trouble' = (trouble \/ LetIn)
          /\ odoo' = odoo
      BY <1>1 DEF LoginFails
    <2>2. task'.kind = task.kind /\ task'.profile = task.profile
      BY <1>1, GoesFields DEF LoginFails, Fails
    <2> SUFFICES ASSUME task.kind \in {"test", "proof"},
                        task.profile.protocol = "auto", ~ trouble, ~ LetIn
                 PROVE  ~ Usable(task.profile)
      BY <2>1, <2>2 DEF RefusedForCause, Usable
    <2> QED
      BY <2>1, NotLetIn DEF ClientKnown, SignInKnown
  <1>2. CASE PostFails
    <2>1. /\ task.pc = "post" /\ odoo' = odoo
          /\ trouble' = (trouble \/ (LetIn /\ Understood))
      BY <1>2 DEF PostFails
    <2>2. task'.kind = task.kind /\ task'.profile = task.profile
      BY <1>2, GoesFields DEF PostFails, Fails
    <2> SUFFICES ASSUME task.kind \in {"test", "proof"},
                        task.profile.protocol = "auto", ~ trouble,
                        ~ (LetIn /\ Understood)
                 PROVE  ~ Usable(task.profile)
      BY <2>1, <2>2 DEF RefusedForCause, Usable
    <2>3. Understood
      BY WhoAmIUnderstood DEF Stages, RequestKnown
    <2> QED
      BY <2>1, <2>3, NotLetIn DEF ClientKnown, SignInKnown
  <1>3. CASE ConnectionDropped \/ AnswerLost
    BY <1>3 DEF ConnectionDropped, AnswerLost, RefusedForCause
  <1>4. CASE UNCHANGED vars
    BY <1>4 DEF vars, RefusedForCause, Usable
  <1>5. ASSUME \/ task'.pc # "over" \/ answered' # "error"
        PROVE  RefusedForCause'
    BY <1>5 DEF RefusedForCause
  <1>6. ASSUME Tested \/ PostAnswered
        PROVE  task'.pc # "over" \/ answered' # "error"
    <2>1. CASE Tested
      BY <2>1, ProofFields DEF Tested, Accepted
    <2>2. CASE PostAnswered
      BY <2>2 DEF PostAnswered, Accepted
    <2> QED
      BY <1>6, <2>1, <2>2
  <1>7. CASE FinishCall
    <2>1. task.kind = "call" /\ task'.kind = task.kind
      BY <1>7, GoesFields DEF FinishCall, Stages, RequestKnown, ClientTypeOK,
                              Task
    <2> QED
      BY <2>1 DEF RefusedForCause
  <1>8. (\/ ProbeAnswers \/ ProbeFails \/ CreateClient \/ Login
         \/ NameArguments \/ AskForSignature \/ SignatureFound
         \/ SignatureMissing \/ SignatureUnavailable \/ Return)
            => task'.pc # "over"
    BY GoesFields, DetectedFields, ProbeFailsFields, IdleFields
    DEF ProbeAnswers, CreateClient, Login, NameArguments, AskForSignature,
        SignatureFound, SignatureMissing, SignatureUnavailable, Return
  <1>9. AnyRequest => task'.pc # "over"
    BY StartRequestFields DEF AnyRequest
  <1>10. (\/ \E profile \in Profile : StartSignIn(profile)
          \/ \E profile \in CallProfile : StartCall(profile))
            => task'.pc # "over"
    BY BeginsFields DEF StartSignIn, StartCall
  <1>11. Works => RefusedForCause'
    BY <1>1, <1>2, <1>3, <1>5, <1>6, <1>7, <1>8, <1>9 DEF Works
  <1> QED
    BY <1>4, <1>5, <1>10, <1>11 DEF Next

-----------------------------------------------------------------------------
(* The theorems.                                                           *)

\* Types, and everything that is known of the stages, the fetches, the client
\* and the sign-in hold in every state, for any version of Odoo, any methods
\* with their parameters, and any number of requests and attempts.
THEOREM ClientsAreKnown == Spec => []ClientInductive
  <1>1. Init => ClientInductive
    <2> SUFFICES ASSUME Init PROVE ClientInductive
      OBVIOUS
    <2>1. ClientTypeOK /\ Stages
      BY InitType, InitStages
    <2>2. task.pc = "idle" /\ task.kind = "none" /\ stored = {}
      BY IdleFields DEF Init
    <2>3. FetchesKnown
      BY <2>2, NewClientFields, BoundAssumption DEF Init, FetchesKnown
    <2> QED
      BY <2>1, <2>2, <2>3
      DEF ClientInductive, Stages, AcceptedIsProved, RefusedForCause,
          ClientKnown, SignInKnown
  <1>2. ClientInductive /\ [Next]_vars => ClientInductive'
    <2> SUFFICES ASSUME ClientInductive, [Next]_vars
                 PROVE  ClientInductive'
      OBVIOUS
    <2>1. /\ ClientTypeOK /\ Stages /\ AcceptedIsProved /\ RefusedForCause
          /\ FetchesKnown /\ ClientKnown /\ SignInKnown
      BY DEF ClientInductive, Stages
    <2>2. /\ ClientTypeOK' /\ Stages' /\ AcceptedIsProved'
          /\ RefusedForCause' /\ FetchesKnown' /\ ClientKnown' /\ SignInKnown'
      BY <2>1, TypeKeeps, StagesKeep, AcceptedKeeps, RefusedKeeps,
         FetchesKeep, ClientKeeps, SignInKeeps
    <2> QED
      BY <2>2 DEF ClientInductive, Stages
  <1> QED
    BY <1>1, <1>2, PTL DEF Spec

\* Odoo does what a request asks for once at most, or twice over XML-RPC when
\* the connection has dropped, and has done it when the tool is told so
\* (execute_kw; _execute_kw_raw and its transport).
THEOREM RequestsRepeatedOnlyIfDropped == Spec => []RepeatedOnlyIfDropped
  <1>1. ClientInductive => RepeatedOnlyIfDropped
    BY DEF ClientInductive
  <1> QED
    BY <1>1, ClientsAreKnown, PTL

\* Every parameter of a request that Odoo performs has the value given in its
\* place or by its name (_build_body).
THEOREM ArgumentsStayInPlace == Spec => []ArgumentsInPlace
  <1>1. ClientInductive => ArgumentsInPlace
    BY BodyInPlace DEF ClientInductive
  <1> QED
    BY <1>1, ClientsAreKnown, PTL

\* The signature of a method is asked for in one round of attempts by a client
\* (_fetch_method_signature and its cache).
THEOREM FetchesStayBounded == Spec => []FetchesBounded
  <1>1. ClientInductive => FetchesBounded
    BY DEF ClientInductive, FetchesKnown, FetchesBounded
  <1> QED
    BY <1>1, ClientsAreKnown, PTL

\* What a sign-in stores has been let in by Odoo over the stored protocol
\* (op_validate_credentials).
THEOREM SignInsAreProved == Spec => []AcceptedIsProved
  <1>1. ClientInductive => AcceptedIsProved
    BY DEF ClientInductive
  <1> QED
    BY <1>1, ClientsAreKnown, PTL

\* Without trouble on the way only a useless secret is refused (op_test_-
\* connection, op_validate_credentials).
THEOREM RefusalsHaveCause == Spec => []RefusedForCause
  <1>1. ClientInductive => RefusedForCause
    BY DEF ClientInductive
  <1> QED
    BY <1>1, ClientsAreKnown, PTL
==============================================================================
