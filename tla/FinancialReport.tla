-------------------------- MODULE FinancialReport ---------------------------
(***************************************************************************)
(* get_financial_report: one call, a chain of requests to an Odoo that may *)
(* be upgraded between any two of them.                                    *)
(*                                                                         *)
(* The version decides whether reports are there at all and by which       *)
(* method they are computed: get_report_informations in Odoo 17 and 18,    *)
(* get_report_information since 19.  get_options redirects to the variant  *)
(* of the report for the country of the companies.                         *)
(***************************************************************************)
EXTENDS Naturals

CONSTANTS
    Report,         \* the reports of Odoo
    Variant,        \* the variant that get_options redirects a report to
    Versions,       \* the major versions Odoo may have
    RefKinds,       \* the ways in which callers name a report
    Formats         \* the formats they ask for

None == "none"

Unknown == 0

ASSUME ReportConstants ==
    /\ Variant \in [Report -> Report]
    /\ Versions \subseteq Nat \ {Unknown}
    /\ None \notin Report

VARIABLES
    server,     \* the version of Odoo
    pc,         \* the request that comes next
    call,       \* the arguments
    learned,    \* the version that the client knows, and its last_warning
    options,    \* the report that get_options chose
    again,      \* XML-RPC has posted the request a second time
    begun,      \* history: how often Odoo has begun to compute a report
    computed,   \* history: how many reports it has computed for the call
    dropped,    \* history: how many connections dropped while it was asked to
    reply

asked == <<again, begun, computed, dropped>>

reportVars == <<server, pc, call, learned, options, asked, reply>>

Plural == "get_report_informations"
Singular == "get_report_information"
ReportMethods == {Plural, Singular}

VALID_FORMATS == {"json", "compact", "table", "html", "csv"}

ReportCall ==
    [kind : RefKinds, report : Report, format : Formats,
     companies : {None, "some", "invalid"},
     protocol : {"json2s", "jsonrpcs", "xmlrpcs"}, allowed : BOOLEAN]

Reply ==
    [result : {"none", "error", "not_found", "empty", "data"},
     report : Report \cup {None}, companies : {None, "some"},
     method : ReportMethods \cup {None}, warning : ReportMethods \cup {None}]

NoReply ==
    [result |-> "none", report |-> None, companies |-> None,
     method |-> None, warning |-> None]

Error(what) == [NoReply EXCEPT !.result = what]

ReportTypeOK ==
    /\ server \in Versions
    /\ pc \in {"start", "version", "base", "resolve", "options", "compute",
               "fallback", "done"}
    /\ call \in ReportCall
    /\ learned \in [version : Versions \cup {Unknown},
                    warning : ReportMethods \cup {None}]
    /\ options \in Report \cup {None}
    /\ pc \in {"compute", "fallback"} => options \in Report
    /\ again \in BOOLEAN
    /\ begun \in Nat /\ computed \in Nat /\ dropped \in Nat
    /\ reply \in Reply

ReportInit ==
    /\ server \in Versions
    /\ pc = "start"
    /\ call \in ReportCall
    /\ learned = [version |-> Unknown, warning |-> None]
    /\ options = None
    /\ again = FALSE
    /\ begun = 0 /\ computed = 0 /\ dropped = 0
    /\ reply = NoReply

\* External: Odoo is upgraded.
Upgrade ==
    /\ pc # "done"
    /\ \E v \in Versions : v > server /\ server' = v
    /\ UNCHANGED <<pc, call, learned, options, asked, reply>>

Stop(with) ==
    /\ pc' = "done"
    /\ reply' = with

-----------------------------------------------------------------------------
(* External: which requests Odoo can answer.                               *)

Reachable == call.protocol = "json2s" => server >= 19

HasMethod(method) ==
    method = (IF server < 19 THEN Plural ELSE Singular)

-----------------------------------------------------------------------------

Start ==
    /\ pc = "start"
    /\ IF call.allowed /\ call.format \in VALID_FORMATS
       THEN pc' = "version" /\ UNCHANGED reply
       ELSE Stop(Error("error"))
    /\ UNCHANGED <<server, call, learned, options, asked>>

\* validate_version_compatibility; an unknown version is none at all.
Compatible(version) == version >= 17

\* The method by the version, which for 17 and 18 goes into a warning.
MethodOf(version) == IF version \in {17, 18} THEN Plural ELSE Singular

\* The client knows the version: go on, unless it has no such reports.
Validate(version) ==
    /\ learned' = [version |-> version,
                  warning |-> IF version \in {17, 18} THEN Plural ELSE None]
    /\ IF Compatible(version) THEN pc' = "resolve" /\ UNCHANGED reply
                              ELSE Stop(Error("error"))

\* The public endpoint, which does not depend on the protocol, tells the
\* version; or it cannot be read.
GetServerVersion ==
    /\ pc = "version"
    /\ \/ Validate(server)
       \/ pc' = "base" /\ UNCHANGED <<learned, reply>>
    /\ UNCHANGED <<server, call, options, asked>>

\* The version of the base module is as good; or nothing is known.
BaseVersion ==
    /\ pc = "base"
    /\ \/ Reachable /\ Validate(server)
       \/ Stop(Error("error")) /\ UNCHANGED learned
    /\ UNCHANGED <<server, call, options, asked>>

\* A number is the id, whether or not there is such a report.  What has a dot
\* is an XML id, and anything else a name: as it is, or in another case.
Resolves(kind) == kind \in {"id", "missing_id", "xmlid", "name", "other_case"}

Resolve ==
    /\ pc = "resolve"
    /\ \/ /\ call.kind \in {"id", "missing_id"} \/ Reachable
          /\ IF ~ Resolves(call.kind) THEN Stop(Error("not_found"))
             ELSE IF call.companies = "invalid" THEN Stop(Error("error"))
             ELSE pc' = "options" /\ UNCHANGED reply
       \/ /\ call.kind \notin {"id", "missing_id"}
          /\ Stop(Error("error"))
    /\ UNCHANGED <<server, call, learned, options, asked>>

ActualReport(report) == Variant[report]

GetOptions ==
    /\ pc = "options"
    /\ \/ /\ Reachable /\ call.kind # "missing_id"
          /\ options' = ActualReport(call.report)
          /\ pc' = "compute"
          /\ UNCHANGED reply
       \/ Stop(Error("error")) /\ UNCHANGED options
    /\ UNCHANGED <<server, call, learned, asked>>

\* What can come of a request for a report.  Odoo may fail while it computes,
\* with an error that reads like that of a missing method or with another one;
\* when the answer is lost the report has been computed all the same.
Outcomes(method) ==
    {"refused"} \cup
        (IF ~ Reachable THEN {}
         ELSE IF HasMethod(method)
              THEN {"answer", "lost", "raised", "raised_missing"}
              ELSE {"missing"})

\* Whatever fails is tried with the other method.
BadMethodMissing(outcome) == outcome # "answer"

\* OdooMethodNotFoundError, by the words of the error ("has no attribute",
\* "object has no"), which an error of the computation may have too.  JSON-2
\* does not raise it.
MethodMissing(outcome) ==
    outcome \in {"missing", "raised_missing"} /\ call.protocol # "json2s"

Computes(outcome) ==
    /\ begun' = begun + IF outcome \in {"refused", "missing"} THEN 0 ELSE 1
    /\ computed' = computed + IF outcome \in {"answer", "lost"} THEN 1 ELSE 0

Asks(method, outcome) ==
    /\ outcome \in Outcomes(method)
    /\ Computes(outcome)
    /\ again' = FALSE
    /\ UNCHANGED dropped

\* The connection drops, whatever Odoo was doing: the transport of XML-RPC
\* posts the request a second time.
ConnectionDrops(method) ==
    /\ call.protocol = "xmlrpcs" /\ ~ again
    /\ \E outcome \in Outcomes(method) : Computes(outcome)
    /\ again' = TRUE
    /\ dropped' = dropped + 1
    /\ UNCHANGED <<server, pc, call, learned, options, reply>>

\* _format_financial_report has nothing for "compact".
Succeeds(method, warning) ==
    Stop(IF call.format = "compact"
         THEN [NoReply EXCEPT !.result = "empty", !.warning = warning]
         ELSE [result |-> "data", report |-> options,
               companies |-> call.companies, method |-> method,
               warning |-> warning])

Compute ==
    /\ pc = "compute"
    /\ LET method == MethodOf(learned.version)
       IN \E outcome \in Outcomes(method) :
           /\ Asks(method, outcome)
           /\ IF outcome = "answer" THEN Succeeds(method, learned.warning)
              ELSE IF MethodMissing(outcome)
                   THEN pc' = "fallback" /\ UNCHANGED reply
                   ELSE Stop(Error("error"))
    /\ UNCHANGED <<server, call, learned, options>>

ComputeDropped ==
    /\ pc = "compute"
    /\ ConnectionDrops(MethodOf(learned.version))

Other(method) == IF method = Plural THEN Singular ELSE Plural

\* The warning for 17 and 18 stays when it is the other method that answers.
BadFallbackWarning(method) == learned.warning

\* last_warning names the method that has answered.
FallbackWarning(method) == method

Fallback ==
    /\ pc = "fallback"
    /\ LET method == Other(MethodOf(learned.version))
       IN \E outcome \in Outcomes(method) :
           /\ Asks(method, outcome)
           /\ IF outcome = "answer"
              THEN Succeeds(method, FallbackWarning(method))
              ELSE Stop(Error("error"))
    /\ UNCHANGED <<server, call, learned, options>>

FallbackDropped ==
    /\ pc = "fallback"
    /\ ConnectionDrops(Other(MethodOf(learned.version)))

-----------------------------------------------------------------------------

ReportNext ==
    \/ Upgrade
    \/ Start \/ GetServerVersion \/ BaseVersion \/ Resolve \/ GetOptions
    \/ Compute \/ ComputeDropped \/ Fallback \/ FallbackDropped

ReportSpec == ReportInit /\ [][ReportNext]_reportVars

-----------------------------------------------------------------------------
(* What a caller can rely on.                                              *)

\* A report that is returned is the variant for the companies, computed for the
\* companies that were asked for, by the method that the warning names, or
\* without a warning the one of today's Odoo: also when Odoo was upgraded since
\* the client learned its version.
RightReport ==
    reply.result = "data" =>
        /\ reply.report = Variant[call.report]
        /\ reply.companies = call.companies
        /\ reply.method = IF reply.warning = None THEN Singular
                                                  ELSE reply.warning

\* For one call Odoo completes a report once, though it may be asked by both
\* methods, and once more for each connection of XML-RPC that drops: any other
\* error, a lost answer too, is no reason to ask again.  It begins another one
\* only for an error that reads like that of a missing method, and only if it
\* was upgraded meanwhile to a version with the other method.
ComputedAgainForCause ==
    /\ computed <= 1 + dropped
    /\ begun > 1 + dropped => /\ call.protocol # "json2s"
                              /\ server > learned.version
    /\ dropped > 0 => call.protocol = "xmlrpcs"

-----------------------------------------------------------------------------
(* The invariant behind both.                                              *)

\* Before Odoo is asked for the report nothing has been computed; while it is
\* asked nothing but what a dropped connection left, and an attempt that
\* failed before the fallback.  Once the version is known it decides on the
\* warning, and once the options are known they are those of the variant, for
\* companies that are valid.
ReportInductive ==
    /\ ReportTypeOK
    /\ pc # "done" => reply = NoReply /\ computed <= dropped
    /\ pc \notin {"fallback", "done"} => begun <= dropped
    /\ pc = "fallback" => begun <= 1 + dropped /\ call.protocol # "json2s"
    /\ learned.version <= server
    /\ pc \in {"resolve", "options", "compute", "fallback"} =>
        /\ Compatible(learned.version)
        /\ learned.warning =
               IF learned.version \in {17, 18} THEN Plural ELSE None
    /\ pc \in {"compute", "fallback"} => options = Variant[call.report]
    /\ pc \in {"options", "compute", "fallback"} => call.companies # "invalid"
    /\ RightReport
    /\ ComputedAgainForCause
==============================================================================
