------------------------------- MODULE MCOdoo --------------------------------
(***************************************************************************)
(* Instances for TLC of what is done with Odoo: a tool or a sign-in with   *)
(* its client, an agent that reads page by page, and the call of a         *)
(* financial report.  They share no variable, so the initial state says    *)
(* which of them moves.                                                    *)
(***************************************************************************)
EXTENDS MCClient, Paging, FinancialReport

\* The first of two reports has a variant.
MCVariant == [r \in Report |-> "balance_mx"]

VARIABLE part

odooVars == <<part, vars, pagingVars, reportVars>>

Clients(A) == part = "client" /\ A /\ UNCHANGED <<part, pagingVars, reportVars>>
Pages(A) == part = "pages" /\ A /\ UNCHANGED <<part, vars, reportVars>>
Reports(A) == part = "report" /\ A /\ UNCHANGED <<part, vars, pagingVars>>

\* What does not move is in one of its initial states.
OdooInit ==
    /\ part \in {"client", "pages", "report"}
    /\ Init
    /\ part # "client" => odoo = CHOOSE major \in Major : TRUE
    /\ PagingInit
    /\ ReportInit
    /\ part # "report" =>
        /\ server = CHOOSE version \in Versions : TRUE
        /\ call = CHOOSE c \in ReportCall : TRUE

\* An agent that has read everything stops, and so does a report's call.
Over ==
    \/ Pages(read = AtRest /\ ~ answer.hasMore /\ UNCHANGED pagingVars)
    \/ Reports(pc = "done" /\ UNCHANGED reportVars)

OdooNext ==
    \/ Clients(Next)
    \/ Pages(PagingNext)
    \/ Reports(ReportNext)
    \/ Over

\* Fair as FairSpec is.
OdooSpec ==
    /\ OdooInit /\ [][OdooNext]_odooVars
    /\ WF_odooVars(Clients(Works /\ ~ MayHang))

\* The types, and what is known of a client at each stage of its task, of the
\* pages that an agent has read and has still to read, and of the call of a
\* report at each request: the inductive invariants of all three.
OdooSound ==
    /\ ClientInductive
    /\ PagingInductive
    /\ MoreIsMore
    /\ ReportInductive
==============================================================================
