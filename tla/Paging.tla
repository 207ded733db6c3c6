------------------------------- MODULE Paging --------------------------------
(***************************************************************************)
(* Reading a model page by page with op_search_read or op_export_records,  *)
(* as agents are told to: as long as has_more, again with next_offset.  An *)
(* export that fails has an envelope too: some agents go by it, and others *)
(* call again where they were.                                             *)
(*                                                                         *)
(* An operation counts the records, then asks for a page of them, and an   *)
(* export then reads the page: three requests, between which other users   *)
(* of Odoo create and delete records.  Records are in the order of their   *)
(* creation, and a domain selects all of them.                             *)
(***************************************************************************)
EXTENDS Naturals, FiniteSets

CONSTANTS
    First,      \* how many records there are at first
    Last,       \* the last record that may be created
    Limit,      \* the limit of every page
    Deletes     \* whether records may be deleted

ASSUME PagingConstants ==
    /\ First \in Nat /\ Last \in Nat /\ First <= Last
    /\ Limit \in Nat
    /\ Deletes \in BOOLEAN

VARIABLES
    live,       \* the records that Odoo has
    newest,     \* the last record that was created
    deleted,    \* whether any has been deleted
    read,       \* the operation: where it stands, and what Odoo answered
    answer,     \* the answer to the agent: a page and its envelope
    seen,       \* history: records in the pages before that one
    unread      \* history: records of a page whose export failed, which the
                \* agent then passed over

pagingVars == <<live, newest, deleted, read, answer, seen, unread>>

Record == 1 .. Last

AtRest == [pc |-> "idle", op |-> "none", offset |-> 0, total |-> 0, page |-> {}]

\* next is next_offset, where the agent goes on; without has_more it has done.
NoAnswer == [page |-> {}, hasMore |-> TRUE, next |-> 0]

PagingTypeOK ==
    /\ live \subseteq Record
    /\ newest \in 0 .. Last
    /\ deleted \in BOOLEAN
    /\ read \in [pc : {"idle", "count", "search", "export"},
                 op : {"none", "search_read", "export_records"},
                 offset : Nat, total : 0 .. Last, page : SUBSET Record]
    /\ answer \in [page : SUBSET Record, hasMore : BOOLEAN, next : Nat]
    /\ seen \subseteq Record
    /\ unread \subseteq Record

PagingInit ==
    /\ live = 1 .. First
    /\ newest = First
    /\ deleted = FALSE
    /\ read = AtRest
    /\ answer = NoAnswer
    /\ seen = {}
    /\ unread = {}

-----------------------------------------------------------------------------
(* External: Odoo                                                          *)

Rank(i) == Cardinality({j \in live : j <= i})

\* search with an offset and a limit; a limit of 0 is none.
PageAt(offset) ==
    {i \in live : Rank(i) > offset /\ (Limit = 0 \/ Rank(i) <= offset + Limit)}

Create ==
    /\ newest < Last
    /\ newest' = newest + 1
    /\ live' = live \cup {newest'}
    /\ UNCHANGED <<deleted, read, answer, seen, unread>>

Delete(i) ==
    /\ Deletes
    /\ i \in live
    /\ live' = live \ {i}
    /\ deleted' = TRUE
    /\ UNCHANGED <<newest, read, answer, seen, unread>>

-----------------------------------------------------------------------------
(* op_search_read and op_export_records                                    *)

\* The agent calls again where the last answer told it to.
Call(op) ==
    /\ read.pc = "idle"
    /\ answer.hasMore
    /\ read' = [AtRest EXCEPT !.pc = "count", !.op = op, !.offset = answer.next]
    /\ UNCHANGED <<live, newest, deleted, answer, seen, unread>>

\* search_count
Count ==
    /\ read.pc = "count"
    /\ read' = [read EXCEPT !.pc = "search", !.total = Cardinality(live)]
    /\ UNCHANGED <<live, newest, deleted, answer, seen, unread>>

\* The page after the next one.
BadNextOffset(offset) == offset + Limit + 1

NextOffset(offset) == offset + Limit

HasMore(offset, total) == offset + Limit < total

\* The next page begins with the last record of this one.
BadEnvelope(page) ==
    [page |-> page,
     hasMore |-> HasMore(read.offset, read.total),
     next |-> IF NextOffset(read.offset) > 0 THEN NextOffset(read.offset) - 1
                                             ELSE 0]

Envelope(page) ==
    [page |-> page,
     hasMore |-> HasMore(read.offset, read.total),
     next |-> NextOffset(read.offset)]

Returns(page, lost) ==
    /\ answer' = Envelope(page)
    /\ seen' = seen \cup answer.page
    /\ unread' = unread \cup lost
    /\ read' = AtRest

\* search_read returns what it finds; an export has to read it yet, unless it
\* finds nothing.
Search ==
    /\ read.pc = "search"
    /\ LET page == PageAt(read.offset)
       IN IF read.op = "search_read" \/ page = {}
          THEN Returns(page, {})
          ELSE /\ read' = [read EXCEPT !.pc = "export", !.page = page]
               /\ UNCHANGED <<answer, seen, unread>>
    /\ UNCHANGED <<live, newest, deleted>>

ExportData ==
    /\ read.pc = "export"
    /\ read.page \subseteq live
    /\ Returns(read.page, {})
    /\ UNCHANGED <<live, newest, deleted>>

\* export_data fails, as it must for a record that has gone.  The answer is no
\* success and has no page, but has_more and the next_offset of a page that has
\* been read, and this agent goes by them.
ExportFails ==
    /\ read.pc = "export"
    /\ Returns({}, read.page)
    /\ UNCHANGED <<live, newest, deleted>>

\* A search or a count that fails has no envelope, and an agent may as well
\* export again what failed: it calls again where it was.
RequestFails ==
    /\ read.pc # "idle"
    /\ read' = AtRest
    /\ UNCHANGED <<live, newest, deleted, answer, seen, unread>>

-----------------------------------------------------------------------------

Operation == Count \/ Search \/ ExportData \/ ExportFails

PagingNext ==
    \/ Create \/ \E i \in Record : Delete(i)
    \/ \E op \in {"search_read", "export_records"} : Call(op)
    \/ Operation \/ RequestFails

PagingSpec == PagingInit /\ [][PagingNext]_pagingVars

-----------------------------------------------------------------------------
(* What an agent can rely on.                                              *)

Returned == seen \cup answer.page

\* What the agent has been told of: by a page, or by a failed export.
Passed == Returned \cup unread

\* No record is returned in two pages, however many are deleted or created in
\* the meantime and however often an operation fails.
NothingTwice == answer.page \cap seen = {}

\* As long as none is deleted, no record is passed over but those of a page
\* whose export failed, as the agent that went on was told: what is not among
\* those told of is on the pages to come, and when there are none every record
\* has been that was there at first.
NothingMissed ==
    ~ deleted =>
        IF answer.hasMore
        THEN \A i \in live \ Passed : Rank(i) > answer.next
        ELSE 1 .. First \subseteq Passed

\* "has_more, and next_offset so agents always know when to fetch more"
\* (docs/index.md): with the records as they were at first, there is more to
\* read exactly when the last answer says so.
MoreIsMore ==
    (newest = First /\ ~ deleted /\ answer # NoAnswer)
        => (answer.hasMore <=> live \ Passed # {})

-----------------------------------------------------------------------------
(* The invariant behind them, for limits other than 0.                     *)

\* Records are numbered in the order of their creation.
Numbered ==
    /\ First <= newest
    /\ live \cup Passed \cup read.page \subseteq 1 .. newest
    /\ ~ deleted => live = 1 .. newest

\* What the agent has been told of comes before next_offset, or has been
\* deleted; the operation that runs reads on from there.
Behind ==
    /\ \A i \in live \cap Passed : Rank(i) <= answer.next
    /\ read.pc # "idle" => answer.hasMore /\ read.offset = answer.next
    /\ read.pc = "export" =>
        /\ read.page \cap Passed = {}
        /\ \A i \in live \cap read.page : Rank(i) <= NextOffset(read.offset)

\* As long as nothing is deleted, counts are of what was there at first or more,
\* and what a page that is being exported leaves out comes after it.
Ahead ==
    ~ deleted =>
        /\ answer.hasMore => answer = NoAnswer \/ answer.next < newest
        /\ read.pc \in {"search", "export"} => read.total \in First .. newest
        /\ read.pc = "export" =>
            \A i \in live \ (Passed \cup read.page) :
                i <= read.total => Rank(i) > NextOffset(read.offset)

\* A step keeps all of it together.
PagingInductive ==
    PagingTypeOK /\ Numbered /\ NothingTwice /\ Behind /\ NothingMissed /\ Ahead
==============================================================================
