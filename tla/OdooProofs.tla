------------------------------ MODULE OdooProofs ------------------------------
(***************************************************************************)
(* What is done with Odoo besides a client's requests.  Reading page by    *)
(* page, for any number of records and any limit but 0: PagingInductive is *)
(* inductive, nothing is returned twice or announced in vain, and nothing  *)
(* is missed unless the agent was told of it.                              *)
(* The call of a report, for any reports and versions: ReportInductive is  *)
(* inductive, and the report is the right one and computed again only for  *)
(* cause.  Then the composition of both with the clients.                  *)
(***************************************************************************)
EXTENDS MCOdoo, ClientProofs, FiniteSetTheorems, TLAPS

-----------------------------------------------------------------------------
(* Reading page by page.                                                   *)

(* Ranks are numbers, and there are no more records than may be created.   *)
LEMMA RankType ==
  ASSUME NEW S, S \subseteq Record
  PROVE  /\ \A i \in Nat : Cardinality({j \in S : j <= i}) \in Nat
         /\ Cardinality(S) \in 0 .. Last
<1>1. Last \in Nat /\ 1 \in Int /\ Last \in Int
  BY PagingConstants
<1>2. IsFiniteSet(Record) /\ Cardinality(Record) <= Last
  <2>1. /\ IsFiniteSet(1 .. Last)
        /\ Cardinality(1 .. Last) = IF 1 > Last THEN 0 ELSE Last - 1 + 1
    BY <1>1, FS_Interval
  <2> QED BY <1>1, <2>1 DEF Record
<1>3. IsFiniteSet(S) /\ Cardinality(S) <= Cardinality(Record)
  BY <1>2, FS_Subset
<1>4. Cardinality(Record) \in Nat /\ Cardinality(S) \in Nat
  BY <1>2, <1>3, FS_CardinalityType
<1>5. ASSUME NEW i \in Nat PROVE Cardinality({j \in S : j <= i}) \in Nat
  <2>1. IsFiniteSet({j \in S : j <= i})
    BY <1>3, FS_Subset
  <2> QED BY <2>1, FS_CardinalityType
<1> QED BY <1>1, <1>2, <1>3, <1>4, <1>5

(* While nothing is deleted the rank of a record is its number.            *)
LEMMA RankWhole ==
  ASSUME NEW n \in Nat, NEW S, S = 1 .. n
  PROVE  /\ \A i \in S : Cardinality({j \in S : j <= i}) = i
         /\ Cardinality(S) = n
<1>1. ASSUME NEW m \in Nat PROVE Cardinality(1 .. m) = m
  BY FS_Interval
<1>2. ASSUME NEW i \in S PROVE Cardinality({j \in S : j <= i}) = i
  <2>1. i \in Nat /\ {j \in S : j <= i} = 1 .. i
    OBVIOUS
  <2> QED BY <1>1, <2>1
<1> QED BY <1>1, <1>2

(* The same of Rank.                                                       *)
LEMMA RankNow ==
  ASSUME NEW n \in Nat, live = 1 .. n
  PROVE  \A i \in live : Rank(i) = i
<1>1. \A i \in live : Cardinality({j \in live : j <= i}) = i
  BY RankWhole, Zenon
<1> QED BY <1>1 DEF Rank

(* Deletions move records towards the first page.                          *)
LEMMA RankFalls ==
  ASSUME live \subseteq Record, live' \subseteq live, NEW i \in Nat
  PROVE  Rank(i)' <= Rank(i)
<1>1. IsFiniteSet({j \in live : j <= i})
  <2>1. IsFiniteSet(1 .. Last)
    BY PagingConstants, FS_Interval
  <2> QED BY <2>1, FS_Subset DEF Record
<1>2. {j \in live' : j <= i} \subseteq {j \in live : j <= i}
  OBVIOUS
<1> QED BY <1>1, <1>2, FS_Subset DEF Rank

(* A record that is created moves no other.                                *)
LEMMA RankStays ==
  ASSUME live \subseteq Record, NEW k \in Nat, live' = live \cup {k},
         NEW i \in Nat, i < k
  PROVE  Rank(i)' = Rank(i)
<1>1. {j \in live' : j <= i} = {j \in live : j <= i}
  BY PagingConstants DEF Record
<1> QED BY <1>1 DEF Rank

(* Nothing has been returned at first.                                     *)
LEMMA PagingStarts == PagingInit => PagingInductive
<1> SUFFICES ASSUME PagingInit PROVE PagingInductive
  OBVIOUS
<1> USE PagingConstants
<1>1. PagingTypeOK
  <2>1. /\ AtRest \in [pc : {"idle", "count", "search", "export"},
                    op : {"none", "search_read", "export_records"},
                    offset : Nat, total : 0 .. Last, page : SUBSET Record]
        /\ NoAnswer \in [page : SUBSET Record, hasMore : BOOLEAN, next : Nat]
    BY DEF AtRest, NoAnswer
  <2>2. 1 .. First \subseteq Record /\ First \in 0 .. Last
    BY DEF Record
  <2> QED BY <2>1, <2>2 DEF PagingInit, PagingTypeOK
<1>2. Numbered
  BY DEF PagingInit, Numbered, Passed, Returned, AtRest, NoAnswer
<1>3. NothingTwice /\ Behind
  BY DEF PagingInit, NothingTwice, Behind, Passed, Returned, AtRest, NoAnswer
<1>4. NothingMissed
  <2>1. \A i \in live : i \in Nat \ {0} /\ Rank(i) = i
    <3>1. First \in Nat /\ live = 1 .. First
      BY DEF PagingInit
    <3> QED BY <3>1, RankNow
  <2> QED BY <2>1 DEF PagingInit, NothingMissed, NoAnswer
<1>5. Ahead
  BY DEF PagingInit, Ahead, AtRest
<1> QED BY <1>1, <1>2, <1>3, <1>4, <1>5 DEF PagingInductive

(* Other users create a record: it comes last.                             *)
LEMMA CreateStep ==
  ASSUME PagingInductive, Create
  PROVE  PagingInductive'
<1> USE PagingConstants
<1> USE DEF Create
<1>0. PagingTypeOK /\ Numbered /\ newest \in Nat /\ newest' = newest + 1
  BY DEF PagingInductive, PagingTypeOK
<1>1. PagingTypeOK'
  BY <1>0 DEF PagingTypeOK, Record
<1>2. Numbered'
  BY <1>0 DEF Numbered, Passed, Returned
<1>3. NothingTwice'
  BY DEF PagingInductive, NothingTwice
<1>4. /\ \A i \in 1 .. newest : Rank(i)' = Rank(i)
      /\ \A i \in live : i \in 1 .. newest /\ Rank(i) \in Nat
      /\ live' \ {newest'} = live
  <2>1. live \subseteq 1 .. newest /\ live \subseteq Record
    BY <1>0 DEF Numbered, PagingTypeOK
  <2>2. \A i \in 1 .. newest : Rank(i)' = Rank(i)
    BY <1>0, <2>1, RankStays
  <2>3. \A i \in Nat : Rank(i) \in Nat
    BY <2>1, RankType DEF Rank
  <2> QED BY <1>0, <2>1, <2>2, <2>3
<1>5. Behind'
  BY <1>0, <1>4 DEF PagingInductive, Behind, Numbered, Passed, Returned, NextOffset
<1>6. ~ deleted => live' = 1 .. newest' /\ \A i \in live' : Rank(i)' = i
  <2>1. newest' \in Nat /\ newest' \in 1 .. newest'
    BY <1>0
  <2>2. ~ deleted => live' = 1 .. newest'
    BY <1>2 DEF Numbered
  <2>3. ~ deleted => \A i \in live' : Cardinality({j \in live' : j <= i}) = i
    BY <2>1, <2>2, RankWhole, Zenon
  <2> QED BY <2>1, <2>2, <2>3 DEF Rank
<1>7. NothingMissed'
  <2>1. SUFFICES ASSUME ~ deleted PROVE NothingMissed'
    BY DEF NothingMissed
  <2>2. answer.hasMore => answer.next < newest'
    BY <1>0, <2>1 DEF PagingInductive, Ahead, NoAnswer, PagingTypeOK
  <2>3. CASE answer.hasMore
    <3>1. SUFFICES ASSUME NEW i \in live' \ Passed'
                   PROVE  Rank(i)' > answer.next
      BY <2>3 DEF NothingMissed
    <3>2. CASE i = newest'
      BY <1>0, <1>6, <2>1, <2>2, <2>3, <3>1, <3>2 DEF PagingTypeOK
    <3>3. CASE i # newest'
      BY <1>4, <2>1, <2>3, <3>1, <3>3 DEF PagingInductive, NothingMissed, Passed, Returned
    <3> QED BY <3>2, <3>3
  <2>4. CASE ~ answer.hasMore
    BY <2>1, <2>4 DEF PagingInductive, NothingMissed, Passed, Returned
  <2> QED BY <2>3, <2>4
<1>8. Ahead'
  <2>1. SUFFICES ASSUME ~ deleted PROVE Ahead'
    BY DEF Ahead
  <2>2. Ahead
    BY DEF PagingInductive
  <2> QED BY <1>0, <1>4, <2>1, <2>2 DEF Ahead, Passed, Returned, NextOffset, PagingTypeOK
<1> QED BY <1>1, <1>2, <1>3, <1>5, <1>7, <1>8 DEF PagingInductive

(* Other users delete a record: those after it move forward.               *)
LEMMA DeleteStep ==
  ASSUME PagingInductive, NEW i \in Record, Delete(i)
  PROVE  PagingInductive'
<1> USE PagingConstants
<1>0. PagingTypeOK /\ Numbered /\ deleted' /\ live' \subseteq live
  BY DEF PagingInductive, Delete
<1>1. PagingTypeOK'
  BY <1>0 DEF PagingTypeOK, Delete
<1>2. Numbered' /\ NothingTwice' /\ NothingMissed' /\ Ahead'
  BY <1>0 DEF PagingInductive, Numbered, NothingTwice, NothingMissed, Ahead,
              Passed, Returned, Delete
<1>3. \A j \in live : Rank(j)' <= Rank(j) /\ Rank(j) \in Nat /\ Rank(j)' \in Nat
  <2>1. live \subseteq Record /\ live' \subseteq Record /\ Record \subseteq Nat
    BY <1>0 DEF PagingTypeOK, Record
  <2>2. \A j \in Nat : Rank(j) \in Nat
    BY <2>1, RankType DEF Rank
  <2>3. \A j \in Nat : Rank(j)' \in Nat
    BY <2>1, RankType DEF Rank
  <2> QED BY <1>0, <2>1, <2>2, <2>3, RankFalls
<1>4. /\ answer.next \in Nat
      /\ NextOffset(read.offset) \in Nat
  BY <1>0 DEF PagingTypeOK, NextOffset
<1>5. Behind'
  BY <1>0, <1>3, <1>4
  DEF PagingInductive, Behind, Passed, Returned, Delete, NextOffset
<1> QED BY <1>1, <1>2, <1>5 DEF PagingInductive

(* The agent calls, an operation fails, or the records are counted.        *)
LEMMA AskStep ==
  ASSUME PagingInductive,
         (\E op \in {"search_read", "export_records"} : Call(op)) \/ RequestFails \/ Count
  PROVE  PagingInductive'
<1> USE PagingConstants
<1>0. PagingTypeOK /\ Numbered /\ UNCHANGED <<live, newest, deleted, answer, seen, unread>>
  BY DEF PagingInductive, Call, RequestFails, Count
<1>1. /\ Cardinality(live) \in 0 .. Last
      /\ ~ deleted => Cardinality(live) = newest
  <2>1. live \subseteq Record /\ newest \in Nat
    BY <1>0 DEF PagingTypeOK
  <2> QED BY <1>0, <2>1, RankType, RankWhole DEF Numbered
<1>2. PagingTypeOK'
  <2>1. CASE RequestFails
    BY <1>0, <2>1 DEF RequestFails, PagingTypeOK, AtRest
  <2>2. CASE Count
    BY <1>0, <1>1, <2>2 DEF Count, PagingTypeOK
  <2>3. ASSUME NEW op \in {"search_read", "export_records"}, Call(op)
        PROVE  PagingTypeOK'
    <3>1. answer.next \in Nat
      BY <1>0 DEF PagingTypeOK
    <3>2. read' = [pc |-> "count", op |-> op, offset |-> answer.next,
                   total |-> 0, page |-> {}]
      BY <2>3 DEF Call, AtRest
    <3>3. read' \in [pc : {"idle", "count", "search", "export"},
                    op : {"none", "search_read", "export_records"},
                    offset : Nat, total : 0 .. Last, page : SUBSET Record]
      BY <3>1, <3>2
    <3> QED BY <1>0, <3>3 DEF PagingTypeOK
  <2> QED BY <2>1, <2>2, <2>3
<1>3. /\ read'.page \subseteq read.page
      /\ read'.pc \in {"idle", "count", "search"}
      /\ read'.pc # "idle" => answer.hasMore /\ read'.offset = answer.next
      /\ read'.pc = "search" => read'.total = Cardinality(live)
  <2>1. CASE RequestFails
    BY <2>1 DEF RequestFails, AtRest
  <2>2. CASE Count
    BY <1>0, <2>2 DEF Count, PagingInductive, Behind, PagingTypeOK
  <2>3. ASSUME NEW op \in {"search_read", "export_records"}, Call(op)
        PROVE  /\ read'.page = {} /\ read'.pc = "count"
               /\ answer.hasMore /\ read'.offset = answer.next
    BY <2>3 DEF Call, AtRest
  <2> QED BY <2>1, <2>2, <2>3
<1>4. Numbered' /\ NothingTwice' /\ Behind'
  BY <1>0, <1>3
  DEF PagingInductive, Numbered, NothingTwice, Behind, Passed, Returned, Rank
<1>5. NothingMissed'
  BY <1>0 DEF PagingInductive, NothingMissed, Passed, Returned, Rank
<1>6. Ahead'
  BY <1>0, <1>1, <1>3 DEF PagingInductive, Ahead, Numbered, PagingTypeOK
<1> QED BY <1>2, <1>4, <1>5, <1>6 DEF PagingInductive

(* An answer, with a page that was read before, or that could not be: what *)
(* the agent is told of comes before next_offset, and the rest after it.   *)
LEMMA ReturnStep ==
  ASSUME Limit # 0, PagingInductive, read.pc \in {"search", "export"},
         NEW page \in SUBSET Record, NEW lost \in SUBSET Record,
         NEW told, told = page \cup lost,
         told \subseteq 1 .. newest, told \cap Passed = {},
         \A i \in live \cap told : Rank(i) <= NextOffset(read.offset),
         ~ deleted => \A i \in live \ (Passed \cup told) :
                        i <= read.total => Rank(i) > NextOffset(read.offset),
         Returns(page, lost), UNCHANGED <<live, newest, deleted>>
  PROVE  PagingInductive'
<1> USE PagingConstants
<1>0. /\ PagingTypeOK /\ Numbered /\ NothingTwice /\ Behind /\ Ahead
      /\ read.offset = answer.next /\ answer.hasMore
  BY DEF PagingInductive, Behind
<1>1. /\ answer' = Envelope(page) /\ seen' = Returned /\ read' = AtRest
      /\ unread' = unread \cup lost
      /\ Passed' = Passed \cup told /\ page \cap Returned = {}
  BY DEF Returns, Passed, Returned, Envelope
<1>2. /\ read.offset \in Nat /\ read.total \in Nat /\ Limit \in Nat \ {0}
      /\ NextOffset(read.offset) \in Nat /\ First \in Nat /\ newest \in Nat
      /\ NextOffset(read.offset) = read.offset + Limit
  BY <1>0 DEF PagingTypeOK, NextOffset
<1>3. /\ answer'.page = page /\ answer'.next = NextOffset(read.offset)
      /\ answer'.hasMore = HasMore(read.offset, read.total)
      /\ answer'.hasMore <=> NextOffset(read.offset) < read.total
  BY <1>1 DEF Envelope, HasMore, NextOffset
<1>4. PagingTypeOK'
  <2>1. Returned \subseteq Record /\ unread' \subseteq Record
    BY <1>0, <1>1 DEF PagingTypeOK, Returned
  <2>2. answer' \in [page : SUBSET Record, hasMore : BOOLEAN, next : Nat]
    BY <1>1, <1>2 DEF Envelope, HasMore
  <2>3. AtRest \in [pc : {"idle", "count", "search", "export"},
                 op : {"none", "search_read", "export_records"},
                 offset : Nat, total : 0 .. Last, page : SUBSET Record]
    BY DEF AtRest
  <2> QED BY <1>0, <1>1, <2>1, <2>2, <2>3 DEF PagingTypeOK
<1>5. Numbered'
  BY <1>0, <1>1 DEF Numbered, AtRest
<1>6. NothingTwice'
  BY <1>1, <1>3 DEF NothingTwice
<1>7. \A i \in live : Rank(i)' = Rank(i) /\ Rank(i) \in Nat
  <2>1. live \subseteq Record /\ Record \subseteq Nat
    BY <1>0 DEF PagingTypeOK, Record
  <2>2. \A i \in Nat : Rank(i) \in Nat
    BY <2>1, RankType DEF Rank
  <2> QED BY <2>1, <2>2 DEF Rank
<1>8. Behind'
  <2>1. ASSUME NEW i \in live, i \in Passed \cup told
        PROVE  Rank(i) <= NextOffset(read.offset)
    BY <1>0, <1>2, <1>7, <2>1 DEF Behind
  <2> QED BY <1>1, <1>3, <1>7, <2>1 DEF Behind, AtRest
<1>9. ASSUME ~ deleted
      PROVE  /\ \A i \in live : Rank(i) = i
             /\ live = 1 .. newest /\ read.total \in First .. newest
  <2>1. live = 1 .. newest /\ read.total \in First .. newest
    BY <1>0, <1>9 DEF Numbered, Ahead
  <2> QED BY <1>2, <2>1, RankNow
<1>10. NothingMissed'
  <2>1. SUFFICES ASSUME ~ deleted PROVE NothingMissed'
    BY DEF NothingMissed
  <2>2. CASE answer'.hasMore
    <3>1. ASSUME NEW i \in live \ Passed' PROVE Rank(i) > answer'.next
      BY <1>1, <1>2, <1>3, <1>9, <2>1, <2>2, <3>1
    <3> QED BY <1>7, <2>2, <3>1 DEF NothingMissed
  <2>3. CASE ~ answer'.hasMore
    <3>1. ASSUME NEW i \in 1 .. First PROVE i \in Passed'
      BY <1>1, <1>2, <1>3, <1>9, <2>1, <2>3, <3>1
    <3> QED BY <2>3, <3>1 DEF NothingMissed
  <2> QED BY <2>2, <2>3
<1>11. Ahead'
  BY <1>1, <1>2, <1>3, <1>9 DEF Ahead, AtRest
<1> QED BY <1>4, <1>5, <1>6, <1>8, <1>10, <1>11 DEF PagingInductive

(* What is on a page, and what is not.                                     *)
LEMMA PageOffset ==
  ASSUME Limit # 0, PagingInductive, read.pc = "search"
  PROVE  LET page == PageAt(read.offset)
         IN  /\ page \in SUBSET Record /\ page \subseteq live
             /\ page \cap Passed = {}
             /\ \A i \in page : Rank(i) <= NextOffset(read.offset)
             /\ \A i \in live \ (Passed \cup page) :
                    ~ deleted => Rank(i) > NextOffset(read.offset)
<1>1. /\ PagingTypeOK /\ read.offset = answer.next /\ answer.hasMore
      /\ read.offset \in Nat /\ Limit \in Nat
      /\ \A i \in live : Rank(i) \in Nat
  <2>1. PagingTypeOK /\ Behind
    BY DEF PagingInductive
  <2>2. live \subseteq Record /\ Record \subseteq Nat
    BY <2>1 DEF PagingTypeOK, Record
  <2> QED
    BY <2>1, <2>2, RankType, PagingConstants DEF Behind, PagingTypeOK, Rank
<1>2. \A i \in live \cap Passed : Rank(i) <= read.offset
  BY <1>1 DEF PagingInductive, Behind
<1>3. ~ deleted => \A i \in live \ Passed : Rank(i) > read.offset
  BY <1>1 DEF PagingInductive, NothingMissed
<1> QED
  BY <1>1, <1>2, <1>3 DEF PageAt, NextOffset, PagingTypeOK

(* A page is found: an answer, or one that has to be exported yet.         *)
LEMMA SearchStep ==
  ASSUME Limit # 0, PagingInductive, Search
  PROVE  PagingInductive'
<1> DEFINE page == PageAt(read.offset)
<1>0. /\ read.pc = "search" /\ UNCHANGED <<live, newest, deleted>>
      /\ PagingTypeOK /\ Numbered
  BY DEF Search, PagingInductive
<1>1. /\ page \in SUBSET Record /\ page \subseteq live
      /\ page \cap Passed = {}
      /\ \A i \in page : Rank(i) <= NextOffset(read.offset)
      /\ \A i \in live \ (Passed \cup page) :
            ~ deleted => Rank(i) > NextOffset(read.offset)
  BY <1>0, PageOffset
<1>2. CASE Returns(page, {})
  <2> HIDE DEF page
  <2>1. page = page \cup {} /\ {} \in SUBSET Record
        /\ page \subseteq 1 .. newest
    BY <1>0, <1>1 DEF Numbered
  <2>2. /\ \A i \in live \cap page : Rank(i) <= NextOffset(read.offset)
        /\ ~ deleted => \A i \in live \ (Passed \cup page) :
                          i <= read.total => Rank(i) > NextOffset(read.offset)
    BY <1>1
  <2> QED BY <1>0, <1>1, <1>2, <2>1, <2>2, ReturnStep
<1>3. CASE /\ read' = [read EXCEPT !.pc = "export", !.page = page]
           /\ UNCHANGED <<answer, seen, unread>>
  <2> HIDE DEF page
  <2>1. /\ read'.pc = "export" /\ read'.page = page
        /\ read'.offset = read.offset /\ read'.total = read.total
        /\ NextOffset(read'.offset) = NextOffset(read.offset)
        /\ Passed' = Passed
    BY <1>0, <1>3 DEF PagingTypeOK, Passed, Returned
  <2>2. PagingTypeOK'
    BY <1>0, <1>1, <1>3 DEF PagingTypeOK
  <2>3. Numbered' /\ NothingTwice' /\ NothingMissed'
    BY <1>0, <1>1, <1>3, <2>1
    DEF PagingInductive, Numbered, NothingTwice, NothingMissed, Rank
  <2>4. \A i \in live : Rank(i)' = Rank(i)
    BY <1>0 DEF Rank
  <2>5. Behind'
    BY <1>0, <1>1, <1>3, <2>1, <2>4 DEF PagingInductive, Behind, NextOffset
  <2>6. Ahead'
    BY <1>0, <1>1, <1>3, <2>1, <2>4 DEF PagingInductive, Ahead, NextOffset
  <2> QED BY <2>2, <2>3, <2>5, <2>6 DEF PagingInductive
<1> QED BY <1>2, <1>3 DEF Search

(* An export returns the page it found, as all of it is still there, or    *)
(* says that it could not.                                                 *)
LEMMA ExportStep ==
  ASSUME Limit # 0, PagingInductive, ExportData \/ ExportFails
  PROVE  PagingInductive'
<1> DEFINE told == read.page
<1>1. /\ read.pc = "export" /\ UNCHANGED <<live, newest, deleted>>
      /\ Returns(told, {}) \/ Returns({}, told)
      /\ PagingTypeOK /\ Numbered /\ Behind /\ Ahead
  BY DEF ExportData, ExportFails, PagingInductive
<1>2. /\ told \in SUBSET Record /\ {} \in SUBSET Record
      /\ told = told \cup {} /\ told = {} \cup told
      /\ told \subseteq 1 .. newest /\ told \cap Passed = {}
      /\ \A i \in live \cap told : Rank(i) <= NextOffset(read.offset)
  BY <1>1 DEF PagingTypeOK, Numbered, Behind
<1>3. ~ deleted => \A i \in live \ (Passed \cup told) :
                     i <= read.total => Rank(i) > NextOffset(read.offset)
  BY <1>1 DEF Ahead
<1> HIDE DEF told
<1>4. CASE Returns(told, {})
  BY <1>1, <1>2, <1>3, <1>4, ReturnStep
<1>5. CASE Returns({}, told)
  BY <1>1, <1>2, <1>3, <1>5, ReturnStep
<1> QED BY <1>1, <1>4, <1>5

LEMMA PagingStep ==
  ASSUME Limit # 0, PagingInductive, [PagingNext]_pagingVars
  PROVE  PagingInductive'
<1>1. CASE UNCHANGED pagingVars
  BY <1>1
  DEF pagingVars, PagingInductive, PagingTypeOK, Numbered, NothingTwice, Behind,
      NothingMissed, Ahead, Passed, Returned, Rank, NextOffset
<1> QED
  BY <1>1, CreateStep, DeleteStep, AskStep, SearchStep, ExportStep
  DEF PagingNext, Operation

(* What the agent is told of is behind next_offset, and the rest is ahead. *)
THEOREM PagesAreOrdered ==
  ASSUME Limit # 0
  PROVE  PagingSpec => []PagingInductive
<1>1. PagingInductive /\ [PagingNext]_pagingVars => PagingInductive'
  BY PagingStep
<1> QED BY PagingStarts, <1>1, PTL DEF PagingSpec

(* No record is returned twice, whoever creates and deletes records in the *)
(* meantime.                                                               *)
THEOREM PagesAreDisjoint ==
  ASSUME Limit # 0
  PROVE  PagingSpec => []NothingTwice
<1>1. PagingInductive => NothingTwice
  BY DEF PagingInductive
<1> QED BY <1>1, PagesAreOrdered, PTL

(* No record is passed over as long as none is deleted, but for those of a *)
(* page whose export failed, as the agent was told.                        *)
THEOREM PagesAreComplete ==
  ASSUME Limit # 0
  PROVE  PagingSpec => []NothingMissed
<1>1. PagingInductive => NothingMissed
  BY DEF PagingInductive
<1> QED BY <1>1, PagesAreOrdered, PTL

(* has_more is true exactly when there is more.                            *)
THEOREM MoreIsTold ==
  ASSUME Limit # 0
  PROVE  PagingSpec => []MoreIsMore
<1>1. ASSUME PagingInductive, newest = First, ~ deleted, answer # NoAnswer
      PROVE  answer.hasMore <=> live \ Passed # {}
  <2>1. /\ live = 1 .. First /\ First \in Nat /\ answer.next \in Nat
        /\ Numbered /\ Behind /\ NothingMissed /\ Ahead
    BY <1>1, PagingConstants DEF PagingInductive, Numbered, PagingTypeOK
  <2>2. CASE answer.hasMore
    <3>1. First \in live /\ answer.next < First
      BY <1>1, <2>1, <2>2 DEF Ahead
    <3>2. Rank(First) = First
      BY <2>1, <3>1, RankNow
    <3> QED BY <2>1, <2>2, <3>1, <3>2 DEF Behind
  <2>3. CASE ~ answer.hasMore
    BY <1>1, <2>1, <2>3 DEF NothingMissed
  <2> QED BY <2>2, <2>3
<1>2. PagingInductive => MoreIsMore
  BY <1>1 DEF MoreIsMore
<1> QED BY <1>2, PagesAreOrdered, PTL
-----------------------------------------------------------------------------
(* The call of a financial report.                                         *)

LEMMA ReplyTypes ==
  /\ NoReply \in Reply /\ NoReply.result = "none"
  /\ \A what \in {"error", "not_found"} :
       Error(what) \in Reply /\ Error(what).result = what
BY DEF NoReply, Reply, Error

(* What is answered has the types of a reply, and is the report asked for, *)
(* when method and warning belong together.                                *)
LEMMA SucceedsRightly ==
  ASSUME ReportTypeOK, options \in Report, options = Variant[call.report],
         call.companies # "invalid", call' = call,
         NEW method \in ReportMethods, NEW warning \in ReportMethods \cup {None},
         method = IF warning = None THEN Singular ELSE warning,
         Succeeds(method, warning)
  PROVE  reply' \in Reply /\ RightReport' /\ pc' = "done"
<1> USE DEF ReportTypeOK, ReportCall, Reply, NoReply, Succeeds, Stop
<1>1. CASE call.format = "compact"
  BY <1>1 DEF RightReport
<1>2. CASE call.format # "compact"
  BY <1>2 DEF RightReport
<1> QED BY <1>1, <1>2

LEMMA ReportInitHolds == ReportInit => ReportInductive
<1> SUFFICES ASSUME ReportInit PROVE ReportInductive
  OBVIOUS
<1>1. ReportTypeOK
  BY ReplyTypes DEF ReportInit, ReportTypeOK
<1>2. /\ learned.version = Unknown /\ server \in Nat
      /\ begun = 0 /\ computed = 0 /\ dropped = 0 /\ pc = "start"
      /\ reply = NoReply
  BY ReportConstants DEF ReportInit
<1>3. learned.version <= server
  BY <1>2 DEF Unknown
<1> QED
  BY <1>1, <1>2, <1>3, ReplyTypes
  DEF ReportInductive, RightReport, ComputedAgainForCause

(* A request that ends the call with an error, when nothing is said of the *)
(* report but by whom it was begun, keeps what is known of the call.       *)
LEMMA EndsInError ==
  ASSUME ReportInductive, NEW what \in {"error", "not_found"},
         Stop(Error(what)),
         UNCHANGED <<server, call, options>>,
         learned' \in [version : Versions \cup {Unknown},
                       warning : ReportMethods \cup {None}],
         learned'.version <= server,
         again' \in BOOLEAN, begun' \in Nat, computed' \in Nat,
         dropped' \in Nat, ComputedAgainForCause'
  PROVE  ReportInductive'
BY ReplyTypes DEF Stop, ReportInductive, ReportTypeOK, RightReport

(* Before it is asked for, nothing is begun: what the last request left is *)
(* no more than what its dropped connections left.                         *)
LEMMA NothingAsked ==
  ASSUME ReportInductive, pc \notin {"fallback", "done"}, UNCHANGED asked,
         UNCHANGED <<server, call>>
  PROVE  /\ again' \in BOOLEAN /\ begun' \in Nat /\ computed' \in Nat
         /\ dropped' \in Nat
         /\ begun' <= dropped' /\ computed' <= dropped'
         /\ ComputedAgainForCause'
BY DEF ReportInductive, ReportTypeOK, ComputedAgainForCause, asked

(* A computation that is asked for is begun, and may be completed.         *)
LEMMA ComputesTypes ==
  ASSUME ReportTypeOK, NEW outcome, Computes(outcome)
  PROVE  /\ begun' \in Nat /\ computed' \in Nat
         /\ begun' \in {begun, begun + 1}
         /\ computed' \in {computed, computed + 1}
         /\ outcome \in {"refused", "missing"} => begun' = begun
         /\ outcome \notin {"answer", "lost"} => computed' = computed
BY DEF Computes, ReportTypeOK

LEMMA ReportNumbers ==
  ASSUME ReportTypeOK
  PROVE  /\ server \in Nat /\ learned.version \in Nat
         /\ begun \in Nat /\ computed \in Nat /\ dropped \in Nat
<1>1. learned.version \in Versions \cup {0}
  BY DEF ReportTypeOK, Unknown
<1>2. \A v \in Versions : v \in Nat
  BY ReportConstants, Zenon
<1>3. server \in Versions /\ 0 \in Nat
  BY DEF ReportTypeOK
<1>4. server \in Nat /\ learned.version \in Nat
  BY <1>1, <1>2, <1>3
<1> QED BY <1>4 DEF ReportTypeOK

(* The other method is there only after an upgrade.                        *)
LEMMA OtherMethodIsNewer ==
  ASSUME ReportInductive, pc = "fallback",
         HasMethod(Other(MethodOf(learned.version)))
  PROVE  server > learned.version
<1>1. /\ server \in Nat /\ learned.version \in Nat
      /\ learned.version <= server /\ learned.version >= 17
  BY ReportNumbers DEF ReportInductive, Compatible
<1>2. ASSUME server = learned.version PROVE FALSE
  <2>1. CASE server \in {17, 18}
    BY <1>1, <1>2, <2>1 DEF HasMethod, Other, MethodOf, Plural, Singular
  <2>2. CASE server \notin {17, 18}
    BY <1>1, <1>2, <2>2 DEF HasMethod, Other, MethodOf, Plural, Singular
  <2> QED BY <2>1, <2>2
<1> QED BY <1>1, <1>2

LEMMA ReportStep ==
  ASSUME ReportInductive, [ReportNext]_reportVars
  PROVE  ReportInductive'
<1>0. /\ ReportTypeOK /\ ComputedAgainForCause
      /\ learned \in [version : Versions \cup {Unknown},
                      warning : ReportMethods \cup {None}]
      /\ pc # "done" => reply = NoReply /\ computed <= dropped
      /\ server \in Nat /\ learned.version \in Nat
      /\ again \in BOOLEAN
      /\ begun \in Nat /\ computed \in Nat /\ dropped \in Nat
      /\ learned.version <= server
  BY ReportNumbers DEF ReportInductive, ReportTypeOK
<1> USE DEF ReportInductive, ReportTypeOK, RightReport
<1>1. ASSUME Upgrade PROVE ReportInductive'
  <2>1. /\ server' \in Versions /\ server' \in Nat /\ server' > server
        /\ UNCHANGED <<pc, call, learned, options, asked, reply>>
    BY <1>1, ReportConstants DEF Upgrade
  <2>2. learned'.version <= server' /\ ComputedAgainForCause'
    BY <1>0, <2>1 DEF ComputedAgainForCause, asked
  <2> QED BY <1>0, <2>1, <2>2 DEF asked
<1>2. ASSUME Start PROVE ReportInductive'
  <2>1. /\ pc = "start"
        /\ UNCHANGED <<server, call, learned, options, asked>>
    BY <1>2 DEF Start
  <2>2. CASE call.allowed /\ call.format \in VALID_FORMATS
    BY <1>0, <1>2, <2>1, <2>2, NothingAsked DEF Start
  <2>3. CASE ~ (call.allowed /\ call.format \in VALID_FORMATS)
    BY <1>0, <1>2, <2>1, <2>3, NothingAsked, EndsInError DEF Start
  <2> QED BY <2>2, <2>3
<1>3. ASSUME Validate(server), pc \in {"version", "base"},
             UNCHANGED <<server, call, options, asked>>
      PROVE  ReportInductive'
  <2>1. /\ learned' \in [version : Versions \cup {Unknown},
                         warning : ReportMethods \cup {None}]
        /\ learned'.warning = IF learned'.version \in {17, 18} THEN Plural ELSE None
        /\ learned'.version = server
    BY <1>3 DEF Validate, ReportMethods
  <2>2. CASE Compatible(server)
    BY <1>0, <1>3, <2>1, <2>2, NothingAsked DEF Validate
  <2>3. CASE ~ Compatible(server)
    BY <1>0, <1>3, <2>1, <2>3, NothingAsked, EndsInError DEF Validate
  <2> QED BY <2>2, <2>3
<1>4. ASSUME GetServerVersion PROVE ReportInductive'
  <2>1. CASE Validate(server)
    BY <1>3, <1>4, <2>1 DEF GetServerVersion
  <2>2. CASE ~ Validate(server)
    BY <1>0, <1>4, <2>2, NothingAsked DEF GetServerVersion
  <2> QED BY <2>1, <2>2
<1>5. ASSUME BaseVersion PROVE ReportInductive'
  <2>1. CASE Validate(server)
    BY <1>3, <1>5, <2>1 DEF BaseVersion
  <2>2. CASE ~ Validate(server)
    BY <1>0, <1>5, <2>2, NothingAsked, EndsInError DEF BaseVersion
  <2> QED BY <2>1, <2>2
<1>6. ASSUME Resolve PROVE ReportInductive'
  <2>1. /\ pc = "resolve"
        /\ UNCHANGED <<server, call, learned, options, asked>>
    BY <1>6 DEF Resolve
  <2>2. CASE Stop(Error("error")) \/ Stop(Error("not_found"))
    BY <1>0, <2>1, <2>2, NothingAsked, EndsInError
  <2>3. CASE ~ (Stop(Error("error")) \/ Stop(Error("not_found")))
    BY <1>0, <1>6, <2>1, <2>3, NothingAsked DEF Resolve
  <2> QED BY <2>2, <2>3
<1>7. ASSUME GetOptions PROVE ReportInductive'
  <2>0. /\ pc = "options"
        /\ UNCHANGED <<server, call, learned, asked>>
    BY <1>7 DEF GetOptions
  <2>1. CASE Stop(Error("error")) /\ UNCHANGED options
    BY <1>0, <2>0, <2>1, NothingAsked, EndsInError
  <2>2. CASE ~ (Stop(Error("error")) /\ UNCHANGED options)
    <3>1. options' = Variant[call.report] /\ options' \in Report
      BY <1>0, <1>7, <2>2, ReportConstants
      DEF GetOptions, ActualReport, ReportCall
    <3> QED BY <1>0, <1>7, <2>0, <2>2, <3>1, NothingAsked DEF GetOptions
  <2> QED BY <2>1, <2>2
<1>8. ASSUME Compute PROVE ReportInductive'
  <2> DEFINE method == MethodOf(learned.version)
  <2>1. PICK outcome \in Outcomes(method) :
          /\ Asks(method, outcome)
          /\ IF outcome = "answer" THEN Succeeds(method, learned.warning)
             ELSE IF MethodMissing(outcome)
                  THEN pc' = "fallback" /\ UNCHANGED reply
                  ELSE Stop(Error("error"))
    BY <1>8 DEF Compute
  <2>2. /\ pc = "compute" /\ computed <= dropped /\ begun <= dropped
        /\ UNCHANGED <<server, call, learned, options>>
        /\ options \in Report /\ options = Variant[call.report]
        /\ call.companies # "invalid"
    BY <1>0, <1>8 DEF Compute
  <2>3. /\ begun' \in Nat /\ computed' \in Nat /\ again' \in BOOLEAN
        /\ dropped' = dropped
        /\ begun' \in {begun, begun + 1}
        /\ computed' \in {computed, computed + 1}
        /\ outcome \notin {"answer", "lost"} => computed' = computed
    BY <1>0, <2>1, ComputesTypes DEF Asks
  <2>4. ComputedAgainForCause'
    BY <1>0, <2>2, <2>3 DEF ComputedAgainForCause
  <2>5. CASE outcome = "answer"
    <3>1. /\ method \in ReportMethods
          /\ learned.warning \in ReportMethods \cup {None}
          /\ method = IF learned.warning = None THEN Singular ELSE learned.warning
      BY <1>0, <2>2 DEF MethodOf, ReportMethods, Plural, Singular, None
    <3>2. reply' \in Reply /\ RightReport' /\ pc' = "done"
      BY <1>0, <2>1, <2>2, <2>5, <3>1, SucceedsRightly
    <3> QED BY <1>0, <2>2, <2>3, <2>4, <3>2
  <2>6. CASE outcome # "answer" /\ MethodMissing(outcome)
    BY <1>0, <2>1, <2>2, <2>3, <2>4, <2>6 DEF MethodMissing
  <2>7. CASE outcome # "answer" /\ ~ MethodMissing(outcome)
    BY <1>0, <2>1, <2>2, <2>3, <2>4, <2>7, EndsInError
  <2> QED BY <2>5, <2>6, <2>7
<1>9. ASSUME Fallback PROVE ReportInductive'
  <2> DEFINE method == Other(MethodOf(learned.version))
  <2>1. PICK outcome \in Outcomes(method) :
          /\ Asks(method, outcome)
          /\ IF outcome = "answer"
             THEN Succeeds(method, FallbackWarning(method))
             ELSE Stop(Error("error"))
    BY <1>9 DEF Fallback
  <2>2. /\ pc = "fallback" /\ computed <= dropped /\ begun <= 1 + dropped
        /\ call.protocol # "json2s"
        /\ UNCHANGED <<server, call, learned, options>>
        /\ options \in Report /\ options = Variant[call.report]
        /\ call.companies # "invalid"
    BY <1>0, <1>9 DEF Fallback
  <2>3. /\ begun' \in Nat /\ computed' \in Nat /\ again' \in BOOLEAN
        /\ dropped' = dropped
        /\ begun' \in {begun, begun + 1}
        /\ computed' \in {computed, computed + 1}
        /\ outcome \in {"refused", "missing"} => begun' = begun
    BY <1>0, <2>1, ComputesTypes DEF Asks
  <2>4. ComputedAgainForCause'
    <3>1. begun' > 1 + dropped => server > learned.version
      BY <1>0, <2>1, <2>2, <2>3, OtherMethodIsNewer DEF Outcomes
    <3> QED BY <1>0, <2>2, <2>3, <3>1 DEF ComputedAgainForCause
  <2>5. CASE outcome = "answer"
    <3>1. /\ method \in ReportMethods
          /\ FallbackWarning(method) = method /\ method # None
      BY DEF MethodOf, Other, FallbackWarning, ReportMethods, Plural, Singular, None
    <3>2. reply' \in Reply /\ RightReport' /\ pc' = "done"
      BY <1>0, <2>1, <2>2, <2>5, <3>1, SucceedsRightly
    <3> QED BY <1>0, <2>2, <2>3, <2>4, <3>2
  <2>6. CASE outcome # "answer"
    BY <1>0, <2>1, <2>2, <2>3, <2>4, <2>6, EndsInError
  <2> QED BY <2>5, <2>6
<1>10. ASSUME ComputeDropped \/ FallbackDropped PROVE ReportInductive'
  <2>1. PICK method, outcome : Computes(outcome)
    BY <1>10 DEF ComputeDropped, FallbackDropped, ConnectionDrops
  <2>2. /\ begun' \in Nat /\ computed' \in Nat
        /\ begun' <= begun + 1 /\ computed' <= computed + 1
    BY <1>0, <2>1, ComputesTypes
  <2>3. /\ pc \in {"compute", "fallback"} /\ call.protocol = "xmlrpcs"
        /\ again' = TRUE /\ dropped' = dropped + 1
        /\ UNCHANGED <<server, pc, call, learned, options, reply>>
    BY <1>10 DEF ComputeDropped, FallbackDropped, ConnectionDrops
  <2>4. ComputedAgainForCause'
    BY <1>0, <2>2, <2>3 DEF ComputedAgainForCause
  <2> QED BY <1>0, <2>2, <2>3, <2>4
<1>11. CASE UNCHANGED reportVars
  BY <1>11 DEF reportVars, asked, ComputedAgainForCause
<1> QED
  BY <1>1, <1>2, <1>4, <1>5, <1>6, <1>7, <1>8, <1>9, <1>10, <1>11
  DEF ReportNext

(* Every call of a report, at each of its requests: however Odoo is        *)
(* upgraded in between, and whatever the requests come to.                 *)
THEOREM ReportsAreSound == ReportSpec => []ReportInductive
<1>1. ReportInductive /\ [ReportNext]_reportVars => ReportInductive'
  BY ReportStep
<1> QED BY ReportInitHolds, <1>1, PTL DEF ReportSpec

(* A report that get_financial_report returns is the variant for the       *)
(* companies that were asked for, by the method that the warning names.    *)
THEOREM ReportsAreRight == ReportSpec => []RightReport
<1>1. ReportInductive => RightReport
  BY DEF ReportInductive
<1> QED BY <1>1, ReportsAreSound, PTL

(* Odoo computes a report again only for a connection of XML-RPC that has  *)
(* dropped, and begins another one by the other method only after an       *)
(* upgrade (get_financial_report, _execute_kw_raw).                        *)
THEOREM ReportsAreComputedAgainForCause == ReportSpec => []ComputedAgainForCause
<1>1. ReportInductive => ComputedAgainForCause
  BY DEF ReportInductive
<1> QED BY <1>1, ReportsAreSound, PTL

-----------------------------------------------------------------------------
(* The three of them in one specification, as TLC checks it.               *)

(* Each of them behaves as it does alone: they share nothing.              *)
LEMMA OdooComposes == OdooSpec => Spec /\ PagingSpec /\ ReportSpec
<1>1. OdooInit => Init /\ PagingInit /\ ReportInit
  BY DEF OdooInit
<1>2. [OdooNext]_odooVars
        => [Next]_vars /\ [PagingNext]_pagingVars /\ [ReportNext]_reportVars
  BY DEF OdooNext, Clients, Pages, Reports, Over, odooVars
<1> QED BY <1>1, <1>2, PTL DEF OdooSpec, Spec, PagingSpec, ReportSpec

(* What the run `odoo` checks of every state it finds: clients, pages and  *)
(* reports are in their inductive invariants, and has_more is right.       *)
THEOREM OdooIsSound ==
  ASSUME Limit # 0
  PROVE  OdooSpec => []OdooSound
<1>1. ClientInductive /\ PagingInductive /\ MoreIsMore /\ ReportInductive
        => OdooSound
  BY DEF OdooSound
<1> QED
  BY <1>1, OdooComposes, ClientsAreKnown, PagesAreOrdered, MoreIsTold,
     ReportsAreSound, PTL
==============================================================================
