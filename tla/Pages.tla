-------------------------------- MODULE Pages --------------------------------
(***************************************************************************)
(* A client walks a list page by page while rows come, go and change their *)
(* rank.  A list handler fetches one row more than a page holds, from the  *)
(* cursor on, and the answer's nextCursor is the last row of the page when *)
(* there was one more.  What a filter leaves out counts as not there.      *)
(***************************************************************************)
EXTENDS Naturals, FiniteSets

CONSTANTS
    RowIds,     \* ids of rows, in the order newId gives them
    Ranks,      \* values of the column some lists are sorted by
    PageLimit,  \* limit of the walk
    Lists,      \* the lists walked here
    MaxChanges  \* bound on changes of the table during a walk

ASSUME RowIdsAssumption ==
    RowIds \subseteq Nat \ {0} /\ IsFiniteSet(RowIds) /\ Ranks \subseteq Nat
ASSUME PageAssumption == PageLimit \in Nat \ {0} /\ MaxChanges \in Nat

(***************************************************************************)
(* The lists: the column they are sorted by before the id, the columns in  *)
(* their cursor, and whether the handler cuts the rows before buildPage.   *)
(***************************************************************************)
ById == [sort |-> "id", cursor |-> "id", cut |-> FALSE]

ListUsers == ById
ListAssets == [sort |-> "id", cursor |-> "id", cut |-> TRUE]
ListAssetIssues == ById
ListAssetScanHistory == ById
ListMergeCandidates == [sort |-> "rank", cursor |-> "id", cut |-> FALSE]
ListVulnerabilityDataImports == ById
ListNotificationEvents == ById
ListAssetGroups == ById
ListExceptions == ById
ListIntelImports == ById
\* risk_score, whose String() is the numeric as the driver returns it.
ListIssues == [sort |-> "rank", cursor |-> "both", cut |-> FALSE]
ListGlobalStops == ById
ListAuditEntries == ById
ListBackups == ById
ListReports == ById
ListScanRuns == ById
ListScanRunTargets == ById
ListAuthorizedScopes == ById
ListExclusionRules == ById

\* The lists whose cursor holds what they are sorted by and whose rows reach
\* buildPage uncut; README.md says what the other two miss.
SoundLists ==
    {ListUsers, ListAssetIssues, ListAssetScanHistory, ListVulnerabilityDataImports,
     ListNotificationEvents, ListAssetGroups, ListExceptions, ListIntelImports, ListIssues,
     ListGlobalStops, ListAuditEntries, ListBackups, ListReports, ListScanRuns,
     ListScanRunTargets, ListAuthorizedScopes, ListExclusionRules}

VARIABLES
    list,     \* the list walked in this behaviour
    rank,     \* rows that are there, and the rank of each
    cursor,   \* where the next page starts, or what the walk has come to
    listed,   \* how many of the pages so far each row is in
    changes,
    steady    \* history: rows there since the walk began, with their rank

pageVars == <<list, rank, cursor, listed, changes, steady>>

Start == [id |-> 0, rank |-> 0]
End == [id |-> 0, rank |-> 1]

Present == DOMAIN rank

\* Lower ranks come first; GET /issues sorts scores the other way round.
Precedes(a, b) ==
    \/ list.sort = "rank" /\ rank[a] < rank[b]
    \/ (list.sort = "rank" => rank[a] = rank[b]) /\ a < b

\* WHERE clause of the cursor.
Follows(a) ==
    CASE list.cursor = "id" -> a > cursor.id
      [] list.cursor = "both" ->
           rank[a] > cursor.rank \/ (rank[a] = cursor.rank /\ a > cursor.id)

\* The first n of some rows, and the last of them.
FirstOf(rows, n) == {a \in rows : Cardinality({b \in rows : Precedes(b, a)}) < n}
LastOf(rows) == CHOOSE a \in rows : \A b \in rows \ {a} : Precedes(b, a)

Fetch(limit) == FirstOf({a \in Present : Follows(a)}, limit)

PositionOf(a) == [id |-> a, rank |-> rank[a]]

\* There was one more row than the page holds.
HasMore(rows) == rows # FirstOf(rows, PageLimit)

\* Mutant: the cursor is the row that did not fit.
CursorOfTheNext(rows) ==
    IF HasMore(rows) THEN PositionOf(LastOf(FirstOf(rows, PageLimit + 1))) ELSE End
\* nextCursor of buildPage.
NextCursor(rows) ==
    IF HasMore(rows) THEN PositionOf(LastOf(FirstOf(rows, PageLimit))) ELSE End

-----------------------------------------------------------------------------
PageInit ==
    /\ list \in Lists
    /\ \E there \in SUBSET RowIds : rank \in [there -> Ranks]
    /\ cursor = Start
    /\ listed = [a \in RowIds |-> 0]
    /\ changes = 0
    /\ steady = Present

NextPage ==
    /\ cursor # End
    /\ LET fetched == Fetch(PageLimit + 1)
           rows == IF list.cut THEN FirstOf(fetched, PageLimit) ELSE fetched
           page == FirstOf(rows, PageLimit)
       IN  /\ listed' = [a \in RowIds |-> listed[a] + (IF a \in page THEN 1 ELSE 0)]
           /\ cursor' = NextCursor(rows)
    /\ UNCHANGED <<list, rank, changes, steady>>

Changing ==
    /\ cursor # End
    /\ changes < MaxChanges
    /\ changes' = changes + 1
    /\ UNCHANGED <<list, cursor, listed>>

\* An id made early may be committed late.
InsertRow(a) ==
    /\ a \notin Present
    /\ \E k \in Ranks : rank' = [b \in Present \cup {a} |-> IF b = a THEN k ELSE rank[b]]
    /\ Changing
    /\ UNCHANGED steady

RemoveRow(a) ==
    /\ a \in Present
    /\ rank' = [b \in Present \ {a} |-> rank[b]]
    /\ steady' = steady \ {a}
    /\ Changing

\* A new score; a row that moves may be missed, or seen twice.
RankRow(a) ==
    /\ a \in Present
    /\ list.sort = "rank"
    /\ \E k \in Ranks \ {rank[a]} : rank' = [rank EXCEPT ![a] = k]
    /\ steady' = steady \ {a}
    /\ Changing

PageNext == NextPage \/ \E a \in RowIds : InsertRow(a) \/ RemoveRow(a) \/ RankRow(a)

PageSpec == PageInit /\ [][PageNext]_pageVars

-----------------------------------------------------------------------------
(* Properties *)

\* Every variable has its type.
PageTypeOK ==
    /\ list \in Lists
    /\ Present \subseteq RowIds /\ \A a \in Present : rank[a] \in Ranks
    /\ cursor \in [id : RowIds \cup {0}, rank : Ranks \cup {0, 1}]
    /\ listed \in [RowIds -> Nat]
    /\ changes \in 0..MaxChanges
    /\ steady \subseteq Present

\* lib/pagination.ts: a walk stays correct under concurrent inserts.  A row
\* that is there from the first page to the last, and does not move, is in
\* one page and one page only.
WalkSeesEveryRow ==
    \A a \in steady :
        /\ listed[a] <= 1
        /\ cursor = End => listed[a] = 1

=============================================================================
