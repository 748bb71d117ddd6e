----------------------------- MODULE Pagination -----------------------------
(***************************************************************************)
(* Walking the API's lists page by page while rows are added: decisions by *)
(* (occurred_at, transaction_id) through a cursor (list_transactions and   *)
(* its endpoint), and versions of a rule set by number through             *)
(* before_version (list_rule_set_versions and its endpoint).               *)
(*                                                                         *)
(* A decision is its sort key <<occurred_at, id>>: the filters of a walk   *)
(* do not change and neither do the columns they read, so Row stands for   *)
(* the rows that match.  A cursor is sent as text (ISO time to the         *)
(* microsecond, UUID), from which decode restores the same key; a token    *)
(* that decode refuses is answered 400 and changes nothing.  A late event  *)
(* puts a row anywhere in the order.                                       *)
(***************************************************************************)
EXTENDS Integers, Sequences, Functions

CONSTANTS
    Time,           \* values of occurred_at
    Id,             \* transaction ids, ordered
    Limit,          \* rows per page
    MaxVersion,     \* bound: versions ever published
    MaxPages        \* bound: pages a client asks for

ASSUME PageAssumption ==
    /\ Time \subseteq Nat /\ Id \subseteq Nat
    /\ Limit \in Nat \ {0}
    /\ MaxVersion \in Nat /\ MaxPages \in Nat

Row == Time \X Id
Start == <<>>           \* no cursor yet
End == <<"end">>        \* next_cursor is null

VARIABLES
    rows,           \* decisions stored
    latest,         \* versions 1..latest exist
    cursor,         \* what the client sends next
    listed,         \* decisions the client has received, in order
    atStart,        \* history: decisions stored when the walk began
    before,         \* before_version the client sends next; 0 at the start
    versions,       \* versions the client has received, in order
    latestAtStart,  \* history: the newest version when that walk began
    pages

pageVars == <<rows, latest, cursor, listed, atStart, before, versions, latestAtStart, pages>>
walk == <<cursor, listed, atStart>>
versionWalk == <<before, versions, latestAtStart>>

NoMore == -1          \* next_before_version is null

\* Every variable has the values the code can give it.
PageTypeOK ==
    /\ rows \subseteq Row /\ atStart \subseteq Row
    /\ latest \in 0..MaxVersion
    /\ cursor \in Row \cup {Start, End}
    /\ listed \in Seq(Row)
    /\ before \in {NoMore, 0} \cup 2..MaxVersion      \* the endpoint takes ge=2
    /\ versions \in Seq(1..MaxVersion)
    /\ latestAtStart \in 0..MaxVersion
    /\ pages \in Nat

PageInit ==
    /\ rows = {} /\ atStart = {}
    /\ latest = 0 /\ latestAtStart = 0
    /\ cursor = Start /\ listed = <<>>
    /\ before = 0 /\ versions = <<>>
    /\ pages = 0

\* A worker records a decision; the transaction id is the primary key.
Insert(row) ==
    /\ \A r \in rows : r[2] /= row[2]
    /\ rows' = rows \cup {row}
    /\ UNCHANGED <<latest, walk, versionWalk, pages>>

Release ==
    /\ latest < MaxVersion
    /\ latest' = latest + 1
    /\ UNCHANGED <<rows, walk, versionWalk, pages>>

-----------------------------------------------------------------------------
\* (occurred_at, transaction_id) < (cursor.occurred_at, cursor.transaction_id)
Below(r, c) == r[1] < c[1] \/ (r[1] = c[1] /\ r[2] < c[2])

Ask == pages < MaxPages /\ pages' = pages + 1

\* The first n of a sequence, or all of it.
FirstOf(s, n) == [i \in 1..(IF Len(s) < n THEN Len(s) ELSE n) |-> s[i]]

Matching(c) == {r \in rows : c = Start \/ Below(r, c)}

\* ORDER BY occurred_at DESC, transaction_id DESC
Descending(s) == \A i \in 1..(Len(s) - 1) : Below(s[i + 1], s[i])

\* What the query may return: newest first, and LIMIT n leaves out only older rows.
IsResult(found, c, n) ==
    /\ Descending(found)
    /\ Range(found) \subseteq Matching(c)
    /\ \A r \in Matching(c) \ Range(found) :
          Len(found) = n /\ \A i \in 1..n : Below(r, found[i])

\* The query asks for one row more than the page.
Results(c) ==
    {found \in UNION {[1..n -> rows] : n \in 0..(Limit + 1)} : IsResult(found, c, Limit + 1)}

\* Mutant: the cursor is the extra row, which the next page then excludes.
NextCursor_extra(found) == IF Len(found) > Limit THEN found[Limit + 1] ELSE End

\* The extra row tells that there is another page; the cursor is the last row kept.
NextCursor(found) == IF Len(found) > Limit THEN found[Limit] ELSE End

list_transactions ==
    /\ Ask
    /\ cursor /= End
    /\ \E found \in Results(cursor) :
          /\ listed' = listed \o FirstOf(found, Limit)
          /\ cursor' = NextCursor(found)
    /\ atStart' = IF cursor = Start THEN rows ELSE atStart
    /\ UNCHANGED <<rows, latest, versionWalk>>

-----------------------------------------------------------------------------
\* version < before_version, newest first.
FetchVersions(b) ==
    LET newest == IF b = 0 \/ b > latest THEN latest ELSE b - 1
    IN  FirstOf([i \in 1..newest |-> newest + 1 - i], Limit)

\* Mutant: a full page always has a successor.
NextBefore_full(found) ==
    IF Len(found) = Limit THEN found[Limit] ELSE NoMore

\* Mutant: the walk stops one version early.
NextBefore_short(found) ==
    IF Len(found) = Limit /\ found[Limit] > 2 THEN found[Limit] ELSE NoMore

\* A full page that does not end in version 1 has a successor.
NextBefore(found) ==
    IF Len(found) = Limit /\ found[Limit] > 1 THEN found[Limit] ELSE NoMore

\* An unknown key is a 404 on the first page.
list_versions ==
    /\ Ask
    /\ before /= NoMore
    /\ before = 0 => latest > 0
    /\ LET found == FetchVersions(before)
       IN  /\ versions' = versions \o found
           /\ before' = NextBefore(found)
    /\ latestAtStart' = IF before = 0 THEN latest ELSE latestAtStart
    /\ UNCHANGED <<rows, latest, walk>>

PageNext ==
    \/ \E row \in Row : Insert(row)
    \/ Release
    \/ list_transactions
    \/ list_versions

PageSpec == PageInit /\ [][PageNext]_pageVars

-----------------------------------------------------------------------------
(***************************************************************************)
(* Whatever is stored between two pages, ties on occurred_at included:     *)
(* decisions come strictly newest first, so none comes twice, and a walk   *)
(* that has ended has shown every decision stored when it began.           *)
(***************************************************************************)
CompleteWalk ==
    /\ Descending(listed)
    /\ cursor = End => atStart \subseteq Range(listed)

\* The walk over a rule set's versions shows every version there was when it
\* began, newest first and once each, and ends with version 1.
CompleteVersionWalk ==
    /\ \A i \in 1..(Len(versions) - 1) : versions[i + 1] = versions[i] - 1
    /\ before = NoMore =>
          /\ versions /= <<>> /\ versions[1] = latestAtStart
          /\ versions[Len(versions)] = 1
=============================================================================
