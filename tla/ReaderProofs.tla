--------------------------- MODULE ReaderProofs ---------------------------
(***************************************************************************)
(* Proofs about the two readers of the decisions that workers keep adding: *)
(* the client that walks the API's lists (Pagination) and the daily        *)
(* summary (BatchSummary), for any rows, page size, window, day and        *)
(* delays.  The two share no variable; each is proved by itself.           *)
(***************************************************************************)
EXTENDS BatchSummary, Pagination, FiniteSetTheorems, WellFoundedInduction, TLAPS

(***************************************************************************)
(* Pagination.  The cursor is the last row listed, so what was stored when *)
(* the walk began is listed or below the cursor; a query that leaves out   *)
(* rows is full, and leaves out only rows below the ones it returns.       *)
(***************************************************************************)

\* A cursor is a row, or one of the two marks.
LEMMA Marks ==
    /\ Start # End
    /\ \A r \in Row : r # Start /\ r # End /\ r[1] \in Nat /\ r[2] \in Nat
  <1>1. Start # End
    BY DEF Start, End
  <1>2. ASSUME NEW t \in Time, NEW i \in Id PROVE <<t, i>> # Start /\ <<t, i>> # End
    BY DEF Start, End
  <1>3. \A r \in Row : r # Start /\ r # End /\ r[1] \in Nat /\ r[2] \in Nat
    <2>1. \A r \in Row : r = <<r[1], r[2]>> /\ r[1] \in Time /\ r[2] \in Id
      BY DEF Row
    <2> QED
      BY <1>2, <2>1, PageAssumption
  <1> QED
    BY <1>1, <1>3

\* What FirstOf keeps.
LEMMA FirstOfFacts ==
    ASSUME NEW S, NEW s \in Seq(S), NEW n \in Nat
    PROVE  /\ FirstOf(s, n) \in Seq(S)
           /\ Len(FirstOf(s, n)) = IF Len(s) < n THEN Len(s) ELSE n
           /\ \A i \in 1..Len(FirstOf(s, n)) : i \in 1..Len(s) /\ FirstOf(s, n)[i] = s[i]
  <1> DEFINE k == IF Len(s) < n THEN Len(s) ELSE n
  <1>1. k \in Nat /\ \A i \in 1..k : i \in 1..Len(s)
    OBVIOUS
  <1> HIDE DEF k
  <1>2. FirstOf(s, n) = [i \in 1..k |-> s[i]]
    BY DEF FirstOf, k
  <1>3. \A i \in 1..k : s[i] \in S
    BY <1>1
  <1>4. FirstOf(s, n) \in Seq(S) /\ Len(FirstOf(s, n)) = k
    BY <1>1, <1>2, <1>3
  <1> QED
    BY <1>1, <1>2, <1>4 DEF k

\* The result of a query is a short sequence of stored rows.
LEMMA ResultFacts ==
    ASSUME NEW c, NEW found \in Results(c)
    PROVE  /\ found \in Seq(rows) /\ Len(found) \in 0..(Limit + 1)
           /\ IsResult(found, c, Limit + 1)
           /\ \A i \in 1..Len(found) : found[i] \in Matching(c)
  <1>1. PICK n \in 0..(Limit + 1) : found \in [1..n -> rows]
    BY DEF Results
  <1>2. n \in Nat
    BY <1>1, PageAssumption
  <1>3. found \in Seq(rows) /\ Len(found) = n
    BY <1>1, <1>2
  <1>4. IsResult(found, c, Limit + 1)
    BY DEF Results
  <1>5. \A i \in 1..Len(found) : found[i] \in Matching(c)
    BY <1>1, <1>3, <1>4 DEF IsResult, Range
  <1> QED
    BY <1>1, <1>3, <1>4, <1>5

\* Before the walk nothing is listed; during it the cursor is the last row listed and
\* what was stored at the start is listed or older than the cursor.
WalkInv ==
    /\ atStart \subseteq rows
    /\ Descending(listed)
    /\ cursor = Start => listed = <<>>
    /\ cursor \in Row =>
          /\ listed # <<>> /\ cursor = listed[Len(listed)]
          /\ \A r \in atStart : r \in Range(listed) \/ Below(r, cursor)
    /\ cursor = End => atStart \subseteq Range(listed)

\* The versions shown run down from the newest at the start to the one before_version
\* names, or to version 1.
VersionInv ==
    /\ \A i \in 1..(Len(versions) - 1) : versions[i + 1] = versions[i] - 1
    /\ before = 0 => versions = <<>>
    /\ before # 0 => versions # <<>> /\ versions[1] = latestAtStart
    /\ before \in 2..MaxVersion => before <= latest /\ versions[Len(versions)] = before
    /\ before = NoMore => versions[Len(versions)] = 1

\* The inductive invariant.
PageInv == PageTypeOK /\ WalkInv /\ VersionInv

\* new is s followed by t.
Continues(new, s, t) ==
    /\ Len(new) = Len(s) + Len(t)
    /\ Range(s) \subseteq Range(new) /\ Range(t) \subseteq Range(new)
    /\ \A i \in 1..Len(s) : new[i] = s[i]
    /\ \A i \in 1..Len(t) : new[Len(s) + i] = t[i]
    /\ \A i \in (Len(s) + 1)..(Len(s) + Len(t)) : new[i] = t[i - Len(s)]

\* A page continues the list: it stays in order, and holds what it held.
LEMMA Continue ==
    ASSUME NEW S, NEW s \in Seq(S), NEW t \in Seq(S)
    PROVE  s \o t \in Seq(S) /\ Continues(s \o t, s, t)
  <1>1. /\ s \o t \in Seq(S) /\ Len(s \o t) = Len(s) + Len(t)
        /\ \A i \in 1..Len(s) : (s \o t)[i] = s[i]
        /\ \A i \in (Len(s) + 1)..(Len(s) + Len(t)) : (s \o t)[i] = t[i - Len(s)]
    OBVIOUS
  <1>2. ASSUME NEW i \in 1..Len(t)
        PROVE  Len(s) + i \in 1..Len(s \o t) /\ (s \o t)[Len(s) + i] = t[i]
    <2>1. Len(s) + i \in (Len(s) + 1)..(Len(s) + Len(t)) /\ (Len(s) + i) - Len(s) = i
      OBVIOUS
    <2> QED
      BY <1>1, <2>1
  <1>3. Range(s) \subseteq Range(s \o t)
    BY <1>1 DEF Range
  <1>4. Range(t) \subseteq Range(s \o t)
    <2> SUFFICES ASSUME NEW x \in Range(t) PROVE x \in Range(s \o t)
      OBVIOUS
    <2>1. PICK i \in 1..Len(t) : x = t[i]
      BY DEF Range
    <2>2. Len(s) + i \in DOMAIN (s \o t) /\ (s \o t)[Len(s) + i] = x
      BY <1>1, <1>2, <2>1
    <2> QED
      BY <2>2 DEF Range
  <1> QED
    BY <1>1, <1>2, <1>3, <1>4 DEF Continues

\* One page of decisions: the list stays in order and the walk forgets nothing.
LEMMA WalkStep ==
    ASSUME PageInv, list_transactions
    PROVE  /\ cursor' \in Row \cup {Start, End} /\ listed' \in Seq(Row) /\ atStart' \subseteq Row
           /\ WalkInv'
  <1>1. PICK found \in Results(cursor) :
           listed' = listed \o FirstOf(found, Limit) /\ cursor' = NextCursor(found)
    BY DEF list_transactions
  <1> DEFINE page == FirstOf(found, Limit)
  <1>2. /\ rows' = rows /\ rows \subseteq Row /\ cursor # End
        /\ atStart' = IF cursor = Start THEN rows ELSE atStart
        /\ listed \in Seq(Row) /\ cursor \in Row \cup {Start}
        /\ Limit \in Nat \ {0}
    BY PageAssumption DEF list_transactions, PageInv, PageTypeOK
  <1>3. /\ found \in Seq(rows) /\ Len(found) \in 0..(Limit + 1)
        /\ IsResult(found, cursor, Limit + 1)
        /\ \A i \in 1..Len(found) : found[i] \in Matching(cursor)
    BY ResultFacts
  <1>4. found \in Seq(Row)
    BY <1>2, <1>3
  <1>5. /\ page \in Seq(Row) /\ Len(page) = IF Len(found) < Limit THEN Len(found) ELSE Limit
        /\ \A i \in 1..Len(page) : i \in 1..Len(found) /\ page[i] = found[i]
    BY <1>2, <1>4, FirstOfFacts
  <1> HIDE DEF page
  <1>6. /\ listed' \in Seq(Row) /\ listed' = listed \o page
        /\ Len(listed') = Len(listed) + Len(page)
        /\ Range(listed) \subseteq Range(listed') /\ Range(page) \subseteq Range(listed')
        /\ \A i \in 1..Len(listed) : listed'[i] = listed[i]
        /\ \A i \in 1..Len(page) : listed'[Len(listed) + i] = page[i]
        /\ \A i \in (Len(listed) + 1)..(Len(listed) + Len(page)) : listed'[i] = page[i - Len(listed)]
    <2>1. listed' = listed \o page
      BY <1>1 DEF page
    <2> DEFINE new == listed \o page
    <2>2. new \in Seq(Row) /\ Continues(new, listed, page)
      BY <1>2, <1>5, Continue
    <2> HIDE DEF new
    <2>3. listed' = new
      BY <2>1 DEF new
    <2> QED
      BY <2>1, <2>2, <2>3 DEF Continues
  <1>7. Len(listed) \in Nat /\ Len(page) \in Nat /\ Len(found) \in Nat
    BY <1>2, <1>3, <1>5
  <1>8. Descending(page)
    <2>1. \A i \in 1..(Len(page) - 1) : i \in 1..(Len(found) - 1) /\ i + 1 \in 1..Len(page) /\ i \in 1..Len(page)
      BY <1>5, <1>7, <1>2
    <2> QED
      BY <1>3, <1>5, <2>1 DEF IsResult, Descending
  <1>9. listed # <<>> /\ page # <<>> => Below(page[1], listed[Len(listed)])
    <2>1. ASSUME listed # <<>>, page # <<>> PROVE Below(page[1], listed[Len(listed)])
      <3>1. cursor \in Row /\ cursor = listed[Len(listed)]
        BY <1>2, <2>1 DEF PageInv, WalkInv
      <3>2. 1 \in 1..Len(page)
        BY <1>5, <1>7, <2>1
      <3>3. page[1] \in Matching(cursor)
        BY <1>3, <1>5, <3>2
      <3>4. cursor # Start
        BY <3>1, Marks
      <3> QED
        BY <3>1, <3>3, <3>4 DEF Matching
    <2> QED
      BY <2>1
  <1>10. Descending(listed')
    <2> SUFFICES ASSUME NEW i \in 1..(Len(listed') - 1)
                 PROVE  Below(listed'[i + 1], listed'[i])
      BY DEF Descending
    <2>1. CASE i < Len(listed)
      <3>1. i \in 1..(Len(listed) - 1) /\ i \in 1..Len(listed) /\ i + 1 \in 1..Len(listed)
        BY <1>7, <2>1
      <3>2. Below(listed[i + 1], listed[i])
        BY <3>1 DEF PageInv, WalkInv, Descending
      <3> QED
        BY <1>6, <3>1, <3>2
    <2>2. CASE i = Len(listed)
      <3>1. i \in 1..Len(listed) /\ 1 \in 1..Len(page) /\ listed # <<>> /\ page # <<>>
        BY <1>2, <1>5, <1>6, <1>7, <2>2
      <3>2. listed'[i] = listed[Len(listed)] /\ listed'[i + 1] = page[1]
        BY <1>6, <2>2, <3>1
      <3> QED
        BY <1>9, <3>1, <3>2
    <2>3. CASE i > Len(listed)
      <3> DEFINE k == i - Len(listed)
      <3>1. /\ k \in 1..(Len(page) - 1) /\ k + 1 = (i + 1) - Len(listed)
            /\ i \in (Len(listed) + 1)..(Len(listed) + Len(page))
            /\ i + 1 \in (Len(listed) + 1)..(Len(listed) + Len(page))
        BY <1>6, <1>7, <2>3
      <3>2. listed'[i] = page[k] /\ listed'[i + 1] = page[k + 1]
        BY <1>6, <3>1
      <3> HIDE DEF k
      <3> QED
        BY <1>8, <3>1, <3>2 DEF Descending
    <2> QED
      BY <1>7, <2>1, <2>2, <2>3
  <1>11. atStart' \subseteq rows /\ atStart' \subseteq Row
    BY <1>2 DEF PageInv, WalkInv
  <1>12. ASSUME NEW r \in atStart' PROVE r \in Range(listed) \/ r \in Matching(cursor)
    BY <1>2, <1>11, <1>12 DEF PageInv, WalkInv, Matching
  <1>13. CASE Len(found) > Limit
    <2>1. Len(found) = Limit + 1 /\ Len(page) = Limit /\ cursor' = found[Limit]
      BY <1>1, <1>2, <1>3, <1>5, <1>13 DEF NextCursor
    <2>2. Limit \in 1..Len(page) /\ Limit \in 1..Len(found) /\ Limit \in 1..(Len(found) - 1)
      BY <1>2, <2>1
    <2>3. cursor' \in Row /\ cursor' = page[Limit]
      BY <1>4, <1>5, <2>1, <2>2
    <2>4. listed' # <<>> /\ cursor' = listed'[Len(listed')]
      <3>1. Len(listed') = Len(listed) + Limit /\ listed'[Len(listed) + Limit] = page[Limit]
        BY <1>6, <2>1, <2>2
      <3>2. listed' # <<>>
        BY <1>2, <1>6, <1>7, <3>1
      <3> QED
        BY <2>3, <3>1, <3>2
    <2>5. ASSUME NEW r \in atStart' PROVE r \in Range(listed') \/ Below(r, cursor')
      <3>1. CASE r \in Range(listed)
        BY <1>6, <3>1
      <3>2. CASE r \in Matching(cursor) /\ r \notin Range(found)
        <4>1. \A i \in 1..(Limit + 1) : Below(r, found[i])
          BY <1>3, <3>2 DEF IsResult
        <4> QED
          BY <1>2, <2>1, <4>1
      <3>3. CASE r \in Range(found)
        <4>1. PICK i \in 1..Len(found) : r = found[i]
          BY <1>3, <3>3 DEF Range
        <4>2. CASE i <= Limit
          <5>1. i \in 1..Len(page) /\ i \in DOMAIN page /\ page[i] = r
            BY <1>2, <1>5, <2>1, <4>1, <4>2
          <5>2. r \in Range(page)
            BY <5>1 DEF Range
          <5> QED
            BY <1>6, <5>2
        <4>3. CASE ~(i <= Limit)
          <5>1. i = Limit + 1
            BY <1>2, <2>1, <4>3
          <5>2. Below(found[Limit + 1], found[Limit])
            BY <1>3, <2>2 DEF IsResult, Descending
          <5> QED
            BY <2>1, <4>1, <5>1, <5>2
        <4> QED
          BY <4>2, <4>3
      <3> QED
        BY <1>12, <3>1, <3>2, <3>3
    <2>6. cursor' # Start /\ cursor' # End
      BY <2>3, Marks
    <2> QED
      BY <1>2, <1>6, <1>10, <1>11, <2>3, <2>4, <2>5, <2>6 DEF WalkInv
  <1>14. CASE ~(Len(found) > Limit)
    <2>1. cursor' = End /\ Len(page) = Len(found)
      BY <1>1, <1>2, <1>5, <1>7, <1>14 DEF NextCursor
    <2>2. cursor' \notin Row /\ cursor' # Start
      BY <2>1, Marks
    <2>3. ASSUME NEW r \in atStart' PROVE r \in Range(listed')
      <3>1. CASE r \in Range(listed)
        BY <1>6, <3>1
      <3>2. CASE r \in Matching(cursor)
        <4>1. r \in Range(found)
          <5>1. Len(found) # Limit + 1
            BY <1>2, <1>7, <1>14
          <5> QED
            BY <1>3, <3>2, <5>1 DEF IsResult
        <4>2. PICK i \in 1..Len(found) : r = found[i]
          BY <1>3, <4>1 DEF Range
        <4>3. i \in DOMAIN page /\ page[i] = r
          BY <1>5, <2>1, <4>2
        <4>4. r \in Range(page)
          BY <4>3 DEF Range
        <4> QED
          BY <1>6, <4>4
      <3> QED
        BY <1>12, <3>1, <3>2
    <2> QED
      BY <1>2, <1>6, <1>10, <1>11, <2>1, <2>2, <2>3 DEF WalkInv
  <1> QED
    BY <1>13, <1>14

\* One page of versions: the list goes on by one, down to version 1 where it ends.
LEMMA VersionStep ==
    ASSUME PageInv, list_versions
    PROVE  /\ before' \in {NoMore, 0} \cup 2..MaxVersion /\ versions' \in Seq(1..MaxVersion)
           /\ latestAtStart' \in 0..MaxVersion
           /\ VersionInv'
  <1> DEFINE newest == IF before = 0 \/ before > latest THEN latest ELSE before - 1
             all == [i \in 1..newest |-> newest + 1 - i]
             found == FetchVersions(before)
             V == 1..MaxVersion
  <1>1. /\ latest \in 0..MaxVersion /\ before # NoMore /\ MaxVersion \in Nat
        /\ before \in {NoMore, 0} \cup 2..MaxVersion /\ (before = 0 => latest > 0)
        /\ latest' = latest /\ versions \in Seq(V) /\ Limit \in Nat \ {0}
        /\ versions' = versions \o found /\ before' = NextBefore(found)
        /\ latestAtStart' = IF before = 0 THEN latest ELSE latestAtStart
        /\ latestAtStart \in 0..MaxVersion
    BY PageAssumption DEF list_versions, PageInv, PageTypeOK
  <1>2. /\ newest \in 1..MaxVersion /\ newest <= latest
        /\ IF before = 0 THEN newest = latest ELSE newest = before - 1
    <2>1. CASE before = 0
      BY <1>1, <2>1
    <2>2. CASE before # 0
      <3>1. before \in 2..MaxVersion /\ before <= latest
        BY <1>1, <2>2 DEF PageInv, VersionInv
      <3> QED
        BY <1>1, <2>2, <3>1
    <2> QED
      BY <2>1, <2>2
  <1> HIDE DEF newest
  <1>3. all \in Seq(V) /\ Len(all) = newest /\ \A i \in 1..newest : all[i] = newest + 1 - i
    <2>1. \A i \in 1..newest : newest + 1 - i \in V
      BY <1>1, <1>2
    <2> HIDE DEF V
    <2> QED
      BY <1>2, <2>1
  <1> HIDE DEF V
  <1>4. found = FirstOf(all, Limit)
    BY DEF FetchVersions, newest
  <1> HIDE DEF all, found
  <1>5. /\ found \in Seq(V) /\ Len(found) = (IF newest < Limit THEN newest ELSE Limit)
        /\ \A i \in 1..Len(found) : i \in 1..newest /\ found[i] = newest + 1 - i
    <2>1. /\ FirstOf(all, Limit) \in Seq(V)
          /\ Len(FirstOf(all, Limit)) = (IF Len(all) < Limit THEN Len(all) ELSE Limit)
          /\ \A i \in 1..Len(FirstOf(all, Limit)) :
                i \in 1..Len(all) /\ FirstOf(all, Limit)[i] = all[i]
      BY <1>1, <1>3, FirstOfFacts
    <2> QED
      BY <1>3, <1>4, <2>1
  <1>6. /\ Len(found) \in Nat \ {0} /\ 1 \in 1..Len(found) /\ Len(found) \in 1..Len(found)
        /\ found[1] = newest /\ found[Len(found)] = newest + 1 - Len(found)
    <2>1. Len(found) \in Nat \ {0}
      BY <1>1, <1>2, <1>5
    <2>2. 1 \in 1..Len(found) /\ Len(found) \in 1..Len(found)
      BY <2>1
    <2>3. found[1] = newest + 1 - 1 /\ found[Len(found)] = newest + 1 - Len(found)
      BY <1>5, <2>2
    <2> QED
      BY <1>2, <2>1, <2>2, <2>3
  <1>7. Len(versions) \in Nat /\ (versions = <<>> <=> Len(versions) = 0)
    BY <1>1
  <1> DEFINE new == versions \o found
  <1>8. /\ new \in Seq(V) /\ Len(new) = Len(versions) + Len(found)
        /\ \A i \in 1..Len(versions) : new[i] = versions[i]
        /\ \A i \in 1..Len(found) : new[Len(versions) + i] = found[i]
        /\ \A i \in (Len(versions) + 1)..(Len(versions) + Len(found)) : new[i] = found[i - Len(versions)]
    <2>1. new \in Seq(V) /\ Continues(new, versions, found)
      BY <1>1, <1>5, Continue
    <2> HIDE DEF new
    <2> QED
      BY <2>1 DEF Continues
  <1> HIDE DEF new
  <1>9. versions' = new
    BY <1>1 DEF new
  <1>10. versions # <<>> => versions[Len(versions)] = newest + 1
    <2>1. ASSUME versions # <<>> PROVE versions[Len(versions)] = newest + 1
      <3>1. before \in 2..MaxVersion
        BY <1>1, <2>1 DEF PageInv, VersionInv
      <3>2. before # 0 /\ before - 1 + 1 = before
        BY <3>1, <1>1
      <3> QED
        BY <1>2, <3>1, <3>2 DEF PageInv, VersionInv
    <2> QED
      BY <2>1
  <1>11. ASSUME NEW i \in 1..(Len(new) - 1) PROVE new[i + 1] = new[i] - 1
    <2>1. CASE i < Len(versions)
      <3>1. i \in 1..(Len(versions) - 1) /\ i \in 1..Len(versions) /\ i + 1 \in 1..Len(versions)
        BY <1>7, <2>1
      <3> QED
        BY <1>8, <3>1 DEF PageInv, VersionInv
    <2>2. CASE i = Len(versions)
      <3>1. i \in 1..Len(versions) /\ versions # <<>>
        BY <1>7, <2>2
      <3>2. new[i] = newest + 1 /\ new[i + 1] = newest
        BY <1>6, <1>8, <1>10, <2>2, <3>1
      <3> QED
        BY <1>2, <3>2
    <2>3. CASE i > Len(versions)
      <3> DEFINE k == i - Len(versions)
      <3>1. /\ k \in 1..Len(found) /\ k + 1 \in 1..Len(found)
            /\ (i + 1) - Len(versions) = k + 1
            /\ i \in (Len(versions) + 1)..(Len(versions) + Len(found))
            /\ i + 1 \in (Len(versions) + 1)..(Len(versions) + Len(found))
        BY <1>6, <1>7, <1>8, <2>3
      <3>2. new[i] = found[k] /\ new[i + 1] = found[k + 1]
        BY <1>8, <3>1
      <3> HIDE DEF k
      <3>3. found[k] = newest + 1 - k /\ found[k + 1] = newest + 1 - (k + 1)
        BY <1>5, <3>1
      <3> QED
        BY <1>2, <3>1, <3>2, <3>3
    <2> QED
      BY <1>7, <2>1, <2>2, <2>3
  <1>12. /\ Len(new) \in Nat \ {0} /\ new # <<>> /\ new[Len(new)] = newest + 1 - Len(found)
    <2>1. Len(new) \in Nat \ {0} /\ new # <<>>
      BY <1>6, <1>7, <1>8
    <2>2. new[Len(versions) + Len(found)] = found[Len(found)]
      BY <1>6, <1>8
    <2> QED
      BY <1>6, <1>8, <2>1, <2>2
  <1>13. new[1] = latestAtStart'
    <2>1. CASE before = 0
      <3>1. versions = <<>> /\ Len(versions) = 0
        BY <1>7, <2>1 DEF PageInv, VersionInv
      <3>2. new[1] = found[1]
        BY <1>6, <1>8, <3>1
      <3> QED
        BY <1>1, <1>2, <1>6, <2>1, <3>2
    <2>2. CASE before # 0
      <3>1. versions # <<>> /\ versions[1] = latestAtStart
        BY <2>2 DEF PageInv, VersionInv
      <3>2. 1 \in 1..Len(versions)
        BY <1>7, <3>1
      <3> QED
        BY <1>1, <1>8, <2>2, <3>1, <3>2
    <2> QED
      BY <2>1, <2>2
  <1>14. \/ /\ before' \in 2..MaxVersion /\ before' <= latest
            /\ before' = newest + 1 - Len(found)
         \/ before' = NoMore /\ newest + 1 - Len(found) = 1
    <2>1. CASE Len(found) = Limit /\ found[Limit] > 1
      <3>1. before' = newest + 1 - Len(found) /\ newest + 1 - Len(found) > 1
        BY <1>1, <1>6, <2>1 DEF NextBefore
      <3> QED
        BY <1>1, <1>2, <1>6, <3>1
    <2>2. CASE ~(Len(found) = Limit /\ found[Limit] > 1)
      <3>1. before' = NoMore
        BY <1>1, <2>2 DEF NextBefore
      <3>2. newest + 1 - Len(found) = 1
        BY <1>1, <1>2, <1>5, <1>6, <2>2
      <3> QED
        BY <3>1, <3>2
    <2> QED
      BY <2>1, <2>2
  <1>15. versions' \in Seq(1..MaxVersion)
    BY <1>8, <1>9 DEF V
  <1>16. before' # 0 /\ (before' \in 2..MaxVersion => before' # NoMore)
    BY <1>1, <1>14 DEF NoMore
  <1>17. VersionInv'
    <2>1. /\ \A i \in 1..(Len(versions') - 1) : versions'[i + 1] = versions'[i] - 1
          /\ versions' # <<>> /\ versions'[1] = latestAtStart'
      BY <1>9, <1>11, <1>12, <1>13
    <2>2. before' \in 2..MaxVersion => before' <= latest' /\ versions'[Len(versions')] = before'
      BY <1>1, <1>9, <1>12, <1>14, <1>16
    <2>3. before' = NoMore => versions'[Len(versions')] = 1
      BY <1>9, <1>12, <1>14, <1>16
    <2> QED
      BY <1>16, <2>1, <2>2, <2>3 DEF VersionInv
  <1> QED
    BY <1>1, <1>14, <1>15, <1>17

\* The invariant is inductive.
THEOREM PageInvariant == PageSpec => []PageInv
  <1>1. PageInit => PageInv
    <2> SUFFICES ASSUME PageInit PROVE PageInv
      OBVIOUS
    <2>1. PageTypeOK
      BY PageAssumption DEF PageInit, PageTypeOK
    <2>2. WalkInv
      BY Marks DEF PageInit, WalkInv, Descending
    <2>3. VersionInv
      BY PageAssumption DEF PageInit, VersionInv, NoMore
    <2> QED
      BY <2>1, <2>2, <2>3 DEF PageInv
  <1>2. PageInv /\ [PageNext]_pageVars => PageInv'
    <2> SUFFICES ASSUME PageInv, [PageNext]_pageVars PROVE PageInv'
      OBVIOUS
    <2>1. ASSUME NEW row \in Row, Insert(row) PROVE PageInv'
      BY <2>1 DEF Insert, PageInv, PageTypeOK, WalkInv, VersionInv, Descending, walk, versionWalk
    <2>2. ASSUME Release PROVE PageInv'
      <3>1. PageTypeOK'
        BY <2>2, PageAssumption DEF Release, PageInv, PageTypeOK, walk, versionWalk
      <3>2. WalkInv'
        BY <2>2 DEF Release, PageInv, WalkInv, Descending, walk
      <3>3. VersionInv'
        BY <2>2 DEF Release, PageInv, PageTypeOK, VersionInv, versionWalk
      <3> QED
        BY <3>1, <3>2, <3>3 DEF PageInv
    <2>3. ASSUME list_transactions PROVE PageInv'
      <3>1. UNCHANGED <<rows, latest, versionWalk>> /\ pages' = pages + 1
        BY <2>3 DEF list_transactions, Ask
      <3>2. PageTypeOK'
        BY <2>3, <3>1, WalkStep DEF PageInv, PageTypeOK, versionWalk
      <3>3. VersionInv'
        BY <3>1 DEF PageInv, VersionInv, versionWalk
      <3> QED
        BY <2>3, <3>2, <3>3, WalkStep DEF PageInv
    <2>4. ASSUME list_versions PROVE PageInv'
      <3>1. UNCHANGED <<rows, latest, walk>> /\ pages' = pages + 1
        BY <2>4 DEF list_versions, Ask
      <3>2. PageTypeOK'
        BY <2>4, <3>1, VersionStep DEF PageInv, PageTypeOK, walk
      <3>3. WalkInv'
        BY <3>1 DEF PageInv, WalkInv, Descending, walk
      <3> QED
        BY <2>4, <3>2, <3>3, VersionStep DEF PageInv
    <2>5. CASE UNCHANGED pageVars
      BY <2>5 DEF pageVars, PageInv, PageTypeOK, WalkInv, VersionInv, Descending
    <2> QED
      BY <2>1, <2>2, <2>3, <2>4, <2>5 DEF PageNext
  <1> QED
    BY <1>1, <1>2, PTL DEF PageSpec

\* Cursors, pages and before_version keep their types; next_before_version is one the
\* endpoint accepts.
THEOREM PagesTypeCorrect == PageSpec => []PageTypeOK
  BY PageInvariant, PTL DEF PageInv

\* For any page size, any rows and any insertions between two pages, a walk shows every
\* decision stored when it began, newest first and once.
THEOREM WalksComplete == PageSpec => []CompleteWalk
  <1>1. PageInv => CompleteWalk
    BY DEF PageInv, WalkInv, CompleteWalk
  <1> QED
    BY <1>1, PageInvariant, PTL

\* For any page size, a walk over the versions shows each one once, down to version 1.
THEOREM VersionWalksComplete == PageSpec => []CompleteVersionWalk
  <1>1. PageInv => CompleteVersionWalk
    BY DEF PageInv, VersionInv, CompleteVersionWalk, NoMore
  <1> QED
    BY <1>1, PageInvariant, PTL

(* The query always has an answer, so a client that asks is never left waiting. *)

\* A non-empty set of naturals has a least element.
LEMMA Least ==
    ASSUME NEW S \in SUBSET Nat, S # {}
    PROVE  \E m \in S : \A n \in S : m <= n
  <1> DEFINE R == {ss \in Nat \X Nat : ss[1] < ss[2]}
  <1>1. IsWellFoundedOn(R, Nat)
    BY NatLessThanWellFounded DEF OpToRel
  <1>2. PICK x \in S : \A y \in S : ~(<<y, x>> \in R)
    <2> HIDE DEF R
    <2> QED
      BY <1>1, WFMin
  <1>3. ASSUME NEW y \in S PROVE x <= y
    <2>1. <<y, x>> \in Nat \X Nat /\ ~(<<y, x>> \in R)
      BY <1>2
    <2>2. ~(y < x)
      BY <2>1
    <2> QED
      BY <2>1, <2>2
  <1> QED
    BY <1>3

\* (occurred_at, transaction_id) orders the rows totally.
LEMMA Total ==
    /\ \A r, s \in Row : r # s => Below(r, s) \/ Below(s, r)
    /\ \A r, s, t \in Row : Below(r, s) /\ Below(s, t) => Below(r, t)
  <1>1. \A r \in Row : r = <<r[1], r[2]>> /\ r[1] \in Nat /\ r[2] \in Nat
    <2>1. \A r \in Row : r = <<r[1], r[2]>>
      BY DEF Row
    <2> QED
      BY <2>1, Marks
  <1>2. \A r, s \in Row : r # s => Below(r, s) \/ Below(s, r)
    <2> SUFFICES ASSUME NEW r \in Row, NEW s \in Row, ~Below(r, s), ~Below(s, r) PROVE r = s
      OBVIOUS
    <2>1. r[1] = s[1] /\ r[2] = s[2]
      BY <1>1 DEF Below
    <2> QED
      BY <1>1, <2>1
  <1>3. \A r, s, t \in Row : Below(r, s) /\ Below(s, t) => Below(r, t)
    <2> SUFFICES ASSUME NEW r \in Row, NEW s \in Row, NEW t \in Row, Below(r, s), Below(s, t)
                 PROVE  Below(r, t)
      OBVIOUS
    <2>1. /\ r[1] \in Nat /\ r[2] \in Nat /\ s[1] \in Nat /\ s[2] \in Nat
          /\ t[1] \in Nat /\ t[2] \in Nat
      BY <1>1
    <2> QED
      BY <2>1 DEF Below
  <1> QED
    BY <1>2, <1>3

\* m is the newest row of S.
Newest(m, S) == m \in S /\ \A r \in S : r # m => Below(r, m)

\* A finite set of rows has a newest one.
LEMMA NewestExists ==
    ASSUME NEW S, S \subseteq Row, IsFiniteSet(S), S # {}
    PROVE  \E m : Newest(m, S)
  <1> DEFINE Without(T) == T # {} /\ ~(\E m : Newest(m, T))
             Bad == {n \in Nat : \E T \in SUBSET S : Cardinality(T) = n /\ Without(T)}
  <1> SUFFICES ASSUME Without(S) PROVE FALSE
    OBVIOUS
  <1>1. Cardinality(S) \in Bad
    <2>1. Cardinality(S) \in Nat /\ S \in SUBSET S
      BY FS_CardinalityType
    <2> QED
      BY <2>1
  <1>2. PICK n \in Bad : \A k \in Bad : n <= k
    <2>1. Bad \in SUBSET Nat /\ Bad # {}
      BY <1>1
    <2> HIDE DEF Bad
    <2> QED
      BY <2>1, Least
  <1>3. PICK T \in SUBSET S : Cardinality(T) = n /\ Without(T)
    OBVIOUS
  <1>4. IsFiniteSet(T) /\ n \in Nat
    BY FS_Subset
  <1>5. PICK x : x \in T
    BY <1>3
  <1>6. IsFiniteSet(T \ {x}) /\ Cardinality(T \ {x}) = n - 1 /\ Cardinality(T \ {x}) \in Nat
    BY <1>3, <1>4, <1>5, FS_RemoveElement, FS_CardinalityType
  <1>7. T \ {x} # {}
    <2>1. ASSUME T \ {x} = {} PROVE FALSE
      <3>1. Newest(x, T)
        BY <1>5, <2>1 DEF Newest
      <3> QED
        BY <1>3, <3>1
    <2> QED
      BY <2>1
  <1>8. PICK m : Newest(m, T \ {x})
    <2>1. n - 1 \notin Bad
      BY <1>2, <1>4
    <2>2. T \ {x} \in SUBSET S /\ n - 1 \in Nat
      BY <1>3, <1>6
    <2> QED
      BY <1>6, <1>7, <2>1, <2>2
  <1>9. m \in Row /\ x \in Row /\ m \in T /\ m # x /\ \A r \in T : r \in Row
    BY <1>3, <1>5, <1>8 DEF Newest
  <1>10. CASE Below(x, m)
    <2>1. Newest(m, T)
      BY <1>8, <1>9, <1>10 DEF Newest
    <2> QED
      BY <1>3, <2>1
  <1>11. CASE Below(m, x)
    <2>1. Newest(x, T)
      BY <1>5, <1>8, <1>9, <1>11, Total DEF Newest
    <2> QED
      BY <1>3, <2>1
  <1> QED
    BY <1>9, <1>10, <1>11, Total

\* found answers the query for S with LIMIT n.
Answers(found, S, n) ==
    /\ found \in Seq(S) /\ Len(found) <= n
    /\ Descending(found)
    /\ \A r \in S \ Range(found) : Len(found) = n /\ \A i \in 1..n : Below(r, found[i])

\* One row more: the newest of those left out, if any.
LEMMA NextAnswer ==
    ASSUME NEW S, S \subseteq Row, IsFiniteSet(S), NEW n \in Nat, NEW f, Answers(f, S, n)
    PROVE  \E g : Answers(g, S, n + 1)
  <1> DEFINE rest == S \ Range(f)
  <1>0. f \in Seq(S) /\ Len(f) \in Nat /\ Len(f) <= n
    BY DEF Answers
  <1>1. CASE rest = {}
    <2>1. Answers(f, S, n + 1)
      BY <1>0, <1>1 DEF Answers
    <2> QED
      BY <2>1
  <1>2. CASE rest # {}
    <2>1. Len(f) = n
      BY <1>2 DEF Answers
    <2>2. rest \subseteq Row /\ IsFiniteSet(rest)
      BY FS_Subset
    <2>3. PICK m : Newest(m, rest)
      <3> HIDE DEF rest
      <3> QED
        BY <1>2, <2>2, NewestExists
    <2>4. m \in S /\ m \notin Range(f) /\ \A i \in 1..n : Below(m, f[i])
      BY <2>3 DEF Newest, Answers
    <2> DEFINE g == Append(f, m)
    <2>5. /\ g \in Seq(S) /\ Len(g) = n + 1 /\ g[n + 1] = m
          /\ \A i \in 1..n : g[i] = f[i]
      BY <1>0, <2>1, <2>4
    <2> HIDE DEF g
    <2>6. Descending(g)
      <3> SUFFICES ASSUME NEW i \in 1..(Len(g) - 1) PROVE Below(g[i + 1], g[i])
        BY DEF Descending
      <3>1. CASE i = n
        BY <2>4, <2>5, <3>1
      <3>2. CASE i # n
        <4>1. i \in 1..(Len(f) - 1) /\ i \in 1..n /\ i + 1 \in 1..n
          BY <2>1, <2>5, <3>2
        <4> QED
          BY <2>5, <4>1 DEF Answers, Descending
      <3> QED
        BY <3>1, <3>2
    <2>7. Range(f) \subseteq Range(g) /\ m \in Range(g)
      <3>1. DOMAIN f = 1..n /\ DOMAIN g = 1..(n + 1)
        BY <1>0, <2>1, <2>5
      <3> QED
        BY <2>5, <3>1 DEF Range
    <2>8. ASSUME NEW r \in S \ Range(g), NEW i \in 1..(n + 1) PROVE Below(r, g[i])
      <3>1. r \in rest /\ r # m
        BY <2>7
      <3>2. CASE i \in 1..n
        BY <2>5, <3>1, <3>2 DEF Answers
      <3>3. CASE i = n + 1
        BY <2>3, <2>5, <3>1, <3>3 DEF Newest
      <3> QED
        BY <3>2, <3>3
    <2>9. Answers(g, S, n + 1)
      BY <2>5, <2>6, <2>8 DEF Answers
    <2> QED
      BY <2>9
  <1> QED
    BY <1>1, <1>2

\* The query over finitely many rows has an answer, whatever the limit.
LEMMA AnswerExists ==
    ASSUME NEW S, S \subseteq Row, IsFiniteSet(S), NEW n \in Nat
    PROVE  \E f : Answers(f, S, n)
  <1> DEFINE Bad == {k \in Nat : ~(\E f : Answers(f, S, k))}
  <1> SUFFICES ASSUME Bad # {} PROVE FALSE
    OBVIOUS
  <1>1. PICK k \in Bad : \A j \in Bad : k <= j
    <2>1. Bad \in SUBSET Nat
      OBVIOUS
    <2> HIDE DEF Bad
    <2> QED
      BY <2>1, Least
  <1>2. CASE k = 0
    <2>1. Answers(<<>>, S, 0)
      BY DEF Answers, Descending
    <2> QED
      BY <1>2, <2>1
  <1>3. CASE k # 0
    <2>1. k - 1 \in Nat /\ k - 1 \notin Bad
      BY <1>1, <1>3
    <2>2. PICK f : Answers(f, S, k - 1)
      BY <2>1
    <2>3. \E g : Answers(g, S, (k - 1) + 1)
      BY <2>1, <2>2, NextAnswer
    <2> QED
      BY <2>1, <2>3
  <1> QED
    BY <1>2, <1>3

\* The query of list_transactions has a result in every state, so WalksComplete is not
\* about pages that never come.
THEOREM QueryAnswered == PageSpec => [](\A c : Results(c) # {})
  <1> DEFINE Finite == PageTypeOK /\ IsFiniteSet(rows)
  <1>1. PageInit => IsFiniteSet(rows)
    BY FS_EmptySet DEF PageInit
  <1>2. IsFiniteSet(rows) /\ [PageNext]_pageVars => IsFiniteSet(rows)'
    <2> SUFFICES ASSUME IsFiniteSet(rows), [PageNext]_pageVars PROVE IsFiniteSet(rows')
      OBVIOUS
    <2>1. ASSUME NEW row \in Row, Insert(row) PROVE IsFiniteSet(rows')
      BY <2>1, FS_AddElement DEF Insert
    <2>2. CASE UNCHANGED rows
      BY <2>2
    <2> QED
      BY <2>1, <2>2 DEF PageNext, Release, list_transactions, list_versions, pageVars
  <1>3. Finite => \A c : Results(c) # {}
    <2> SUFFICES ASSUME Finite, NEW c PROVE Results(c) # {}
      OBVIOUS
    <2>1. Matching(c) \subseteq Row /\ Matching(c) \subseteq rows /\ IsFiniteSet(Matching(c))
      BY FS_Subset DEF Matching, PageTypeOK
    <2>2. Limit + 1 \in Nat
      BY PageAssumption
    <2>3. PICK f : Answers(f, Matching(c), Limit + 1)
      BY <2>1, <2>2, AnswerExists
    <2>4. f \in Seq(Matching(c)) /\ Len(f) \in 0..(Limit + 1)
      BY <2>2, <2>3 DEF Answers
    <2>5. f \in [1..Len(f) -> rows] /\ Range(f) \subseteq Matching(c)
      BY <2>1, <2>4 DEF Range
    <2>6. IsResult(f, c, Limit + 1)
      BY <2>3, <2>5 DEF Answers, IsResult
    <2>7. f \in Results(c)
      BY <2>4, <2>5, <2>6 DEF Results
    <2> QED
      BY <2>7
  <1> QED
    BY <1>1, <1>2, <1>3, PagesTypeCorrect, PTL DEF PageSpec

-----------------------------------------------------------------------------
(***************************************************************************)
(* BatchSummary.  A row that is not visible yet was created at most        *)
(* OpenTime ago.  So a count made at `at' has every row of its window      *)
(* created earlier than at - OpenTime, and rows added later carry later    *)
(* instants.  With two such counts, whose windows overlap by OpenTime, a   *)
(* row is either old enough for the first or young enough for the window   *)
(* of the second.                                                          *)
(***************************************************************************)

\* A row is added with the instant of its transaction's start, not long ago.
RowInv ==
    \A d \in Decision :
        created[d] # Never =>
            /\ created[d] <= now
            /\ d \notin visible => now - created[d] <= OpenTime

\* What a count made at r.at over the window from r.since knows.
CountInv(r) ==
    /\ r.at <= now
    /\ \A d \in Decision :
          created[d] # Never /\ created[d] >= r.since /\ created[d] + OpenTime < r.at => d \in r.total

\* The rows of a count stay in the window.
TotalInv == pc = "grouping" => run.total \subseteq Since(run.since) /\ CountInv(run)

ReportInv == \A i \in 1..Len(reports) : CountInv(reports[i])

Inv == TypeOK /\ RowInv /\ TotalInv /\ ReportInv /\ BreakdownCoversTotal

\* seconds_until_next_run: positive, at most a day, and up to the time of day.
LEMMA NextDelay ==
    ASSUME now \in Nat
    PROVE  seconds_until_next_run \in 1..Day /\ (now + Skew + seconds_until_next_run) % Day = 0
  <1>0. Clock \in Int /\ Clock = now + Skew /\ Day \in Nat \ {0}
    BY BatchAssumption DEF Clock
  <1>1. PICK q \in Int : q = Clock \div Day /\ Day * q <= Clock /\ Clock < Day * q + Day
    BY <1>0
  <1>2. Day * (q + 1) = Day * q + Day /\ Day * q \in Int
    BY <1>0, <1>1
  <1>3. seconds_until_next_run = Day * (q + 1) - Clock
    BY <1>1 DEF seconds_until_next_run
  <1>4. now + Skew + seconds_until_next_run = Day * (q + 1)
    BY <1>0, <1>1, <1>2, <1>3, BatchAssumption
  <1>5. (Day * (q + 1)) % Day = 0
    BY <1>0, <1>1
  <1> QED
    BY <1>0, <1>1, <1>2, <1>3, <1>4, <1>5

\* A run that has just started, and none.
LEMMA RunTypes ==
    ASSUME now \in Nat
    PROVE  NoRun \in Run /\ [NoRun EXCEPT !.started = now, !.since = Clock - Window] \in Run
  <1>1. NoRun \in Run
    BY DEF NoRun, Run
  <1>2. \A r \in Run, n \in Nat, w \in Int : [r EXCEPT !.started = n, !.since = w] \in Run
    BY DEF Run
  <1>3. Clock - Window \in Int
    BY BatchAssumption DEF Clock
  <1> QED
    BY <1>1, <1>2, <1>3

\* What is in the list of reports.
LEMMA ReportTypes ==
    ASSUME TypeOK, NEW i \in 1..Len(reports)
    PROVE  reports[i].at \in Nat /\ reports[i].since \in Int
  <1>1. reports[i] \in Report
    BY DEF TypeOK
  <1> QED
    BY <1>1 DEF Report

\* The initial states satisfy the invariant.
LEMMA InitInv == Init => Inv
  <1> SUFFICES ASSUME Init PROVE Inv
    OBVIOUS
  <1>1. TypeOK
    <2>1. NoRun \in Run /\ <<>> \in Seq(Report)
      BY DEF NoRun, Run
    <2>2. asked \in 0..now /\ delay \in 0..Day
      BY BatchAssumption DEF Init
    <2>3. pc # "waiting"
      BY DEF Init
    <2> QED
      BY <2>1, <2>2, <2>3 DEF Init, TypeOK, Never
  <1>2. RowInv /\ TotalInv /\ ReportInv /\ BreakdownCoversTotal
    BY DEF Init, RowInv, TotalInv, ReportInv, BreakdownCoversTotal
  <1> QED
    BY <1>1, <1>2 DEF Inv

\* Rows are added with the present instant, and otherwise keep theirs.
RowsGo ==
    /\ now' \in Nat /\ now <= now'
    /\ created' \in [Decision -> Nat \cup {Never}]
    /\ \A d \in Decision : created'[d] = created[d] \/ (created[d] = Never /\ created'[d] = now)
    /\ visible \subseteq visible'

\* What a count knows stays true.
LEMMA CountStays ==
    ASSUME TypeOK, RowsGo, NEW r, r.at \in Nat, CountInv(r)
    PROVE  CountInv(r)'
  BY BatchAssumption DEF TypeOK, RowsGo, CountInv

\* Steps that log nothing and leave the run alone.
LEMMA QuietStep ==
    ASSUME Inv, TypeOK', RowInv', RowsGo, UNCHANGED <<run, reports>>,
           pc' = "grouping" => pc = "grouping"
    PROVE  Inv'
  <1>0. TypeOK /\ TotalInv /\ ReportInv
    BY DEF Inv
  <1>1. TotalInv'
    <2> SUFFICES ASSUME pc' = "grouping"
                 PROVE  (run.total \subseteq Since(run.since) /\ CountInv(run))'
      BY DEF TotalInv
    <2>1. run.total \subseteq Since(run.since) /\ CountInv(run)
      BY <1>0 DEF TotalInv
    <2>2. (run.total \subseteq Since(run.since))'
      BY <1>0, <2>1 DEF Since, RowsGo, TypeOK, Never
    <2>3. PICK r : r = run
      OBVIOUS
    <2>4. CountInv(r)'
      BY <1>0, <2>1, <2>3, CountStays DEF TypeOK, Run
    <2> QED
      BY <2>2, <2>3, <2>4 DEF CountInv
  <1>2. ReportInv'
    <2> SUFFICES ASSUME NEW i \in 1..Len(reports) PROVE CountInv(reports[i])'
      BY DEF ReportInv
    <2>1. PICK r : r = reports[i]
      OBVIOUS
    <2>2. r.at \in Nat
      BY <1>0, <2>1, ReportTypes
    <2>3. CountInv(r)'
      BY <1>0, <2>1, <2>2, CountStays DEF ReportInv
    <2> QED
      BY <2>1, <2>3 DEF CountInv
  <1> QED
    BY <1>1, <1>2 DEF Inv, BreakdownCoversTotal

\* A worker adds a row, or commits one.
LEMMA WorkerStep ==
    ASSUME Inv, NEW d \in Decision, Add(d) \/ CommitDecision(d)
    PROVE  Inv'
  <1>0. TypeOK /\ RowInv /\ UNCHANGED <<now, pc, resident, asked, delay, run, reports>>
    BY DEF Inv, Add, CommitDecision, timer
  <1>1. RowsGo
    BY <1>0 DEF Add, CommitDecision, RowsGo, TypeOK
  <1>2. TypeOK'
    BY <1>0 DEF Add, CommitDecision, TypeOK, Never
  <1>3. RowInv'
    BY <1>0, BatchAssumption DEF Add, CommitDecision, TypeOK, RowInv, Never
  <1> QED
    BY <1>0, <1>1, <1>2, <1>3, QuietStep

\* Time passes.
LEMMA TickStep ==
    ASSUME Inv, Tick
    PROVE  Inv'
  <1>0. /\ TypeOK /\ RowInv /\ now' = now + 1
        /\ UNCHANGED <<created, visible, pc, resident, asked, delay, run, reports>>
    BY DEF Inv, Tick, rowVars, timer
  <1>1. RowsGo
    BY <1>0 DEF RowsGo, TypeOK
  <1>2. TypeOK'
    BY <1>0, BatchAssumption DEF TypeOK
  <1>3. RowInv'
    BY <1>0, BatchAssumption DEF Tick, TypeOK, RowInv, Never
  <1> QED
    BY <1>0, <1>1, <1>2, <1>3, QuietStep

\* The process starts, starts a run or stops: no count is in hand afterwards.
LEMMA ProcessStep ==
    ASSUME Inv, Boot \/ Wake \/ Once \/ Stop \/ FailRun
    PROVE  Inv'
  <1>0. TypeOK /\ RowInv /\ UNCHANGED <<now, created, visible, reports>>
    BY DEF Inv, Boot, Wake, Once, StartRun, Stop, FailRun, rowVars
  <1>1. pc' \in {"down", "waiting", "counting"} /\ resident' \in BOOLEAN
    BY <1>0 DEF Boot, Wake, Once, StartRun, Stop, FailRun, Done, Wait, TypeOK
  <1>2. run' \in Run
    <2>1. NoRun \in Run /\ [NoRun EXCEPT !.started = now, !.since = Clock - Window] \in Run
      BY <1>0, RunTypes DEF TypeOK
    <2> QED
      BY <1>0, <2>1 DEF Boot, Wake, Once, StartRun, Stop, FailRun, Done, TypeOK
  <1>3. /\ asked' \in 0..now /\ delay' \in 0..Day
        /\ pc' = "waiting" => delay' # 0 /\ (asked' + Skew + delay') % Day = 0
    <2>1. \/ UNCHANGED <<asked, delay>> /\ pc' # "waiting"
          \/ asked' = now /\ delay' = seconds_until_next_run
      BY DEF Boot, Wake, Once, StartRun, Stop, FailRun, Done, Wait, timer
    <2>2. /\ seconds_until_next_run \in 1..Day
          /\ (now + Skew + seconds_until_next_run) % Day = 0
      BY <1>0, NextDelay DEF TypeOK
    <2> QED
      BY <1>0, <2>1, <2>2, BatchAssumption DEF TypeOK
  <1>4. TypeOK'
    BY <1>0, <1>1, <1>2, <1>3 DEF TypeOK
  <1>5. RowInv' /\ TotalInv' /\ ReportInv'
    BY <1>0, <1>1 DEF Inv, RowInv, TotalInv, ReportInv, CountInv
  <1> QED
    BY <1>0, <1>4, <1>5 DEF Inv, BreakdownCoversTotal

\* The first statement counts.
LEMMA CountStep ==
    ASSUME Inv, Count
    PROVE  Inv'
  <1>0. /\ TypeOK /\ RowInv /\ UNCHANGED <<now, created, visible, resident, asked, delay, reports>>
        /\ pc' = "grouping"
    BY DEF Inv, Count, rowVars, timer
  <1>1. /\ run' \in Run /\ run'.since = run.since /\ run'.total = Since(run.since) /\ run'.at = now
    BY <1>0 DEF Count, TypeOK, Run, Since
  <1>2. TypeOK'
    BY <1>0, <1>1 DEF TypeOK
  <1>3. TotalInv'
    <2>1. Since(run.since)' = Since(run.since)
      BY <1>0, <1>1 DEF Since
    <2>2. CountInv(run)'
      BY <1>0, <1>1, BatchAssumption DEF CountInv, RowInv, Since, TypeOK, Run
    <2> QED
      BY <1>1, <2>1, <2>2 DEF TotalInv
  <1>4. RowInv' /\ ReportInv'
    BY <1>0 DEF Inv, RowInv, ReportInv, CountInv
  <1> QED
    BY <1>0, <1>2, <1>3, <1>4 DEF Inv, BreakdownCoversTotal

\* The second groups, and the summary is logged.
LEMMA GroupStep ==
    ASSUME Inv, Group
    PROVE  Inv'
  <1> DEFINE s == Summary(Since(run.since))
  <1>0. /\ TypeOK /\ RowInv /\ UNCHANGED <<now, created, visible>> /\ pc = "grouping"
        /\ reports' = Append(reports, s)
    BY DEF Inv, Group, rowVars
  <1>1. /\ s \in Report /\ s.total = run.total /\ s.grouped = Since(run.since)
        /\ s.at = run.at /\ s.since = run.since
    BY <1>0 DEF Summary, Report, TypeOK, Run, Since
  <1>2. /\ pc' \in {"down", "waiting"} /\ resident' = resident /\ run' = NoRun
        /\ \/ UNCHANGED <<asked, delay>> /\ pc' # "waiting"
           \/ asked' = now /\ delay' = seconds_until_next_run
    BY DEF Group, Done, Wait, timer
  <1>3. s.total \subseteq s.grouped /\ CountInv(s)
    BY <1>0, <1>1 DEF Inv, TotalInv, CountInv
  <1> HIDE DEF s
  <1>4. /\ Len(reports') = Len(reports) + 1 /\ reports'[Len(reports')] = s
        /\ \A i \in 1..Len(reports) : reports'[i] = reports[i]
        /\ reports' \in Seq(Report) /\ Len(reports) \in Nat
    BY <1>0, <1>1 DEF TypeOK
  <1>5. TypeOK'
    <2>1. NoRun \in Run
      BY DEF NoRun, Run
    <2>2. /\ seconds_until_next_run \in 1..Day
          /\ (now + Skew + seconds_until_next_run) % Day = 0
      BY <1>0, NextDelay DEF TypeOK
    <2> QED
      BY <1>0, <1>2, <1>4, <2>1, <2>2, BatchAssumption DEF TypeOK
  <1>6. ReportInv'
    <2> SUFFICES ASSUME NEW i \in 1..Len(reports') PROVE CountInv(reports[i])'
      BY DEF ReportInv
    <2>1. CASE i \in 1..Len(reports)
      BY <1>0, <1>4, <2>1 DEF Inv, ReportInv, CountInv
    <2>2. CASE i = Len(reports')
      BY <1>0, <1>3, <1>4, <2>2 DEF CountInv
    <2> QED
      BY <1>4, <2>1, <2>2
  <1>7. BreakdownCoversTotal'
    <2> SUFFICES ASSUME NEW i \in 1..Len(reports')
                 PROVE  reports'[i].total \subseteq reports'[i].grouped
      BY DEF BreakdownCoversTotal
    <2>1. CASE i \in 1..Len(reports)
      BY <1>4, <2>1 DEF Inv, BreakdownCoversTotal
    <2>2. CASE i = Len(reports')
      BY <1>3, <1>4, <2>2
    <2> QED
      BY <1>4, <2>1, <2>2
  <1> QED
    BY <1>0, <1>2, <1>5, <1>6, <1>7 DEF Inv, RowInv, TotalInv

\* Every step keeps the invariant.
LEMMA InvStep == Inv /\ [Next]_vars => Inv'
  <1> SUFFICES ASSUME Inv, [Next]_vars PROVE Inv'
    OBVIOUS
  <1>1. CASE UNCHANGED vars
    BY <1>1 DEF vars, rowVars, timer, Inv, TypeOK, RowInv, TotalInv, ReportInv, CountInv, Since, BreakdownCoversTotal
  <1>2. CASE Next
    BY <1>2, WorkerStep, TickStep, ProcessStep, CountStep, GroupStep DEF Next
  <1> QED
    BY <1>1, <1>2

\* The invariant holds throughout.
LEMMA Invariance == Spec => []Inv
  BY InitInv, InvStep, PTL DEF Spec

----------------------------------------------------------------------------
(***************************************************************************)
(* The summary's state keeps its types; what seconds_until_next_run        *)
(* answers is "always > 0", at most a day, and leads to the time of day on *)
(* the process's clock, whatever that clock's distance to the database's.  *)
(***************************************************************************)
THEOREM SummaryTypeCorrect == Spec => []TypeOK
  BY Invariance, PTL DEF Inv

(***************************************************************************)
(* A decision committed while run_summary counts, or created before and    *)
(* committed after, is in one of two runs whose windows overlap by the     *)
(* longest transaction of a worker.                                        *)
(***************************************************************************)
THEOREM NoDecisionBetweenRuns == Spec => []NothingBetweenRuns
  <1>1. Inv => NothingBetweenRuns
    <2> SUFFICES ASSUME Inv, NEW i \in 1..(Len(reports) - 1),
                        reports[i + 1].since <= reports[i].at - OpenTime,
                        NEW d \in Decision, created[d] # Never,
                        created[d] >= reports[i].since,
                        created[d] + OpenTime < reports[i + 1].at
                 PROVE  Counted(i, d) \/ Counted(i + 1, d)
      BY DEF NothingBetweenRuns
    <2>1. i \in 1..Len(reports) /\ i + 1 \in 1..Len(reports)
      BY DEF Inv, TypeOK
    <2>2. CountInv(reports[i]) /\ CountInv(reports[i + 1])
      BY <2>1 DEF Inv, ReportInv
    <2>3. reports[i].at \in Nat /\ reports[i + 1].since \in Int /\ created[d] \in Nat
      BY <2>1, ReportTypes DEF Inv, TypeOK
    <2>4. CASE created[d] >= reports[i + 1].since
      BY <2>2, <2>4 DEF CountInv, Counted
    <2>5. CASE created[d] < reports[i + 1].since
      <3>1. created[d] + OpenTime < reports[i].at
        BY <2>3, <2>5, BatchAssumption
      <3> QED
        BY <2>2, <3>1 DEF CountInv, Counted
    <2> QED
      BY <2>3, <2>4, <2>5
  <1> QED
    BY <1>1, Invariance, PTL

(***************************************************************************)
(* The breakdown by category of summarize_transactions covers the total,   *)
(* although it is a second statement.                                      *)
(***************************************************************************)
THEOREM BreakdownsCover == Spec => []BreakdownCoversTotal
  BY Invariance, PTL DEF Inv
=============================================================================
