------------------------- MODULE RuleSetCacheProofs -------------------------
(***************************************************************************)
(* Proofs about RuleSetCache: the history of versions is linear, and no    *)
(* copy of a version outlives the staleness bound.                         *)
(*                                                                         *)
(* A copy carries a lower bound for the last time it was known to be       *)
(* active.  A row just read is active now; each hop (in flight to Redis,   *)
(* in Redis, in flight to the pod, in the pod's memory) takes a bounded    *)
(* time, so the bound falls behind by at most that much per hop.           *)
(***************************************************************************)
EXTENDS RuleSetCache, TLAPS

\* Versions that exist have all their predecessors, and so will the next one.
HistoryInv ==
    /\ VersionHistory
    /\ \A row \in rows : row.born <= now
    /\ \A e \in edits : Exists(e.version)
    /\ \A q \in Publisher : publisher[q].pc = "insert" =>
          \A v \in 1..(publisher[q].version - 1) : Exists(v)

\* The Redis entry: active at most one flight before it was written.
EntryInv ==
    redis.version /= None =>
        /\ now < redis.expires
        /\ redis.expires <= now + RedisTTL
        /\ ActiveSince(redis.version, redis.expires - RedisTTL - OpDelay)

\* What a call of get_active holds: a row it read, or a copy it is about to return.
CallInv(r) ==
    reader[r].pc \in {"fill", "loaded"} =>
        /\ reader[r].since <= now
        /\ now - reader[r].since <= OpDelay
        /\ reader[r].pc = "fill" /\ reader[r].got /= None =>
              ActiveSince(reader[r].got, reader[r].since)
        /\ reader[r].pc = "loaded" =>
              /\ reader[r].got /= None
              /\ ActiveSince(reader[r].got, reader[r].since + 1 - RedisTTL - OpDelay)

\* The copy in a pod's memory.
CopyInv(p) ==
    cached[p] /= None =>
        /\ cachedAt[p] <= now
        /\ ActiveSince(cached[p], cachedAt[p] + 1 - RedisTTL - 2 * OpDelay)

\* What a publisher is about to write to Redis.
RequestInv(q) ==
    /\ publisher[q].pc /= "idle" => publisher[q].version /= None
    /\ publisher[q].pc = "cache" =>
          /\ publisher[q].since <= now
          /\ now - publisher[q].since <= OpDelay
          /\ ActiveSince(publisher[q].version, publisher[q].since)

Inv ==
    /\ TypeOK
    /\ HistoryInv
    /\ EntryInv
    /\ \A r \in Reader : CallInv(r)
    /\ \A p \in Pod : CopyInv(p)
    /\ \A q \in Publisher : RequestInv(q)

----------------------------------------------------------------------------
(* ActiveSince *)

\* Rows and edits are only added, and carry the time they were added at.
Grows ==
    /\ now' \in Nat
    /\ now <= now'
    /\ \A row \in rows' : row \in rows \/ row.born = now
    /\ \A e \in edits' : e \in edits \/ e.at = now

\* A version active at time t was active at any earlier time or later.
LEMMA ActiveEarlier ==
    ASSUME TypeOK, NEW v \in Version, NEW t \in Int, NEW u \in Int, u <= t, ActiveSince(v, t)
    PROVE  ActiveSince(v, u)
  BY DEF ActiveSince, TypeOK, Row, Edit, Version

\* What happens now cannot make a version inactive in the past.
LEMMA ActiveStable ==
    ASSUME TypeOK, TypeOK', Grows, NEW v \in Version, NEW t \in Int, t <= now, ActiveSince(v, t)
    PROVE  ActiveSince(v, t)'
  BY DEF ActiveSince, TypeOK, Row, Edit, Version, Grows

\* The latest row, if unedited, is active now.
LEMMA LatestIsActive ==
    ASSUME TypeOK, NEW v \in Version, CurrentVersion(v), Intact(v)
    PROVE  ActiveSince(v, now)
  BY DEF ActiveSince, CurrentVersion, Intact, TypeOK, Row, Edit, Version

----------------------------------------------------------------------------
(* Every step *)

\* The initial states satisfy the invariant.
LEMMA InitInv == Init => Inv
  BY CacheAssumption
  DEF Init, Inv, TypeOK, HistoryInv, VersionHistory, Exists, EntryInv, CallInv, CopyInv,
      RequestInv, ActiveSince, NoEntry, IdleCall, IdleRequest, None, Row, Edit, Entry,
      Call, Request, Version

\* Every step keeps the types.
LEMMA TypeStep == Inv /\ Next => TypeOK'
  <1> SUFFICES ASSUME Inv, Next PROVE TypeOK'
    OBVIOUS
  <1>0. TypeOK /\ \A q \in Publisher : RequestInv(q)
    BY DEF Inv
  <1> USE <1>0
  <1> USE CacheAssumption DEF TypeOK, Entry, Call, Request, Version, None
  <1>1. ASSUME NEW r \in Reader, get_active(r) PROVE TypeOK'
    BY <1>1 DEF get_active, Lookup, ReadRedis, FallThrough, ReadDatabase, Refuse, Fill,
                Activate, Raise, Await, Hold, IdleCall, write_rule_set_cache
  <1>2. ASSUME NEW q \in Publisher, create_version(q) PROVE TypeOK'
    <2>1. CASE Begin(q)
      BY <2>1 DEF Begin
    <2>2. CASE Insert(q)
      <3>1. publisher[q].version \in Version
        BY <2>2 DEF Insert, RequestInv
      <3> QED
        BY <2>2, <3>1 DEF Insert, Commit, Row, IdleRequest
    <2>3. CASE Announce(q)
      <3>1. publisher[q].version \in Version
        BY <2>3 DEF Announce, RequestInv
      <3>2. redis' \in Entry
        BY <2>3, <3>1 DEF Announce, write_rule_set_cache
      <3>3. publisher' \in [Publisher -> Request] /\ announced' \in SUBSET Version
        BY <2>3, <3>1 DEF Announce, IdleRequest
      <3> QED
        BY <2>3, <3>2, <3>3 DEF Announce
    <2>4. CASE EndRequest(q)
      BY <2>4 DEF EndRequest, IdleRequest
    <2> QED
      BY <1>2, <2>1, <2>2, <2>3, <2>4 DEF create_version
  <1>3. ASSUME NEW p \in Pod, RestartPod(p) PROVE TypeOK'
    BY <1>3 DEF RestartPod, IdleCall
  <1>4. ASSUME NEW v \in Version, EditRow(v) PROVE TypeOK'
    BY <1>4 DEF EditRow, Edit
  <1>5. CASE Tick
    BY <1>5 DEF Tick, NoEntry
  <1> QED
    BY <1>1, <1>2, <1>3, <1>4, <1>5 DEF Next

\* Every step only adds rows and edits, stamped with its time.
LEMMA StepGrows == TypeOK /\ Next => Grows
  <1> SUFFICES ASSUME TypeOK, Next PROVE Grows
    OBVIOUS
  <1>1. ASSUME NEW r \in Reader, get_active(r) PROVE UNCHANGED <<now, rows, edits>>
    BY <1>1 DEF get_active, Lookup, ReadRedis, FallThrough, ReadDatabase, Refuse, Fill, Activate, Raise
  <1>2. ASSUME NEW q \in Publisher, create_version(q) PROVE Grows
    BY <1>2 DEF create_version, Begin, Insert, Commit, Announce, EndRequest, Grows, TypeOK
  <1>3. ASSUME NEW p \in Pod, RestartPod(p) PROVE UNCHANGED <<now, rows, edits>>
    BY <1>3 DEF RestartPod
  <1>4. ASSUME NEW v \in Version, EditRow(v) PROVE Grows
    BY <1>4 DEF EditRow, Grows, TypeOK
  <1>5. CASE Tick
    BY <1>5 DEF Tick, Grows, TypeOK
  <1> QED
    BY <1>1, <1>2, <1>3, <1>4, <1>5 DEF Next, Grows, TypeOK

\* An insert that the unique constraint lets through makes the latest version.
LEMMA InsertIsLatest ==
    ASSUME Inv, NEW q \in Publisher, publisher[q].pc = "insert", ~Exists(publisher[q].version)
    PROVE  /\ \A row \in rows : row.version < publisher[q].version
           /\ Intact(publisher[q].version)
  <1>1. publisher[q].version \in Version
    BY DEF Inv, TypeOK, Request, RequestInv, None
  <1>2. ASSUME NEW row \in rows, row.version >= publisher[q].version PROVE FALSE
    BY <1>1, <1>2 DEF Inv, HistoryInv, VersionHistory, TypeOK, Row, Version
  <1>3. \A row \in rows : row.version < publisher[q].version
    BY <1>1, <1>2 DEF Inv, TypeOK, Row, Version
  <1>4. Intact(publisher[q].version)
    BY DEF Inv, HistoryInv, Intact
  <1> QED
    BY <1>3, <1>4

\* Every step keeps the history linear.
LEMMA HistoryStep == Inv /\ Next => HistoryInv'
  <1> SUFFICES ASSUME Inv, Next PROVE HistoryInv'
    OBVIOUS
  <1>0. TypeOK /\ HistoryInv /\ TypeOK'
    BY TypeStep DEF Inv
  <1>1. ASSUME NEW r \in Reader, get_active(r) PROVE HistoryInv'
    BY <1>0, <1>1 DEF get_active, Lookup, ReadRedis, FallThrough, ReadDatabase, Refuse, Fill,
       Activate, Raise, HistoryInv, VersionHistory, Exists
  <1>2. ASSUME NEW q \in Publisher, create_version(q) PROVE HistoryInv'
    <2>1. CASE Begin(q)
      <3> PICK c \in 0..(MaxVersion - 1) :
              /\ CurrentVersion(c)
              /\ publisher' = [publisher EXCEPT ![q] =
                    [pc |-> "insert", version |-> c + 1, since |-> 0]]
        BY <2>1 DEF Begin
      <3>1. \A v \in 1..c : Exists(v)
        BY <1>0 DEF CurrentVersion, HistoryInv, VersionHistory
      <3> QED
        BY <1>0, <2>1, <3>1 DEF Begin, HistoryInv, VersionHistory, Exists, TypeOK, Request, Version
    <2>2. CASE Insert(q) /\ Exists(publisher[q].version)
      BY <1>0, <2>2 DEF Insert, IdleRequest, HistoryInv, VersionHistory, Exists, TypeOK, Request
    <2>3. CASE Insert(q) /\ ~Exists(publisher[q].version)
      <3> PICK n \in Version : n = publisher[q].version
        BY <2>3 DEF Insert, Inv, TypeOK, Request, RequestInv, None
      <3>1. /\ rows' = rows \cup {[version |-> n, born |-> now]}
            /\ publisher' = [publisher EXCEPT ![q].pc = "cache", ![q].since = now]
            /\ UNCHANGED <<now, edits>>
        BY <2>3 DEF Insert, Commit
      <3>2. \A row \in rows : row.version < n
        BY <2>3, InsertIsLatest DEF Insert
      <3>3. \A v : Exists(v) => Exists(v)'
        BY <3>1 DEF Exists
      <3>4. \A v \in 1..n : Exists(v)'
        <4>1. Exists(n)'
          <5>1. [version |-> n, born |-> now] \in rows'
            BY <3>1
          <5>2. [version |-> n, born |-> now].version = n
            OBVIOUS
          <5> QED
            BY <5>1, <5>2 DEF Exists
        <4>2. \A v \in 1..(n - 1) : Exists(v)
          BY <1>0, <2>3 DEF Insert, HistoryInv
        <4> QED
          BY <3>2, <3>3, <4>1, <4>2 DEF Version
      <3>5. VersionHistory'
        <4>1. \A a, b \in rows' : a.version <= b.version => a.born <= b.born
          BY <1>0, <3>1, <3>2 DEF HistoryInv, VersionHistory, TypeOK, Row, Version
        <4>2. \A a, b \in rows' : a.version = b.version => a = b
          BY <1>0, <3>1, <3>2 DEF HistoryInv, VersionHistory, TypeOK, Row, Version
        <4>3. \A a \in rows' : \A v \in 1..a.version : Exists(v)'
          BY <1>0, <3>1, <3>3, <3>4 DEF HistoryInv, VersionHistory
        <4> QED
          BY <4>1, <4>2, <4>3 DEF VersionHistory
      <3>6. \A row \in rows' : row.born <= now'
        BY <1>0, <3>1 DEF HistoryInv, TypeOK
      <3>7. \A e \in edits' : Exists(e.version)'
        BY <1>0, <3>1, <3>3 DEF HistoryInv
      <3>8. \A x \in Publisher : publisher'[x].pc = "insert" =>
              \A v \in 1..(publisher'[x].version - 1) : Exists(v)'
        <4> SUFFICES ASSUME NEW x \in Publisher, publisher'[x].pc = "insert"
                     PROVE  \A v \in 1..(publisher'[x].version - 1) : Exists(v)'
          OBVIOUS
        <4>1. publisher'[x] = publisher[x]
          BY <1>0, <3>1 DEF TypeOK, Request
        <4> QED
          BY <1>0, <3>3, <4>1 DEF HistoryInv
      <3> QED
        BY <3>5, <3>6, <3>7, <3>8 DEF HistoryInv
    <2>4. CASE Announce(q) \/ EndRequest(q)
      BY <1>0, <2>4 DEF Announce, EndRequest, IdleRequest, HistoryInv, VersionHistory, Exists,
         TypeOK, Request
    <2> QED
      BY <1>2, <2>1, <2>2, <2>3, <2>4 DEF create_version
  <1>3. ASSUME NEW p \in Pod, RestartPod(p) PROVE HistoryInv'
    BY <1>0, <1>3 DEF RestartPod, HistoryInv, VersionHistory, Exists
  <1>4. ASSUME NEW v \in Version, EditRow(v) PROVE HistoryInv'
    BY <1>0, <1>4 DEF EditRow, HistoryInv, VersionHistory, Exists
  <1>5. CASE Tick
    BY <1>0, <1>5 DEF Tick, HistoryInv, VersionHistory, Exists, TypeOK, Row
  <1> QED
    BY <1>1, <1>2, <1>3, <1>4, <1>5 DEF Next

\* A step that leaves a copy where it is keeps what is known about it.
LEMMA CopiesKept ==
    ASSUME Inv, Next
    PROVE  /\ UNCHANGED redis /\ now' = now => EntryInv'
           /\ \A r \in Reader : reader'[r] = reader[r] /\ now' = now => CallInv(r)'
           /\ \A p \in Pod : cached'[p] = cached[p] /\ cachedAt'[p] = cachedAt[p] => CopyInv(p)'
           /\ \A q \in Publisher : publisher'[q] = publisher[q] /\ now' = now => RequestInv(q)'
  <1>0. TypeOK /\ TypeOK' /\ Grows
    BY TypeStep, StepGrows DEF Inv
  <1> USE CacheAssumption
  <1>1. ASSUME UNCHANGED redis, now' = now PROVE EntryInv'
    <2> SUFFICES ASSUME redis.version /= None PROVE EntryInv'
      BY <1>1 DEF EntryInv
    <2>1. /\ redis.version \in Version
          /\ redis.expires - RedisTTL - OpDelay \in Int
          /\ redis.expires - RedisTTL - OpDelay <= now
          /\ ActiveSince(redis.version, redis.expires - RedisTTL - OpDelay)
      BY <1>0 DEF Inv, EntryInv, TypeOK, Entry, None
    <2>2. ActiveSince(redis.version, redis.expires - RedisTTL - OpDelay)'
      BY <1>0, <1>1, <2>1, ActiveStable DEF ActiveSince
    <2> QED
      BY <1>1, <2>2 DEF Inv, EntryInv
  <1>2. ASSUME NEW r \in Reader, reader'[r] = reader[r], now' = now PROVE CallInv(r)'
    <2> SUFFICES ASSUME reader[r].pc \in {"fill", "loaded"} PROVE CallInv(r)'
      BY <1>2 DEF CallInv
    <2>1. /\ reader[r].since \in Nat /\ reader[r].since <= now
          /\ reader[r].since + 1 - RedisTTL - OpDelay \in Int
          /\ reader[r].since + 1 - RedisTTL - OpDelay <= now
          /\ reader[r].got /= None => reader[r].got \in Version
      BY <1>0 DEF Inv, CallInv, TypeOK, Call
    <2>2. CASE reader[r].pc = "fill"
      <3>1. reader[r].got /= None => ActiveSince(reader[r].got, reader[r].since)'
        BY <1>0, <1>2, <2>1, <2>2, ActiveStable DEF Inv, CallInv, ActiveSince
      <3> QED
        BY <1>2, <2>2, <3>1 DEF Inv, CallInv
    <2>3. CASE reader[r].pc = "loaded"
      <3>1. ActiveSince(reader[r].got, reader[r].since + 1 - RedisTTL - OpDelay)'
        BY <1>0, <1>2, <2>1, <2>3, ActiveStable DEF Inv, CallInv, ActiveSince
      <3> QED
        BY <1>2, <2>3, <3>1 DEF Inv, CallInv
    <2> QED
      BY <2>2, <2>3
  <1>3. ASSUME NEW p \in Pod, cached'[p] = cached[p], cachedAt'[p] = cachedAt[p] PROVE CopyInv(p)'
    <2> SUFFICES ASSUME cached[p] /= None PROVE CopyInv(p)'
      BY <1>3 DEF CopyInv
    <2>1. /\ cached[p] \in Version
          /\ cachedAt[p] + 1 - RedisTTL - 2 * OpDelay \in Int
          /\ cachedAt[p] + 1 - RedisTTL - 2 * OpDelay <= now
          /\ cachedAt[p] <= now'
          /\ ActiveSince(cached[p], cachedAt[p] + 1 - RedisTTL - 2 * OpDelay)
      BY <1>0 DEF Inv, CopyInv, TypeOK, None, Grows
    <2>2. ActiveSince(cached[p], cachedAt[p] + 1 - RedisTTL - 2 * OpDelay)'
      BY <1>0, <1>3, <2>1, ActiveStable DEF ActiveSince
    <2> QED
      BY <1>3, <2>1, <2>2 DEF CopyInv
  <1>4. ASSUME NEW q \in Publisher, publisher'[q] = publisher[q], now' = now PROVE RequestInv(q)'
    <2>1. CASE publisher[q].pc /= "cache"
      BY <1>4, <2>1 DEF Inv, RequestInv
    <2>2. CASE publisher[q].pc = "cache"
      <3>1. /\ publisher[q].version \in Version
            /\ publisher[q].since \in Nat /\ publisher[q].since <= now
            /\ ActiveSince(publisher[q].version, publisher[q].since)
        BY <1>0, <2>2 DEF Inv, RequestInv, TypeOK, Request
      <3>2. ActiveSince(publisher[q].version, publisher[q].since)'
        BY <1>0, <1>4, <3>1, ActiveStable DEF ActiveSince
      <3> QED
        BY <1>4, <2>2, <3>2 DEF Inv, RequestInv
    <2> QED
      BY <2>1, <2>2
  <1> QED
    BY <1>1, <1>2, <1>3, <1>4

CopiesInv ==
    /\ EntryInv
    /\ \A r \in Reader : CallInv(r)
    /\ \A p \in Pod : CopyInv(p)
    /\ \A q \in Publisher : RequestInv(q)

\* A call of get_active knows how old the rule set it holds can be.
LEMMA ReaderStep ==
    ASSUME Inv, Next, NEW r \in Reader, get_active(r)
    PROVE  CopiesInv'
  <1>0. TypeOK /\ TypeOK' /\ now' = now /\ rows' = rows /\ edits' = edits /\ publisher' = publisher
    BY TypeStep DEF Inv, get_active, Lookup, ReadRedis, FallThrough, ReadDatabase, Refuse, Fill,
       Activate, Raise
  <1> USE CacheAssumption, CopiesKept
  <1>1. \A q \in Publisher : RequestInv(q)'
    BY <1>0
  <1>2. \A x \in Reader : x /= r => CallInv(x)'
    <2> SUFFICES ASSUME NEW x \in Reader, x /= r PROVE reader'[x] = reader[x]
      BY <1>0
    <2> QED
      BY <1>0 DEF get_active, Lookup, ReadRedis, FallThrough, ReadDatabase, Refuse, Fill,
         Activate, Raise, Await, Hold, TypeOK
  <1>3. CASE Lookup(r) \/ FallThrough(r) \/ Raise(r)
    <2>1. CallInv(r)'
      BY <1>0, <1>3 DEF Lookup, FallThrough, Raise, Await, IdleCall, CallInv, TypeOK
    <2> QED
      BY <1>0, <1>1, <1>2, <1>3, <2>1 DEF Lookup, FallThrough, Raise, CopiesInv
  <1>4. CASE ReadRedis(r)
    <2>1. /\ redis.version \in Version
          /\ ActiveSince(redis.version, redis.expires - RedisTTL - OpDelay)
          /\ now < redis.expires
      BY <1>0, <1>4 DEF ReadRedis, Inv, EntryInv, TypeOK, Entry
    <2>2. ActiveSince(redis.version, now + 1 - RedisTTL - OpDelay)
      BY <1>0, <2>1, ActiveEarlier DEF TypeOK, Entry
    <2>3. reader'[r] = [pc |-> "loaded", got |-> redis.version, since |-> now]
      BY <1>0, <1>4 DEF ReadRedis, Hold, TypeOK
    <2>4. CallInv(r)'
      BY <1>0, <2>1, <2>2, <2>3 DEF CallInv, ActiveSince, TypeOK, None, Version
    <2> QED
      BY <1>0, <1>1, <1>2, <1>4, <2>4 DEF ReadRedis, CopiesInv
  <1>5. CASE ReadDatabase(r)
    <2>1. PICK v \in Version :
              /\ CurrentVersion(v)
              /\ reader' = [reader EXCEPT ![r] =
                    [pc |-> "fill", got |-> IF Intact(v) THEN v ELSE None, since |-> now]]
      BY <1>5 DEF ReadDatabase, Hold
    <2>2. Intact(v) => ActiveSince(v, now)
      BY <1>0, <2>1, LatestIsActive
    <2>3. CallInv(r)'
      BY <1>0, <2>1, <2>2 DEF CallInv, ActiveSince, TypeOK
    <2> QED
      BY <1>0, <1>1, <1>2, <1>5, <2>3 DEF ReadDatabase, CopiesInv
  <1>6. CASE Refuse(r)
    <2>1. CallInv(r)'
      BY <1>0, <1>6 DEF Refuse, IdleCall, CallInv, TypeOK
    <2>2. \A p \in Pod : CopyInv(p)'
      <3> SUFFICES ASSUME NEW p \in Pod, p /= PodOf[r] PROVE CopyInv(p)'
        BY <1>0, <1>6 DEF Refuse, CopyInv, TypeOK
      <3> QED
        BY <1>0, <1>6 DEF Refuse, TypeOK
    <2> QED
      BY <1>0, <1>1, <1>2, <1>6, <2>1, <2>2 DEF Refuse, CopiesInv
  <1>7. CASE Fill(r)
    <2>1. /\ reader[r].got \in Version
          /\ reader[r].since \in Nat /\ now - reader[r].since <= OpDelay
          /\ ActiveSince(reader[r].got, reader[r].since)
      BY <1>0, <1>7 DEF Fill, Inv, CallInv, TypeOK, Call
    <2>2. ActiveSince(reader[r].got, now - OpDelay)
      BY <1>0, <2>1, ActiveEarlier DEF TypeOK
    <2>3. ActiveSince(reader[r].got, now + 1 - RedisTTL - OpDelay)
      BY <1>0, <2>1, <2>2, ActiveEarlier DEF TypeOK
    <2>4. reader'[r] = [pc |-> "loaded", got |-> reader[r].got, since |-> now]
      BY <1>0, <1>7 DEF Fill, Hold, TypeOK
    <2>5. CallInv(r)'
      BY <1>0, <2>1, <2>3, <2>4 DEF CallInv, ActiveSince, TypeOK, None, Version
    <2>6. EntryInv'
      <3>1. CASE write_rule_set_cache(reader[r].got)
        <4>1. redis'.version = reader[r].got /\ redis'.expires = now + RedisTTL
          BY <3>1 DEF write_rule_set_cache
        <4>2. redis'.expires - RedisTTL - OpDelay = now - OpDelay
          BY <1>0, <4>1 DEF TypeOK
        <4> QED
          BY <1>0, <2>2, <4>1, <4>2 DEF EntryInv, ActiveSince, TypeOK
      <3> QED
        BY <1>0, <1>7, <3>1 DEF Fill
    <2> QED
      BY <1>0, <1>1, <1>2, <1>7, <2>5, <2>6 DEF Fill, CopiesInv
  <1>8. CASE Activate(r)
    <2>1. /\ reader[r].got \in Version
          /\ reader[r].since \in Nat /\ now - reader[r].since <= OpDelay
          /\ ActiveSince(reader[r].got, reader[r].since + 1 - RedisTTL - OpDelay)
      BY <1>0, <1>8 DEF Activate, Inv, CallInv, TypeOK, Call
    <2>2. ActiveSince(reader[r].got, now + 1 - RedisTTL - 2 * OpDelay)
      BY <1>0, <2>1, ActiveEarlier DEF TypeOK
    <2>3. \A p \in Pod : CopyInv(p)'
      <3> SUFFICES ASSUME NEW p \in Pod PROVE CopyInv(p)'
        OBVIOUS
      <3>1. CASE p = PodOf[r]
        <4>1. cached'[p] = reader[r].got /\ cachedAt'[p] = now
          BY <1>0, <1>8, <3>1 DEF Activate, TypeOK
        <4> QED
          BY <1>0, <2>2, <4>1 DEF CopyInv, ActiveSince, TypeOK
      <3>2. CASE p /= PodOf[r]
        BY <1>0, <1>8, <3>2 DEF Activate, TypeOK
      <3> QED
        BY <3>1, <3>2
    <2>4. CallInv(r)'
      BY <1>0, <1>8 DEF Activate, IdleCall, CallInv, TypeOK
    <2> QED
      BY <1>0, <1>1, <1>2, <1>8, <2>3, <2>4 DEF Activate, CopiesInv
  <1> QED
    BY <1>3, <1>4, <1>5, <1>6, <1>7, <1>8 DEF get_active

\* A publisher announces a version that was the latest when it committed.
LEMMA PublisherStep ==
    ASSUME Inv, Next, NEW q \in Publisher, create_version(q)
    PROVE  CopiesInv'
  <1>0. TypeOK /\ TypeOK' /\ now' = now /\ UNCHANGED <<cached, cachedAt, reader>>
    BY TypeStep DEF Inv, create_version, Begin, Insert, Announce, EndRequest
  <1> USE CacheAssumption, CopiesKept
  <1>1. (\A r \in Reader : CallInv(r)') /\ \A p \in Pod : CopyInv(p)'
    BY <1>0
  <1>2. \A x \in Publisher : x /= q => RequestInv(x)'
    <2> SUFFICES ASSUME NEW x \in Publisher, x /= q PROVE publisher'[x] = publisher[x]
      BY <1>0
    <2> QED
      BY <1>0 DEF create_version, Begin, Insert, Commit, Announce, EndRequest, TypeOK
  <1>3. CASE Begin(q)
    <2>1. RequestInv(q)'
      BY <1>0, <1>3 DEF Begin, RequestInv, TypeOK, None
    <2> QED
      BY <1>0, <1>1, <1>2, <1>3, <2>1 DEF Begin, CopiesInv
  <1>4. CASE Insert(q)
    <2>1. ASSUME Exists(publisher[q].version) PROVE RequestInv(q)'
      BY <1>0, <1>4, <2>1 DEF Insert, IdleRequest, RequestInv, TypeOK
    <2>2. ASSUME ~Exists(publisher[q].version) PROVE RequestInv(q)'
      <3>1. /\ publisher[q].pc = "insert"
            /\ publisher[q].version \in Version
            /\ rows' = rows \cup {[version |-> publisher[q].version, born |-> now]}
            /\ edits' = edits
            /\ publisher'[q].pc = "cache" /\ publisher'[q].since = now
            /\ publisher'[q].version = publisher[q].version
        BY <1>0, <1>4, <2>2 DEF Insert, Commit, Inv, RequestInv, TypeOK, Request
      <3>2. /\ \A row \in rows : row.version < publisher[q].version
            /\ Intact(publisher[q].version)
        BY <2>2, <3>1, InsertIsLatest
      <3>3. ActiveSince(publisher[q].version, publisher[q].since)'
        BY <1>0, <3>1, <3>2 DEF ActiveSince, Intact, TypeOK, Row, Version
      <3> QED
        BY <1>0, <3>1, <3>3 DEF RequestInv, None, Version, TypeOK
    <2>3. EntryInv'
      BY <1>0, <1>4 DEF Insert
    <2> QED
      BY <1>1, <1>2, <2>1, <2>2, <2>3 DEF CopiesInv
  <1>5. CASE Announce(q)
    <2>1. /\ publisher[q].version \in Version
          /\ publisher[q].since \in Nat /\ now - publisher[q].since <= OpDelay
          /\ ActiveSince(publisher[q].version, publisher[q].since)
      BY <1>0, <1>5 DEF Announce, Inv, RequestInv, TypeOK, Request
    <2>2. ActiveSince(publisher[q].version, now - OpDelay)
      BY <1>0, <2>1, ActiveEarlier DEF TypeOK
    <2>3. redis'.version = publisher[q].version /\ redis'.expires = now + RedisTTL
      BY <1>5 DEF Announce, write_rule_set_cache
    <2>4. redis'.expires - RedisTTL - OpDelay = now - OpDelay
      BY <1>0, <2>3 DEF TypeOK
    <2>5. EntryInv'
      BY <1>0, <1>5, <2>2, <2>3, <2>4 DEF Announce, EntryInv, ActiveSince, TypeOK
    <2>6. RequestInv(q)'
      BY <1>0, <1>5 DEF Announce, IdleRequest, RequestInv, TypeOK
    <2> QED
      BY <1>1, <1>2, <2>5, <2>6 DEF CopiesInv
  <1>6. CASE EndRequest(q)
    <2>1. RequestInv(q)'
      BY <1>0, <1>6 DEF EndRequest, IdleRequest, RequestInv, TypeOK
    <2> QED
      BY <1>0, <1>1, <1>2, <1>6, <2>1 DEF EndRequest, CopiesInv
  <1> QED
    BY <1>3, <1>4, <1>5, <1>6 DEF create_version

\* Time passes only while every flight stays within OpDelay, and Redis drops the
\* entry when it expires.
LEMMA TickStep ==
    ASSUME Inv, Next, Tick
    PROVE  CopiesInv'
  <1>0. TypeOK /\ TypeOK' /\ Grows /\ now' = now + 1
        /\ UNCHANGED <<rows, edits, cached, cachedAt, reader, publisher>>
    BY TypeStep, StepGrows DEF Inv, Tick
  <1> USE CacheAssumption
  <1>1. EntryInv'
    BY <1>0 DEF Inv, EntryInv, Tick, NoEntry, None, ActiveSince, TypeOK, Entry
  <1>2. \A r \in Reader : CallInv(r)'
    BY <1>0 DEF Inv, CallInv, Tick, ActiveSince, TypeOK, Call
  <1>3. \A p \in Pod : CopyInv(p)'
    BY <1>0, CopiesKept
  <1>4. \A q \in Publisher : RequestInv(q)'
    BY <1>0 DEF Inv, RequestInv, Tick, ActiveSince, TypeOK, Request
  <1> QED
    BY <1>1, <1>2, <1>3, <1>4 DEF CopiesInv

\* The invariant is inductive.
THEOREM CacheInvariance == Spec => []Inv
  <1>1. Init => Inv
    BY InitInv
  <1>2. Inv /\ [Next]_vars => Inv'
    <2> SUFFICES ASSUME Inv, [Next]_vars PROVE Inv'
      OBVIOUS
    <2>1. CASE Next
      <3>1. ASSUME NEW r \in Reader, get_active(r) PROVE CopiesInv'
        BY <2>1, <3>1, ReaderStep
      <3>2. ASSUME NEW q \in Publisher, create_version(q) PROVE CopiesInv'
        BY <2>1, <3>2, PublisherStep
      <3>3. ASSUME NEW p \in Pod, RestartPod(p) PROVE CopiesInv'
        <4>1. \A x \in Pod : CopyInv(x)'
          <5> SUFFICES ASSUME NEW x \in Pod PROVE CopyInv(x)'
            OBVIOUS
          <5> QED
            BY <2>1, <3>3, CopiesKept DEF RestartPod, CopyInv, Inv, TypeOK
        <4>2. \A r \in Reader : CallInv(r)'
          BY <2>1, <3>3, CopiesKept DEF RestartPod, CallInv, IdleCall
        <4> QED
          BY <2>1, <3>3, <4>1, <4>2, CopiesKept DEF RestartPod, CopiesInv
      <3>4. ASSUME NEW v \in Version, EditRow(v) PROVE CopiesInv'
        BY <2>1, <3>4, CopiesKept DEF EditRow, CopiesInv
      <3>5. ASSUME Tick PROVE CopiesInv'
        BY <2>1, <3>5, TickStep
      <3>6. CopiesInv'
        BY <2>1, <3>1, <3>2, <3>3, <3>4, <3>5 DEF Next
      <3> QED
        BY <2>1, <3>6, TypeStep, HistoryStep DEF Inv, CopiesInv
    <2>2. CASE UNCHANGED vars
      <3>1. TypeOK' /\ HistoryInv'
        BY <2>2 DEF vars, Inv, TypeOK, HistoryInv, VersionHistory, Exists
      <3>2. EntryInv' /\ \A p \in Pod : CopyInv(p)'
        BY <2>2 DEF vars, Inv, EntryInv, CopyInv, ActiveSince
      <3>3. (\A r \in Reader : CallInv(r)') /\ \A q \in Publisher : RequestInv(q)'
        BY <2>2 DEF vars, Inv, CallInv, RequestInv, ActiveSince
      <3> QED
        BY <3>1, <3>2, <3>3 DEF Inv
    <2> QED
      BY <2>1, <2>2
  <1> QED
    BY <1>1, <1>2, PTL DEF Spec

\* Every variable of the caches keeps its type, whatever the interleaving.
THEOREM CacheTypeCorrect == Spec => []TypeOK
  <1>1. Inv => TypeOK
    BY DEF Inv
  <1> QED
    BY <1>1, CacheInvariance, PTL

\* Concurrent create_rule_set_version calls make one gapless history, for any
\* number of publishers.
THEOREM HistoryIsLinear == Spec => []VersionHistory
  <1>1. Inv => VersionHistory
    BY DEF Inv, HistoryInv
  <1> QED
    BY <1>1, CacheInvariance, PTL

\* No get_active returns a version superseded or edited longer ago than the local
\* TTL, the Redis TTL and two flights, for any TTLs, pods, tasks and failures.
THEOREM StalenessBounded == Spec => []StalenessBound
  <1>1. Inv => StalenessBound
    <2> SUFFICES ASSUME Inv, NEW p \in Pod, NEW v \in Version, v \in Usable(p)
                 PROVE  ActiveSince(v, now - (LocalTTL + RedisTTL + 2 * OpDelay) + 1)
      BY DEF StalenessBound, Usable
    <2> USE CacheAssumption
    <2>0. TypeOK
      BY DEF Inv
    <2>1. CASE Fresh(p) /\ cached[p] = v
      <3>1. /\ cachedAt[p] \in Nat /\ now - cachedAt[p] < LocalTTL
            /\ ActiveSince(v, cachedAt[p] + 1 - RedisTTL - 2 * OpDelay)
        BY <2>0, <2>1 DEF Fresh, Inv, CopyInv, TypeOK
      <3> QED
        BY <2>0, <3>1, ActiveEarlier DEF TypeOK
    <2>2. CASE \E r \in Reader : reader[r].pc = "loaded" /\ reader[r].got = v
      <3> PICK r \in Reader : reader[r].pc = "loaded" /\ reader[r].got = v
        BY <2>2
      <3>1. /\ reader[r].since \in Nat /\ now - reader[r].since <= OpDelay
            /\ ActiveSince(v, reader[r].since + 1 - RedisTTL - OpDelay)
        BY <2>0 DEF Inv, CallInv, TypeOK, Call
      <3> QED
        BY <2>0, <3>1, ActiveEarlier DEF TypeOK
    <2> QED
      BY <2>1, <2>2 DEF Usable
  <1> QED
    BY <1>1, CacheInvariance, PTL
=============================================================================
