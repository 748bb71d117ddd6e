---------------------------- MODULE RuleSetCache ----------------------------
(***************************************************************************)
(* One rule set's versions and the caches in front of them: the table      *)
(* rule_set_versions, its publishers (POST .../versions of app/api.py, on  *)
(* create_rule_set_version of app/database.py), the shared Redis entry and *)
(* each worker pod's RuleSetProvider (app/cache.py).                       *)
(*                                                                         *)
(* The partition tasks of a pod share one provider and call get_active     *)
(* concurrently; every await in it is a point where other tasks, pods and  *)
(* publishers act.  Time is discrete.  A value that was read and is on its *)
(* way to where it takes effect travels for at most OpDelay, which stands  *)
(* for the socket and statement timeouts of settings.py.                   *)
(*                                                                         *)
(* The content of a version is its number: load_stored_definition accepts  *)
(* a row unless it was edited in place after its hash was recorded.        *)
(***************************************************************************)
EXTENDS Integers

CONSTANTS
    Pod,            \* worker processes
    Reader,         \* their partition tasks
    PodOf,          \* the process a task runs in
    Publisher,      \* concurrent requests to publish a version
    LocalTTL,       \* RULE_LOCAL_CACHE_TTL_SECONDS
    RedisTTL,       \* RULE_REDIS_CACHE_TTL_SECONDS
    OpDelay,        \* longest flight of a value between two systems
    MaxVersion,     \* bound: versions ever published
    MaxTime         \* bound: length of a behaviour

ASSUME CacheAssumption ==
    /\ PodOf \in [Reader -> Pod]
    /\ LocalTTL \in Nat
    /\ RedisTTL \in Nat \ {0}
    /\ OpDelay \in Nat
    /\ MaxVersion \in Nat \ {0}
    /\ MaxTime \in Nat

VARIABLES
    now,
    \* PostgreSQL
    rows,           \* rule_set_versions: version and commit time
    edits,          \* rows changed outside the API: version and time
    \* Redis: the active entry; version 0 when it was never set
    redis,
    \* each pod's provider: _cached (0 for None) and _cached_at
    cached, cachedAt,
    \* each task's call of get_active: where it stands, the rule set it holds
    \* (0: the row was refused), and since when
    reader,
    \* each publishing request: where it stands, the version it writes, since when
    publisher,
    \* history: the versions whose publisher's Redis write succeeded
    announced

vars == <<now, rows, edits, redis, cached, cachedAt, reader, publisher, announced>>

None == 0
Unset == -1         \* expected_current_version is None
Version == 1..MaxVersion
Row == [version : Version, born : Nat]
Edit == [version : Version, at : Nat]
Entry == [version : {None} \cup Version, expires : Nat]
Call == [pc : {"idle", "redis", "database", "fill", "loaded"},
         got : {None} \cup Version, since : Nat]
Request == [pc : {"idle", "insert", "cache"},
            version : {None} \cup Version, since : Nat]

\* Every variable has the values the code can give it.
TypeOK ==
    /\ now \in Nat
    /\ rows \in SUBSET Row
    /\ edits \in SUBSET Edit
    /\ redis \in Entry
    /\ cached \in [Pod -> {None} \cup Version]
    /\ cachedAt \in [Pod -> Nat]
    /\ reader \in [Reader -> Call]
    /\ publisher \in [Publisher -> Request]
    /\ announced \in SUBSET Version

NoEntry == [version |-> None, expires |-> 0]
IdleCall == [pc |-> "idle", got |-> None, since |-> 0]
IdleRequest == [pc |-> "idle", version |-> None, since |-> 0]

\* The first migration seeds version 1 of the default key; another key starts empty.
Init ==
    /\ now = 0
    /\ rows \in {{}, {[version |-> 1, born |-> 0]}}
    /\ edits = {}
    /\ redis = NoEntry
    /\ cached = [p \in Pod |-> None]
    /\ cachedAt = [p \in Pod |-> 0]
    /\ reader = [r \in Reader |-> IdleCall]
    /\ publisher = [q \in Publisher |-> IdleRequest]
    /\ announced = {}

----------------------------------------------------------------------------
(* PostgreSQL *)

\* coalesce(max(version), 0) is c.
CurrentVersion(c) ==
    /\ \A row \in rows : row.version <= c
    /\ c = 0 \/ \E row \in rows : row.version = c

Exists(v) == \E row \in rows : row.version = v

\* load_stored_definition: the stored JSON still matches its hash.
Intact(v) == \A e \in edits : e.version /= v

\* Someone changes a stored definition with SQL.  Not an operation of the API.
EditRow(v) ==
    /\ Exists(v)
    /\ Intact(v)
    /\ edits' = edits \cup {[version |-> v, at |-> now]}
    /\ UNCHANGED <<now, rows, redis, cached, cachedAt, reader, publisher, announced>>

----------------------------------------------------------------------------
(* Redis *)

\* A plausible bug: the entry is overwritten without a new expiry.
write_rule_set_cache_persists(v) == redis' = [version |-> v, expires |-> MaxTime + 1]

\* SET key entry EX ttl
write_rule_set_cache(v) == redis' = [version |-> v, expires |-> now + RedisTTL]

----------------------------------------------------------------------------
(* RuleSetProvider.get_active, one call at a time per task *)

\* The in-process copy is returned without any I/O.
Fresh(p) == cached[p] /= None /\ now - cachedAt[p] < LocalTTL

Await(r, pc) == reader' = [reader EXCEPT ![r] = [IdleCall EXCEPT !.pc = pc]]
Hold(r, pc, got) ==
    reader' = [reader EXCEPT ![r] = [pc |-> pc, got |-> got, since |-> now]]

\* A call that cannot be answered from memory asks Redis.
Lookup(r) ==
    /\ reader[r].pc = "idle"
    /\ ~Fresh(PodOf[r])
    /\ Await(r, "redis")
    /\ UNCHANGED <<now, rows, edits, redis, cached, cachedAt, publisher, announced>>

\* _read_redis finds an entry.
ReadRedis(r) ==
    /\ reader[r].pc = "redis"
    /\ redis.version /= None
    /\ Hold(r, "loaded", redis.version)
    /\ UNCHANGED <<now, rows, edits, redis, cached, cachedAt, publisher, announced>>

\* No entry, Redis failed, or an entry this code cannot read: ask PostgreSQL.
FallThrough(r) ==
    /\ reader[r].pc = "redis"
    /\ Await(r, "database")
    /\ UNCHANGED <<now, rows, edits, redis, cached, cachedAt, publisher, announced>>

\* get_latest_rule_set reads the highest version and checks it.
ReadDatabase(r) ==
    /\ reader[r].pc = "database"
    /\ \E v \in Version :
          /\ CurrentVersion(v)
          /\ Hold(r, "fill", IF Intact(v) THEN v ELSE None)
    /\ UNCHANGED <<now, rows, edits, redis, cached, cachedAt, publisher, announced>>

\* CorruptRuleSetError: the pod forgets its copy and the caller retries.
Refuse(r) ==
    /\ reader[r].pc = "fill"
    /\ reader[r].got = None
    /\ cached' = [cached EXCEPT ![PodOf[r]] = None]
    /\ reader' = [reader EXCEPT ![r] = IdleCall]
    /\ UNCHANGED <<now, rows, edits, redis, cachedAt, publisher, announced>>

\* _write_redis: a failure is logged and the call goes on with what it read.  A SET that
\* outlives its timeout is the write of a task of the pod that is still at this step.
Fill(r) ==
    /\ reader[r].pc = "fill"
    /\ reader[r].got /= None
    /\ \/ write_rule_set_cache(reader[r].got)
       \/ UNCHANGED redis
    /\ Hold(r, "loaded", reader[r].got)
    /\ UNCHANGED <<now, rows, edits, cached, cachedAt, publisher, announced>>

\* The call resumes, remembers the rule set and returns it.
Activate(r) ==
    /\ reader[r].pc = "loaded"
    /\ cached' = [cached EXCEPT ![PodOf[r]] = reader[r].got]
    /\ cachedAt' = [cachedAt EXCEPT ![PodOf[r]] = now]
    /\ reader' = [reader EXCEPT ![r] = IdleCall]
    /\ UNCHANGED <<now, rows, edits, redis, publisher, announced>>

\* The database fails, has no such rule set, or the task is cancelled: get_active
\* raises and the copy in memory stays as it is.
Raise(r) ==
    /\ reader[r].pc /= "idle"
    /\ reader' = [reader EXCEPT ![r] = IdleCall]
    /\ UNCHANGED <<now, rows, edits, redis, cached, cachedAt, publisher, announced>>

\* The process dies and is started again.
RestartPod(p) ==
    /\ cached' = [cached EXCEPT ![p] = None]
    /\ cachedAt' = [cachedAt EXCEPT ![p] = 0]
    /\ reader' = [r \in Reader |-> IF PodOf[r] = p THEN IdleCall ELSE reader[r]]
    /\ UNCHANGED <<now, rows, edits, redis, publisher, announced>>

----------------------------------------------------------------------------
(* Publishing *)

\* A plausible bug: the new row takes the number it just read.
Begin_same(q) ==
    /\ publisher[q].pc = "idle"
    /\ \E current \in 0..(MaxVersion - 1) :
          /\ CurrentVersion(current)
          /\ publisher' = [publisher EXCEPT ![q] =
                [pc |-> "insert", version |-> current, since |-> 0]]
    /\ UNCHANGED <<now, rows, edits, redis, cached, cachedAt, reader, announced>>

\* The transaction reads the current version, which must be the one the caller
\* expects, if it named one (0: the key must not exist yet).
Begin(q) ==
    /\ publisher[q].pc = "idle"
    /\ \E current \in 0..(MaxVersion - 1), expected \in {Unset} \cup 0..MaxVersion :
          /\ CurrentVersion(current)
          /\ expected \in {Unset, current}
          /\ publisher' = [publisher EXCEPT ![q] =
                [pc |-> "insert", version |-> current + 1, since |-> 0]]
    /\ UNCHANGED <<now, rows, edits, redis, cached, cachedAt, reader, announced>>

Commit(q) ==
    /\ rows' = rows \cup {[version |-> publisher[q].version, born |-> now]}
    /\ publisher' = [publisher EXCEPT ![q].pc = "cache", ![q].since = now]

\* A plausible bug: no unique constraint on (rule_set_key, version).
Insert_unconstrained(q) ==
    /\ publisher[q].pc = "insert"
    /\ Commit(q)
    /\ UNCHANGED <<now, edits, redis, cached, cachedAt, reader, announced>>

\* The insert commits unless uq_rule_set_versions_key_version rejects it.
Insert(q) ==
    /\ publisher[q].pc = "insert"
    /\ \/ /\ ~Exists(publisher[q].version)
          /\ Commit(q)
       \/ /\ Exists(publisher[q].version)
          /\ publisher' = [publisher EXCEPT ![q] = IdleRequest]
          /\ UNCHANGED rows
    /\ UNCHANGED <<now, edits, redis, cached, cachedAt, reader, announced>>

\* create_version then overwrites the Redis entry.
Announce(q) ==
    /\ publisher[q].pc = "cache"
    /\ write_rule_set_cache(publisher[q].version)
    /\ announced' = announced \cup {publisher[q].version}
    /\ publisher' = [publisher EXCEPT ![q] = IdleRequest]
    /\ UNCHANGED <<now, rows, edits, cached, cachedAt, reader>>

\* The request ends early: a failed statement rolls back, a failed Redis write
\* is only logged, and a crash of the API does either.
EndRequest(q) ==
    /\ publisher[q].pc /= "idle"
    /\ publisher' = [publisher EXCEPT ![q] = IdleRequest]
    /\ UNCHANGED <<now, rows, edits, redis, cached, cachedAt, reader, announced>>

----------------------------------------------------------------------------
(* Time *)

\* Redis drops the entry when it expires.  No value stays longer than OpDelay in
\* flight: read (or committed) and not yet where it takes effect.
Tick ==
    /\ now < MaxTime
    /\ \A r \in Reader : reader[r].pc \in {"fill", "loaded"} => now - reader[r].since < OpDelay
    /\ \A q \in Publisher : publisher[q].pc = "cache" => now - publisher[q].since < OpDelay
    /\ now' = now + 1
    /\ redis' = IF now + 1 >= redis.expires THEN NoEntry ELSE redis
    /\ UNCHANGED <<rows, edits, cached, cachedAt, reader, publisher, announced>>

get_active(r) ==
    \/ Lookup(r) \/ ReadRedis(r) \/ FallThrough(r) \/ ReadDatabase(r)
    \/ Refuse(r) \/ Fill(r) \/ Activate(r) \/ Raise(r)

create_version(q) == Begin(q) \/ Insert(q) \/ Announce(q) \/ EndRequest(q)

Next ==
    \/ \E r \in Reader : get_active(r)
    \/ \E q \in Publisher : create_version(q)
    \/ \E p \in Pod : RestartPod(p)
    \/ \E v \in Version : EditRow(v)
    \/ Tick

Spec == Init /\ [][Next]_vars

----------------------------------------------------------------------------
(* Properties *)

\* What get_active can return to a task of pod p at this moment.
Usable(p) ==
    {v \in Version : \/ Fresh(p) /\ cached[p] = v
                     \/ \E r \in Reader : /\ PodOf[r] = p
                                          /\ reader[r].pc = "loaded"
                                          /\ reader[r].got = v}

\* Version v was the active one, and unedited, at time t or later.
ActiveSince(v, t) ==
    /\ \A row \in rows : row.version > v => row.born >= t
    /\ \A e \in edits : e.version = v => e.at >= t

\* A pod never scores with a version that was superseded, or edited in place,
\* longer ago than the two TTLs and two flights (a write-back and an answer):
\* whatever fails, whoever races, nothing prolongs a copy's life.
StalenessBound ==
    \A p \in Pod : \A v \in Usable(p) :
        ActiveSince(v, now - (LocalTTL + RedisTTL + 2 * OpDelay) + 1)

\* Concurrent publishers make one history: version numbers are unique and have no
\* gaps, and a higher version was never committed earlier than a lower one.
VersionHistory ==
    /\ \A r1, r2 \in rows : r1.version <= r2.version => r1.born <= r2.born
    /\ \A r1, r2 \in rows : r1.version = r2.version => r1 = r2
    /\ \A r1 \in rows : \A v \in 1..r1.version : Exists(v)

\* README: "Publishing overwrites the Redis entry, so workers switch within ~5 s",
\* the local TTL; only "if that Redis write fails" do they lag longer.  Stated for
\* every publication whose Redis write succeeded, with slack for the flights of
\* that write and of a reader's answer.
PromptSwitch ==
    \A p \in Pod : \A v \in Usable(p) : \A row \in rows :
        /\ row.version \in announced
        /\ now - row.born > LocalTTL + 2 * OpDelay
        => v >= row.version
=============================================================================
