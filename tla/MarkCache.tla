------------------------------ MODULE MarkCache ------------------------------
(***************************************************************************)
(* get_mark of packages/data-lake/data_lake/quotes.py: the latest price of  *)
(* an asset, from the cache of the process, from Redis, or from the bars of *)
(* lake.timeseries.  The callers are coroutines of several processes; they  *)
(* interleave at every await.  A bar stands for its time stamp (its price   *)
(* is positive), 0 for the price 0.0 of an asset without a known bar and of *)
(* a database that does not answer.                                         *)
(*                                                                          *)
(* Left out: the prices of IIC_QUOTES_FAKE_PRICE, time zones, and the       *)
(* recomputed stale_seconds, which follows from the bar and the query time. *)
(***************************************************************************)
EXTENDS Integers, FiniteSets, FiniteSetsExt

CONSTANTS
    Readers,    \* calls of get_mark, each with its answer
    Processes,
    Home,       \* the process a reader runs in
    Assets,
    Listed,     \* the assets that have bars at all
    Ttl,        \* CACHE_TTL_S, 30 s in the code
    MaxTime     \* bound: the clock, and so the bars

ASSUME MarkAssumption ==
    /\ Home \in [Readers -> Processes]
    /\ Listed \subseteq Assets
    /\ Ttl \in Nat \ {0} /\ MaxTime \in Nat

VARIABLES
    time,
    bars,       \* the bars stored so far; one is known from its own time stamp on
    mem,        \* _MEM_CACHE of each process
    redis,      \* what Redis holds
    reader,     \* where each call of get_mark is, what it asks and what it has
    stall       \* history: time that passed while some mark was read and not yet shared

markVars == <<time, bars, mem, redis, reader, stall>>

CacheSources == {"mem-cache", "redis-cache"}

\* A Mark, with the query time it was fetched for and whether the database failed.
NoMark == [bar |-> 0, source |-> "none", asked |-> 0, outage |-> FALSE]
Empty  == [mark |-> NoMark, put |-> -Ttl]

IdleReader == [at |-> "idle", asset |-> CHOOSE a \in Assets : TRUE, asof |-> 0, mark |-> NoMark]

MarkInit ==
    /\ time = 0 /\ bars = {} /\ stall = 0
    /\ mem = [p \in Processes |-> [a \in Assets |-> Empty]]
    /\ redis = [a \in Assets |-> Empty]
    /\ reader = [r \in Readers |-> IdleReader]

Fresh(entry) == time - entry.put < Ttl

\* The key of both caches: the asset, and not the query time.
CacheKey(a) == a

Answer(r, mark, source) ==
    reader' = [reader EXCEPT ![r].at = "done", ![r].mark = [mark EXCEPT !.source = source]]

-----------------------------------------------------------------------------
(* get_mark, step by step.                                                 *)

\* A call begins.  The process has a mark of less than Ttl: whatever query time it was
\* fetched for.
AskMem(r, a, asof) ==
    LET entry == mem[Home[r]][CacheKey(a)]
    IN  /\ reader[r].at = "idle"
        /\ reader' =
             [reader EXCEPT ![r] =
                IF Fresh(entry)
                THEN [at |-> "done", asset |-> a, asof |-> asof,
                      mark |-> [entry.mark EXCEPT !.source = "mem-cache"]]
                ELSE [at |-> "redis", asset |-> a, asof |-> asof,
                      mark |-> NoMark]]
        /\ UNCHANGED <<time, bars, mem, redis, stall>>

\* Redis has a mark; the cache of the process is not told.
HitRedis(r) ==
    LET key == CacheKey(reader[r].asset)
    IN  /\ reader[r].at = "redis" /\ Fresh(redis[key])
        /\ Answer(r, redis[key].mark, "redis-cache")
        /\ UNCHANGED <<time, bars, mem, redis, stall>>

\* Redis has none, or does not answer.
MissRedis(r) ==
    /\ reader[r].at = "redis"
    /\ reader' = [reader EXCEPT ![r].at = "fetch"]
    /\ UNCHANGED <<time, bars, mem, redis, stall>>

\* Faulty variant: the latest bar, whatever the query time.
KnownBars_Latest(a, asof) == IF a \in Listed THEN bars ELSE {}

\* The bars a query of an asset sees: ts <= asof and as_of <= asof.
KnownBars(a, asof) == IF a \in Listed THEN {b \in bars : b <= asof} ELSE {}

Fetched(r, mark) ==
    /\ reader[r].at = "fetch"
    /\ reader' = [reader EXCEPT ![r].at = "store", ![r].mark = mark]
    /\ UNCHANGED <<time, bars, mem, redis, stall>>

\* The last close at or before the query time, or the mark of no bar.
QueryLatest(r) ==
    LET known == KnownBars(reader[r].asset, reader[r].asof)
    IN  Fetched(r, [bar    |-> IF known = {} THEN 0 ELSE Max(known),
                    source |-> IF known = {} THEN "no-bar" ELSE "timescale",
                    asked  |-> reader[r].asof, outage |-> FALSE])

\* The query raises: a mark of price 0 that says so.
Unavailable(r) ==
    Fetched(r, [bar |-> 0, source |-> "unavailable", asked |-> reader[r].asof, outage |-> TRUE])

\* The mark, whatever it is, goes into the cache of the process, ...
StoreMem(r) ==
    /\ reader[r].at = "store"
    /\ mem' = [mem EXCEPT ![Home[r]][CacheKey(reader[r].asset)] = [mark |-> reader[r].mark, put |-> time]]
    /\ reader' = [reader EXCEPT ![r].at = "share"]
    /\ UNCHANGED <<time, bars, redis, stall>>

\* ... and into Redis, unless Redis fails; then get_mark returns it.
Share(r) ==
    /\ reader[r].at = "share"
    /\ \/ redis' = [redis EXCEPT ![CacheKey(reader[r].asset)] = [mark |-> reader[r].mark, put |-> time]]
       \/ UNCHANGED redis
    /\ Answer(r, reader[r].mark, reader[r].mark.source)
    /\ UNCHANGED <<time, bars, mem, stall>>

GetMark(r) ==
    HitRedis(r) \/ MissRedis(r) \/ QueryLatest(r) \/ Unavailable(r) \/ StoreMem(r) \/ Share(r)

Answered == {r \in Readers : reader[r].at = "done"}

\* The caller has used its answer.
Used(r) == reader[r].at = "done" /\ reader' = [reader EXCEPT ![r] = IdleReader]

-----------------------------------------------------------------------------
(* The world.                                                              *)

BarArrives ==
    /\ time > 0 /\ time \notin bars
    /\ bars' = bars \cup {time}
    /\ UNCHANGED <<time, mem, redis, reader, stall>>

\* An entry that has expired is none.
Kept(entry) == IF time + 1 - entry.put < Ttl THEN entry ELSE Empty

\* Nothing is awaited between the answer and its use, so no time passes.
TimePasses ==
    /\ time < MaxTime
    /\ Answered = {}
    /\ time' = time + 1
    /\ mem' = [p \in Processes |-> [a \in Assets |-> Kept(mem[p][a])]]
    /\ redis' = [a \in Assets |-> Kept(redis[a])]
    /\ stall' = IF \E r \in Readers : reader[r].at \in {"store", "share"} THEN stall + 1 ELSE stall
    /\ UNCHANGED <<bars, reader>>

-----------------------------------------------------------------------------
(* Properties.                                                             *)

(* A mark is wrong for its query time only with a cause.  A price from after *)
(* the query time comes out of a cache: the fetcher keeps to the point-in-time *)
(* rule, and only the caches, whose key has no query time, can break it       *)
(* (quotes.py:80, :161-167).  And both caches together hide a bar for no      *)
(* longer than one of them: an answer that misses a bar older than Ttl goes   *)
(* back to a failed query, to a query as of an earlier time, or to a mark     *)
(* whose sharing took that long.                                             *)
WrongMarkHasCause ==
    \A r \in Answered :
        /\ reader[r].mark.bar > reader[r].asof => reader[r].mark.source \in CacheSources
        /\ \A b \in KnownBars(reader[r].asset, reader[r].asof) :
               b <= time - Ttl - stall =>
                   \/ reader[r].mark.bar >= b
                   \/ reader[r].mark.outage
                   \/ reader[r].mark.asked < b
=============================================================================
