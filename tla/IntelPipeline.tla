--------------------------- MODULE IntelPipeline ---------------------------
(* The ingest loop of agent_intelligence (intel/pipeline.py, dedupe/,      *)
(* persistence.py): every run takes the stories of its feeds one by one    *)
(* through the hash gate, the semantic gate and the event store, and       *)
(* nothing serialises runs: the cron pulls, /run/synthesize and            *)
(* /health/deep all call pipeline.run() on the same Redis, pgvector index  *)
(* and Postgres table.  Each `await` between two of those stores is a      *)
(* point where another run moves or this one dies.                         *)
(*                                                                         *)
(* A story is a model value: its text, and so its neighbours in the        *)
(* embedding, are fixed.  Days stand for the times of the code.            *)
EXTENDS Integers

CONSTANTS
    Items,      \* the stories the feeds carry
    Undated,    \* RSS entries without a date: event_ts is the time of the crawl
    Unlinked,   \* foreign entries without a link: their row is hashed by title_en
    Similar,    \* pairs of stories whose cosine is above the threshold
    MaxRuns,    \* bound: runs of the pipeline
    Window,     \* SemanticGate's window, in days
    HashTTL,    \* HashGate's ttl, in days
    MaxDay      \* bound of the clock

Runs == 1 .. MaxRuns

\* A text is a duplicate of itself, and cosine is symmetric; it is not transitive.
ASSUME SimilarAssumption ==
    /\ Similar \subseteq Items \X Items
    /\ \A i \in Items : <<i, i>> \in Similar
    /\ \A p \in Similar : <<p[2], p[1]>> \in Similar
ASSUME BoundsAssumption ==
    /\ MaxRuns \in Nat /\ Window \in Nat /\ HashTTL \in Nat \ {0} /\ MaxDay \in Nat
    /\ Undated \subseteq Items /\ Unlinked \subseteq Items

VARIABLES
    day,        \* the clock
    pc,         \* pc[r]: idle, loop, search, index, store, done or failed
    left,       \* left[r]: stories of its feeds the run has not come to
    crawled,    \* crawled[r]: ingest_ts of the source it is reading
    hand,       \* hand[r]: the story between the hash gate and the store
    keys,       \* Redis dedupe:hash:*, with the day of the claim
    index,      \* lake.intel_embeds
    rows,       \* lake.events, with the run that was told its insert took
    dropped,    \* history: stories some run left out at one of the gates
    met         \* history: pairs of runs that were in flight together

vars == <<day, pc, left, crawled, hand, keys, index, rows, dropped, met>>

InFlight(r) == pc[r] \in {"loop", "search", "index", "store"}

\* hash_for: (source, url or title, event_ts), fresh for an undated entry.
Stamp(i, r) == IF i \in Undated THEN r ELSE 0
\* event_hash takes title_en for the title: a translation may come out anew.
RowStamps(i, r) == {Stamp(i, r)} \union (IF i \in Unlinked THEN {r} ELSE {})

\* Entries the search returns: since = ingest_ts - window, cosine > threshold.
\* Faulty variant: the window is one day short (ts > since).
Visible_Short(i, today) ==
    {e \in index : e.day > today - Window /\ <<i, e.item>> \in Similar}
Visible(i, today) ==
    {e \in index : e.day >= today - Window /\ <<i, e.item>> \in Similar}

TypeOK ==
    /\ day \in 0 .. MaxDay
    /\ pc \in [Runs -> {"idle", "loop", "search", "index", "store", "done", "failed"}]
    /\ left \in [Runs -> SUBSET Items]
    /\ crawled \in [Runs -> 0 .. MaxDay]
    /\ hand \in [Runs -> SUBSET Items]
    /\ keys \subseteq [item : Items, stamp : Runs \union {0}, day : 0 .. MaxDay]
    /\ index \subseteq [item : Items, day : 0 .. MaxDay]
    /\ rows \subseteq [item : Items, stamp : Runs \union {0}, run : Runs, day : 0 .. MaxDay]
    /\ dropped \subseteq Items
    /\ met \subseteq Runs \X Runs

Init ==
    /\ day = 0
    /\ pc = [r \in Runs |-> "idle"]
    /\ left = [r \in Runs |-> {}]
    /\ crawled = [r \in Runs |-> 0]
    /\ hand = [r \in Runs |-> {}]
    /\ keys = {} /\ index = {} /\ rows = {} /\ dropped = {} /\ met = {}

-----------------------------------------------------------------------------
(* run_synthesize, run_pull or health_deep enters pipeline.run(); runs are  *)
(* numbered as they start.  The crawlers skip a feed that is down and an    *)
(* entry that is malformed, so that any set of stories can come in.         *)
Start(r) ==
    /\ pc[r] = "idle"
    /\ \A q \in Runs : q < r => pc[q] # "idle"
    /\ pc' = [pc EXCEPT ![r] = "loop"]
    /\ crawled' = [crawled EXCEPT ![r] = day]
    /\ \E feed \in SUBSET Items : left' = [left EXCEPT ![r] = feed]
    /\ met' = met \union UNION {{<<r, q>>, <<q, r>>} : q \in {p \in Runs : InFlight(p)}}
    /\ UNCHANGED <<day, hand, keys, index, rows, dropped>>

\* The loop comes to the next source: its entries carry the time of this fetch.
NextSource(r) ==
    /\ pc[r] = "loop" /\ left[r] # {} /\ crawled[r] # day
    /\ crawled' = [crawled EXCEPT ![r] = day]
    /\ UNCHANGED <<day, pc, left, hand, keys, index, rows, dropped, met>>

\* hash_gate.accept: one atomic SET NX EX; a key already there drops the story.
Claim(r, i) ==
    /\ pc[r] = "loop" /\ i \in left[r]
    /\ left' = [left EXCEPT ![r] = @ \ {i}]
    /\ \/ /\ \E k \in keys : k.item = i /\ k.stamp = Stamp(i, r)
          /\ dropped' = dropped \union {i}
          /\ UNCHANGED <<pc, hand, keys>>
       \/ /\ ~ \E k \in keys : k.item = i /\ k.stamp = Stamp(i, r)
          /\ keys' = keys \union {[item |-> i, stamp |-> Stamp(i, r), day |-> day]}
          /\ hand' = [hand EXCEPT ![r] = {i}]
          /\ pc' = [pc EXCEPT ![r] = "search"]
          /\ UNCHANGED dropped
    /\ UNCHANGED <<day, crawled, index, rows, met>>

\* semantic_gate.accept up to its verdict: embed, search, drop or go on.
\* Faulty variant: the entry is written before the verdict, so that a story
\* that is dropped drops its own neighbours in turn.
Search_IndexesFirst(r) ==
    /\ pc[r] = "search"
    /\ \E i \in hand[r] :
         \/ /\ Visible(i, crawled[r]) # {}
            /\ dropped' = dropped \union {i}
            /\ index' = index \union {[item |-> i, day |-> crawled[r]]}
            /\ hand' = [hand EXCEPT ![r] = {}]
            /\ pc' = [pc EXCEPT ![r] = "loop"]
         \/ /\ Visible(i, crawled[r]) = {}
            /\ pc' = [pc EXCEPT ![r] = "index"]
            /\ UNCHANGED <<dropped, hand, index>>
    /\ UNCHANGED <<day, left, crawled, keys, rows, met>>
Search(r) ==
    /\ pc[r] = "search"
    /\ \E i \in hand[r] :
         \/ /\ Visible(i, crawled[r]) # {}
            /\ dropped' = dropped \union {i}
            /\ hand' = [hand EXCEPT ![r] = {}]
            /\ pc' = [pc EXCEPT ![r] = "loop"]
         \/ /\ Visible(i, crawled[r]) = {}
            /\ pc' = [pc EXCEPT ![r] = "index"]
            /\ UNCHANGED <<dropped, hand>>
    /\ UNCHANGED <<day, left, crawled, keys, index, rows, met>>

\* semantic_gate.accept, second statement of its own: the entry of the story.
IndexInsert(r) ==
    /\ pc[r] = "index"
    /\ index' = index \union {[item |-> i, day |-> crawled[r]] : i \in hand[r]}
    /\ pc' = [pc EXCEPT ![r] = "store"]
    /\ UNCHANGED <<day, left, crawled, hand, keys, rows, dropped, met>>

\* Translation and sentiment come back, then INSERT ... ON CONFLICT (hash) DO NOTHING.
Store(r) ==
    /\ pc[r] = "store"
    /\ \E i \in hand[r] : \E s \in RowStamps(i, r) :
         rows' = IF \E w \in rows : w.item = i /\ w.stamp = s
                 THEN rows
                 ELSE rows \union {[item |-> i, stamp |-> s, run |-> r, day |-> crawled[r]]}
    /\ hand' = [hand EXCEPT ![r] = {}]
    /\ pc' = [pc EXCEPT ![r] = "loop"]
    /\ UNCHANGED <<day, left, crawled, keys, index, dropped, met>>

\* The feeds are read: macro releases, digest and brief are composed and returned.
\* A run that is over has no locals: crawled and left are cleared here and in Fail.
Finish(r) ==
    /\ pc[r] = "loop" /\ left[r] = {}
    /\ pc' = [pc EXCEPT ![r] = "done"]
    /\ crawled' = [crawled EXCEPT ![r] = 0]
    /\ UNCHANGED <<day, left, hand, keys, index, rows, dropped, met>>

\* Any await raises (Redis, the embedding, Postgres, an LLM call, GDELT's file
\* list) or the process dies.  Nothing is undone: the key stays claimed.
Fail(r) ==
    /\ InFlight(r)
    /\ pc' = [pc EXCEPT ![r] = "failed"]
    /\ left' = [left EXCEPT ![r] = {}]
    /\ crawled' = [crawled EXCEPT ![r] = 0]
    /\ UNCHANGED <<day, hand, keys, index, rows, dropped, met>>

\* A day passes and Redis drops the keys whose ttl is over.
Tick ==
    /\ day < MaxDay
    /\ day' = day + 1
    /\ keys' = {k \in keys : k.day + HashTTL > day'}
    /\ UNCHANGED <<pc, left, crawled, hand, index, rows, dropped, met>>

Next ==
    \/ Tick
    \/ \E r \in Runs :
         \/ Start(r) \/ NextSource(r) \/ Search(r) \/ IndexInsert(r)
         \/ Store(r) \/ Finish(r) \/ Fail(r)
         \/ \E i \in Items : Claim(r, i)

Spec == Init /\ [][Next]_vars

-----------------------------------------------------------------------------
\* A story is kept when it has a row, or a run has its entry in the index and
\* is about to store it or died before it could.
Kept(i) ==
    \/ \E w \in rows : w.item = i
    \/ \E r \in Runs : i \in hand[r] /\ pc[r] \in {"store", "failed"}
\* It is held when it is kept or still on its way through the semantic gate.
Held(i) == Kept(i) \/ \E r \in Runs : i \in hand[r] /\ pc[r] \in {"search", "index"}

(* A story that a gate drops is not lost to the reader: it, or a direct     *)
(* neighbour of it, has a row, is in the hands of a run, or went down with  *)
(* a run that failed.  Similarity is not transitive, so this is the reason  *)
(* SemanticGate.accept must not index what it drops.                        *)
DropsAreCovered ==
    \A i \in dropped : Held(i) \/ \E j \in Items : <<i, j>> \in Similar /\ Kept(j)

(* Search and insert are two statements: two similar stories whose entries  *)
(* lie within one window of each other both get rows only when their runs   *)
(* were in flight together; never within one run, never in runs that        *)
(* follow each other, whatever failed in between.                           *)
SiblingsNeedRace ==
    \A v, w \in rows :
        (/\ v # w /\ <<v.item, w.item>> \in Similar
         /\ v.day - w.day \in -Window .. Window)
            => v.run # w.run /\ <<v.run, w.run>> \in met
=============================================================================
