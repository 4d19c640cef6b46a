------------------------------ MODULE LakeQuotes ------------------------------
(***************************************************************************)
(* lake.quotes: FUTU snapshots, crypto tickers and FX rates are written to   *)
(* it (apps/agent_futu/futu/quote_writer.py, apps/agent_market/agent_market/ *)
(* crypto.py, fx.py) and read back through the facade that falls back to a   *)
(* live snapshot (quotes_facade.py).  One ticker.                            *)
(*                                                                          *)
(* A price stands for the time at which it was the price, 0 for the price    *)
(* 0.0 that both writers put in for one that is missing.  A tick is stamped  *)
(* when it is fetched and inserted later: an await apart for a snapshot, the *)
(* other pairs and exchanges apart for a pull.                               *)
(***************************************************************************)
EXTENDS Integers

CONSTANTS
    QuoteWriters,  \* the writers of the ticker
    MaxLag,        \* how far its source may be behind: FRED's rates are of earlier days
    Queries,       \* consecutive snapshots of one reader: 1..n
    MaxAge,        \* max_age_s of the lake facade
    LastTick       \* bound: the clock

ASSUME QuotesAssumption ==
    /\ MaxLag \in Nat /\ MaxAge \in Nat /\ LastTick \in Nat
    /\ Queries \subseteq Nat \ {0}

VARIABLES
    tick,        \* the clock
    sourced,     \* the price that the source of the ticker has
    rows,        \* lake.quotes: a price under each time stamp
    pulling,     \* the tick each writer has fetched and not yet inserted, or NoTick
    query,       \* where each snapshot is, when it was answered, by whom, and with what
    current      \* the snapshot that is being taken

quotesVars == <<tick, sourced, rows, pulling, query, current>>

NoTick    == [ts |-> 0, of |-> 0]
Unasked   == [at |-> "lake", answered |-> 0, from |-> "none", of |-> 0]

QuotesInit ==
    /\ tick = 1 /\ sourced = 1 /\ rows = {} /\ current = 1
    /\ pulling = [w \in QuoteWriters |-> NoTick]
    /\ query = [q \in Queries |-> Unasked]

-----------------------------------------------------------------------------
(* The writers.                                                            *)

\* A price arrives, or a row without one.  A snapshot that is refused and a ticker that
\* fails leave nothing to insert.
Fetches(w) ==
    /\ pulling[w] = NoTick
    /\ \E of \in {0, sourced} :
         pulling' = [pulling EXCEPT ![w] = [ts |-> tick, of |-> of]]
    /\ UNCHANGED <<tick, sourced, rows, query, current>>

\* Faulty variant: the row is stamped when it is inserted.
RowOf_Now(pulled) == [ts |-> tick, of |-> pulled.of]

RowOf(pulled) == pulled

\* INSERT ... ON CONFLICT (ticker, ts) DO NOTHING; or the insert raises.
Inserts(w) ==
    /\ pulling[w] # NoTick
    /\ \/ /\ \A row \in rows : row.ts # RowOf(pulling[w]).ts
          /\ rows' = rows \cup {RowOf(pulling[w])}
       \/ UNCHANGED rows
    /\ pulling' = [pulling EXCEPT ![w] = NoTick]
    /\ UNCHANGED <<tick, sourced, query, current>>

-----------------------------------------------------------------------------
(* The facade.                                                             *)

\* The rows that LakeQuotesFacade looks at.
Recent == {row \in rows : row.ts >= tick - MaxAge}

Tell(q, from, of) ==
    /\ query' = [query EXCEPT ![q] = [at |-> "done", answered |-> tick, from |-> from,
                                      of |-> of]]
    /\ current' = current + 1

\* The newest row of the lake answers ...
HitLake(q) ==
    /\ q = current /\ query[q].at = "lake" /\ Recent # {}
    /\ LET row == CHOOSE row \in Recent : \A other \in Recent : other.ts <= row.ts
       IN  Tell(q, "lake", row.of)
    /\ UNCHANGED <<tick, sourced, rows, pulling>>

\* ... or there is none, and the live snapshot is asked for in its turn: its price is of
\* now, or there is no answer.
MissLake(q) ==
    /\ q = current /\ query[q].at = "lake" /\ Recent = {}
    /\ query' = [query EXCEPT ![q].at = "live"]
    /\ UNCHANGED <<tick, sourced, rows, pulling, current>>

AskLive(q) ==
    /\ query[q].at = "live"
    /\ Tell(q, "live", tick) \/ Tell(q, "nowhere", 0)
    /\ UNCHANGED <<tick, sourced, rows, pulling>>

\* The source follows, by as much as it may be behind.
QuoteTimePasses ==
    /\ tick < LastTick
    /\ tick' = tick + 1
    /\ \E newer \in sourced .. tick + 1 : tick + 1 - newer <= MaxLag /\ sourced' = newer
    /\ UNCHANGED <<rows, pulling, query, current>>

QuotesNext ==
    \/ \E w \in QuoteWriters : Fetches(w) \/ Inserts(w)
    \/ \E q \in Queries : HitLake(q) \/ MissLake(q) \/ AskLive(q)
    \/ QuoteTimePasses

QuotesSpec == QuotesInit /\ [][QuotesNext]_quotesVars

-----------------------------------------------------------------------------
(* Properties.                                                             *)

WithPrice == {q \in Queries : query[q].at = "done" /\ query[q].of > 0}

(* What a reader is told keeps to the time.  An answer is a price of at most   *)
(* MaxAge before it, and of what its source is behind, however late it was     *)
(* inserted: the stamp is that of the fetch.  Only the lake has prices of zero *)
(* (quote_writer.py:120, quotes_facade.py:38-40).  And the prices never go     *)
(* back in time, unless a live one was followed by a row that was on its way   *)
(* meanwhile: the facade puts no live price into the lake                      *)
(* (quotes_facade.py:93-99).                                                   *)
AnswersFollowTime ==
    /\ \A q \in Queries : query[q].at = "done" =>
          /\ query[q].of > 0 => query[q].of >= query[q].answered - MaxAge - MaxLag
          /\ query[q].of = 0 => query[q].from \in {"lake", "nowhere"}
    /\ \A p, q \in WithPrice : p < q /\ query[q].of < query[p].of =>
          query[p].from = "live" /\ query[q].from = "lake"
=============================================================================
