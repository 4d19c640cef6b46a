------------------------------ MODULE QuantBook ------------------------------
(* agent_quant's selection: quant/signal.py ranks tickers by their combined *)
(* score and takes n from either end, quant/risk.py goes through what was   *)
(* taken, strongest first, and accepts what fits the caps.  One run, one    *)
(* candidate of shape()'s loop per step.                                    *)
(* Scores are the whole numbers the ranking compares: how they come from    *)
(* z-scores and regime weights is left out.  Weights are percents of NAV.   *)
EXTENDS Integers, Sequences, FiniteSets, FiniteSetsExt

CONSTANTS
    Universe,     \* tickers, in the order the rows bring them
    Scores,       \* scores a ticker can have
    Meta,         \* tickers with candidates_meta
    Weights,      \* Weights[t]: the volatility target's weight, 0 for a volatility of 0
    Sectors,      \* Sectors[t]
    Illiquid,     \* tickers whose dollar volume is known and too small
    Correlated,   \* pairs above the correlation cap, either way round
    PerSide,      \* n_per_side
    PositionMax, SectorCap, RegionCap  \* one region: its cap is that of the book

ASSUME QuantAssumption ==
    /\ PerSide \in Nat \ {0} /\ Scores \subseteq Int
    /\ Weights \in [DOMAIN Weights -> Nat] /\ Universe \in Seq(DOMAIN Weights)
    /\ \A i, j \in DOMAIN Universe : Universe[i] = Universe[j] => i = j
    /\ PositionMax \in Nat /\ SectorCap \in Int /\ RegionCap \in Int

VARIABLES
    scored,      \* the tickers that have a score
    score,
    candidates,  \* what combine() returned and shape() has not come to
    trades,      \* accepted
    rejected,    \* turned down
    shaping

quantVars == <<scored, score, candidates, trades, rejected, shaping>>

\* The ranking: falling by score, and stable, as Python's sorts are.
Place(t) == CHOOSE i \in DOMAIN Universe : Universe[i] = t
Outranks(t, u) == score[t] > score[u] \/ (score[t] = score[u] /\ Place(t) < Place(u))

\* ranked[:n] and ranked[-n:]: fewer than n are ahead, and fewer than n behind.
Longs  == {t \in scored : Cardinality({u \in scored : Outranks(u, t)}) < PerSide}
Shorts == {t \in scored : Cardinality({u \in scored : Outranks(t, u)}) < PerSide}

\* combine(): the two ends of the ranking, without those nobody described.
Combine ==
    [ticker : Longs \intersect Meta, direction : {"long"}]
        \union [ticker : Shorts \intersect Meta, direction : {"short"}]

\* Faulty variant: the sort key of shape() without abs().
Strength_Signed(c) == score[c.ticker]
Strength(c) == IF score[c.ticker] < 0 THEN -score[c.ticker] ELSE score[c.ticker]

\* The sort at the head of shape(), of the longs and then the shorts as they are ranked.
ComesFirst(c, d) ==
    \/ Strength(c) > Strength(d)
    \/ /\ Strength(c) = Strength(d)
       /\ \/ c.direction = "long" /\ d.direction = "short"
          \/ c.direction = d.direction /\ Outranks(c.ticker, d.ticker)

QuantInit ==
    /\ scored = {} /\ score = <<>>
    /\ candidates = {} /\ trades = {} /\ rejected = {}
    /\ shaping = FALSE

\* The rows of a day, of some of the universe.
ScoresArrive ==
    /\ scored = {}
    /\ scored' \in {{Universe[i] : i \in 1..n} : n \in 1..Len(Universe)}
    /\ score' \in [scored' -> Scores]
    /\ UNCHANGED <<candidates, trades, rejected, shaping>>

StartShaping ==
    /\ scored # {} /\ ~shaping
    /\ shaping' = TRUE
    /\ candidates' = Combine
    /\ UNCHANGED <<scored, score, trades, rejected>>

Weight(t) == IF Weights[t] > PositionMax THEN PositionMax ELSE Weights[t]
WeightOf(taken) == FoldSet(LAMBDA c, n : Weight(c.ticker) + n, 0, taken)
InSector(t) == {p \in trades : Sectors[p.ticker] = Sectors[t]}

\* A ticker is not correlated with itself.
CorrelatedTrades(t) ==
    {p \in trades : {<<t, p.ticker>>, <<p.ticker, t>>} \intersect Correlated # {}}

\* The conditions of the loop.
Fits(c) ==
    LET t == c.ticker
    IN  /\ Weights[t] > 0 /\ t \notin Illiquid
        /\ CorrelatedTrades(t) = {}
        /\ WeightOf(InSector(t)) + Weight(t) <= SectorCap
        /\ WeightOf(trades) + Weight(t) <= RegionCap

ShapeOne ==
    /\ shaping
    /\ \E c \in candidates :
          /\ \A d \in candidates \ {c} : ComesFirst(c, d)
          /\ candidates' = candidates \ {c}
          /\ IF Fits(c)
             THEN trades' = trades \union {c} /\ UNCHANGED rejected
             ELSE rejected' = rejected \union {c} /\ UNCHANGED trades
    /\ UNCHANGED <<scored, score, shaping>>

QuantNext == ScoresArrive \/ StartShaping \/ ShapeOne

QuantSpec == QuantInit /\ [][QuantNext]_quantVars

-----------------------------------------------------------------------------
Traded(d) == {c.ticker : c \in {x \in trades : x.direction = d}}

\* The book follows the ranking.  It holds a ticker both ways, or long one that scores below
\* a short one, only if fewer than 2n were ranked: the two ends of the ranking then overlap
\* (signal.py:133-134), and nothing in shape() looks for it, since a ticker has no
\* correlation with itself.  And no trade takes the room of a stronger one (risk.py:45-60):
\* what was turned down although stronger and no larger than an accepted trade of its
\* sector was turned down for itself or for a correlation.
BookFollowsRanking ==
    /\ Cardinality(scored) >= 2 * PerSide =>
          \A t \in Traded("long"), u \in Traded("short") : t # u /\ score[t] >= score[u]
    /\ \A a \in trades, c \in rejected :
          LET t == a.ticker  u == c.ticker
          IN  \/ score[t] * score[t] >= score[u] * score[u]
              \/ Weight(t) < Weight(u) \/ Sectors[t] # Sectors[u]
              \/ Weights[u] = 0 \/ u \in Illiquid \/ CorrelatedTrades(u) # {}
=============================================================================
