------------------------------ MODULE TradePlans ------------------------------
(***************************************************************************)
(* What an analysis team answers a trading-room request with (team_plan.py *)
(* of agent_quant, agent_fundamental and agent_persona), what PlanV1 and    *)
(* AdviceV1 accept (packages/schema), and how agent_board/board/persist.py  *)
(* projects the chosen plan onto an advice for lake.advice.                *)
(*                                                                         *)
(* Prices are exact: an integer number of units.  A plan carries its three *)
(* prices in a unit of its own, fine enough for the factors of the code    *)
(* (0.999, 1.01, a mean of three) to stay integral; nothing compares the   *)
(* prices of two plans.  The rounding of floats is left out, and so are    *)
(* dates, evidence and texts.  (A persona's thesis may be longer than the  *)
(* 4000 characters of PlanV1, a filing's horizon longer than its year: in  *)
(* TradingRoom any team may fail whatever its plan.)                       *)
(***************************************************************************)
EXTENDS Integers, Sequences, FiniteSets

Directions == {"long", "short", "flat"}
Teams      == {"quant", "fundamental", "persona"}

Larger(a, b)  == IF a >= b THEN a ELSE b
Smaller(a, b) == IF a <= b THEN a ELSE b
Magnitude(a)  == IF a >= 0 THEN a ELSE -a

\* max(mark_price, 1e-6): a missing mark of 0 is priced at one unit.
Priced(mark) == Larger(mark, 1)

-----------------------------------------------------------------------------
(* The two schemas.                                                        *)

\* PlanV1: prices are not negative and ordered as the action wants them.
PlanValid(p) ==
    /\ p.entry >= 0 /\ p.target >= 0 /\ p.stop >= 0
    /\ p.action = "buy"  => p.target > p.entry /\ p.entry > p.stop
    /\ p.action = "sell" => p.stop > p.entry /\ p.entry > p.target

\* AdviceV1: the bands ascend and lie apart from each other and from the stop.
AdviceValid(a) ==
    /\ a.entryLo <= a.entryHi /\ a.targetLo <= a.targetHi
    /\ a.direction = "long"  => a.entryHi < a.targetLo /\ a.stop < a.entryLo
    /\ a.direction = "short" => a.targetHi < a.entryLo /\ a.stop > a.entryHi
    /\ a.direction = "flat"  =>
         a.entryLo = a.entryHi /\ a.entryHi = a.targetLo /\ a.targetLo = a.targetHi

-----------------------------------------------------------------------------
(* The teams.                                                              *)

\* The quant team's band in basis points, z being the net z-score in hundredths:
\* five per cent per unit of z, at least one and at most ten.
Band(z) == Smaller(1000, Larger(100, 5 * Magnitude(z)))

\* synthesize_quant_plan.
QuantPlan(mark, z) ==
    LET px     == Priced(mark)
        action == IF z > 50 THEN "buy" ELSE IF z < -50 THEN "sell" ELSE "hold"
        away   == CASE action = "buy"  -> Band(z)
                    [] action = "sell" -> -Band(z)
                    [] OTHER           -> 0
    IN  [team   |-> "quant", action |-> action,
         entry  |-> 10000 * px,
         target |-> (10000 + 2 * away) * px,
         stop   |-> (10000 - away) * px]

\* synthesize_fundamental_plan for the thesis with the most conviction: its
\* direction, its conviction and margin of safety in per cent, its fair value.
FundamentalPlan(mark, direction, conviction, fair, mos) ==
    LET px     == Priced(mark)
        margin == Larger(mos, 5)
        sure   == conviction >= 20
        action == CASE sure /\ direction = "long"  -> "buy"
                    [] sure /\ direction = "short" -> "sell"
                    [] OTHER                       -> "hold"
    IN  [team   |-> "fundamental", action |-> action,
         entry  |-> 100 * px,
         target |-> CASE action = "buy"  -> Larger(100 * Priced(fair), (100 + margin) * px)
                      [] action = "sell" -> Smaller(100 * Priced(fair), (100 - margin) * px)
                      [] OTHER           -> 100 * px,
         stop   |-> CASE action = "buy"  -> (100 - margin) * px
                      [] action = "sell" -> (100 + margin) * px
                      [] OTHER           -> 100 * px]

\* _majority_direction and its share of the panel: the direction more personas took
\* than any other, and only with more than half of them is it a signal.
Consensus(advices) ==
    LET votes(d) == Cardinality({i \in DOMAIN advices : advices[i].direction = d})
        won(d)   == 2 * votes(d) > Len(advices)
    IN  CASE won("long")  -> "buy"
          [] won("short") -> "sell"
          [] OTHER        -> "hold"

SumOf(f, n) == LET s[i \in 0..n] == IF i = 0 THEN 0 ELSE s[i-1] + f[i] IN s[n]

\* Twice the median of f[1..n].
TwiceMedian(f, n) ==
    LET rank(i) == Cardinality({j \in 1..n : f[j] < f[i] \/ (f[j] = f[i] /\ j < i)})
        nth(k)  == f[CHOOSE i \in 1..n : rank(i) = k]
    IN  nth((n - 1) \div 2) + nth(n \div 2)

\* A target or a stop on the wrong side of the entry is moved one per cent away.
Repaired(action, entry, target, stop) ==
    LET above == (entry \div 100) * 101
        below == (entry \div 100) * 99
    IN  CASE action = "buy"  -> <<IF target <= entry THEN above ELSE target,
                                  IF stop >= entry THEN below ELSE stop>>
          [] action = "sell" -> <<IF target >= entry THEN below ELSE target,
                                  IF stop <= entry THEN above ELSE stop>>
          [] OTHER           -> <<target, stop>>

\* synthesize_persona_plan: the median entry, the mean target, the highest stop.
\* The unit is 1/400n of the advices': mids are halves, means n-ths.
PersonaPlan(advices) ==
    LET n      == Len(advices)
        action == Consensus(advices)
        entry  == 100 * n * TwiceMedian([i \in 1..n |-> advices[i].entryLo + advices[i].entryHi], n)
        target == 200 * SumOf([i \in 1..n |-> advices[i].targetLo + advices[i].targetHi], n)
        stop   == 400 * n * (CHOOSE s \in {advices[i].stop : i \in 1..n} :
                                \A i \in 1..n : advices[i].stop <= s)
        fixed  == Repaired(action, entry, target, stop)
    IN  [team |-> "persona", action |-> action, entry |-> entry,
         target |-> fixed[1], stop |-> fixed[2]]

-----------------------------------------------------------------------------
(* The ledger's view.                                                      *)

\* board_decision_to_advice, in thousandths of the plan's unit: a band of 0.1 % on
\* both sides of the entry, and of 1 % on the near side of the target.
Projection(p) ==
    CASE p.action = "buy" ->
           [direction |-> "long", entryLo |-> 999 * p.entry, entryHi |-> 1001 * p.entry,
            targetLo |-> 990 * p.target, targetHi |-> 1000 * p.target, stop |-> 1000 * p.stop]
      [] p.action = "sell" ->
           [direction |-> "short", entryLo |-> 999 * p.entry, entryHi |-> 1001 * p.entry,
            targetLo |-> 1000 * p.target, targetHi |-> 1010 * p.target, stop |-> 1000 * p.stop]
      [] OTHER ->
           [direction |-> "flat", entryLo |-> 1000 * p.entry, entryHi |-> 1000 * p.entry,
            targetLo |-> 1000 * p.entry, targetHi |-> 1000 * p.entry, stop |-> 1000 * p.stop]

\* AdviceV1 accepts the projection: the decision for this plan can be a row.
Storable(p) == AdviceValid(Projection(p))
=============================================================================
