----------------------------- MODULE MCTradingRoom -----------------------------
(* Model-checking instance of TradingRoom: a few inputs of each team.        *)
EXTENDS TradingRoom

\* Without a mark and with one; net z-scores around the threshold of half a unit and
\* beyond the ceiling of the band.
MCQuantInputs == [mark : {0, 100}, z : {-300, -51, -50, 0, 50, 51, 300}]

\* Fair values on both sides of the mark, no margin, a wide one and one of more than the price.
MCTheses ==
    [mark : {0, 100}, direction : Directions, conviction : {19, 20, 90},
     fair : {50, 100, 200}, mos : {-10, 0, 30, 120}]

\* Valid advices around a price of 100, and panels of one to three of them.
Advice(direction, entry, target, stop) ==
    [direction |-> direction, entryLo |-> entry[1], entryHi |-> entry[2],
     targetLo |-> target[1], targetHi |-> target[2], stop |-> stop]
Advices ==
    {Advice("long", <<99, 100>>, <<120, 130>>, 90), Advice("long", <<99, 100>>, <<101, 101>>, 98),
     Advice("short", <<100, 101>>, <<70, 80>>, 110), Advice("short", <<100, 100>>, <<99, 99>>, 101),
     Advice("flat", <<60, 60>>, <<60, 60>>, 0), Advice("flat", <<130, 130>>, <<130, 130>>, 200)}
MCPanels == UNION {[1..n -> {a \in Advices : AdviceValid(a)}] : n \in 1..3}

MCConfidence == [t \in Teams |-> IF t = "quant" THEN 1 ELSE 2]
=============================================================================
