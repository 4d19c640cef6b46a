------------------------------ MODULE PaperBook ------------------------------
(***************************************************************************)
(* The paper positions of agent_backtest (apps/agent_backtest/backtest):    *)
(* an advice opens one (opener.py), a mark-to-market tick closes those that *)
(* have reached their target, their stop or their expiry (mtm/scheduler.py, *)
(* exits.py) and hands each to on_close, which publishes the fill           *)
(* (publish.py).  Ticks overlap: they interleave at every await.  The book   *)
(* is in memory and is lost with its process.                               *)
(*                                                                          *)
(* Prices are integers.  A fill price has the slippage of slippage.py, in    *)
(* hundredths of a per cent, and the middle of the entry band: both are      *)
(* exact in units of 1/20000, the unit of every result.  All advices are of  *)
(* one ticker.  on_close is the callers': it awaits, and it may raise.       *)
(***************************************************************************)
EXTENDS TradePlans

CONSTANTS
    Ids,          \* the advices
    Terms,        \* of each: an AdviceV1, with slippage (basis points) and expires;
                  \* no entry is below 0
    Ticks,        \* mark-to-market ticks
    PaperPrices,  \* the prices marks take
    MaxDay        \* bound: the clock

ASSUME PaperAssumption ==
    /\ \A a \in Ids :
         /\ AdviceValid(Terms[a]) /\ Terms[a].direction \in Directions
         /\ Terms[a].entryLo \in Nat /\ Terms[a].entryHi \in Nat /\ Terms[a].stop \in Int
         /\ Terms[a].slippage \in Nat /\ Terms[a].slippage <= 10000
    /\ PaperPrices \subseteq Nat \ {0} /\ MaxDay \in Nat

VARIABLES
    day,         \* the clock
    book,        \* the position of each advice, or NoPosition
    order,       \* the advices in the order of the book
    ticker,      \* where each tick is
    fills,       \* how often each advice's fill was published
    unpublished, \* history: closings whose on_close raised
    died         \* history: the process has been restarted

paperVars == <<day, book, order, ticker, fills, unpublished, died>>

NoPosition == [state |-> "none", opened |-> 0, closed |-> 0, reason |-> "none", exit |-> 0]
IdleTick == [at |-> "idle", asof |-> 0, px |-> 0, todo |-> <<>>]

PaperInit ==
    /\ day = 0 /\ died = FALSE
    /\ book = [a \in Ids |-> NoPosition] /\ order = <<>>
    /\ ticker = [t \in Ticks |-> IdleTick]
    /\ fills = [a \in Ids |-> 0] /\ unpublished = {}

-----------------------------------------------------------------------------
(* Prices and results.                                                     *)

\* slippage_bps: 5 or 15 by venue, 5 for a large size, and 1 at the default volatility.
SlippageBps(liquid, large) == (IF liquid THEN 5 ELSE 15) + (IF large THEN 5 ELSE 0) + 1

\* fill_price: the middle of the entry band, worse by the slippage.
FillPrice(terms) ==
    LET sign == IF terms.direction = "long" THEN 1 ELSE -1
    IN  (terms.entryLo + terms.entryHi) * (10000 + sign * terms.slippage)

\* The edge of the band that a mark has crossed, which is where the position is taken out.
Crossed(terms, px) ==
    LET long == terms.direction = "long"
    IN  IF IF long THEN px >= terms.targetLo ELSE px <= terms.targetHi THEN "target"
        ELSE IF IF long THEN px <= terms.stop ELSE px >= terms.stop THEN "stop"
        ELSE "none"

EdgePrice(terms, reason) ==
    IF reason = "stop" THEN terms.stop
    ELSE IF terms.direction = "long" THEN terms.targetLo ELSE terms.targetHi

\* Faulty variant: the state of the position does not matter.
CheckExit_Reopened(position, terms, px, asof) ==
    LET reason == Crossed(terms, px)
    IN  IF reason # "none" THEN [reason |-> reason, exit |-> EdgePrice(terms, reason)]
        ELSE [reason |-> IF asof >= terms.expires THEN "expiry" ELSE "none", exit |-> px]

\* check_exit: only an open position exits; at the edge of a band before the expiry.
CheckExit(position, terms, px, asof) ==
    LET reason == Crossed(terms, px)
    IN  IF position.state # "open" THEN [reason |-> "none", exit |-> position.exit]
        ELSE IF reason # "none" THEN [reason |-> reason, exit |-> EdgePrice(terms, reason)]
        ELSE [reason |-> IF asof >= terms.expires THEN "expiry" ELSE "none", exit |-> px]

\* realize_pnl: the result and the risk it is measured by.
Pnl(terms, exit) ==
    LET sign == IF terms.direction = "long" THEN 1 ELSE -1
    IN  sign * (20000 * exit - FillPrice(terms))
RiskUnit(terms) ==
    LET risk == Magnitude(FillPrice(terms) - 20000 * terms.stop)
    IN  IF risk = 0 THEN 20000 ELSE risk

\* is_significant of secretary/outbound/significant_fill.py: a gain of one and a half
\* units of risk, or a stop at four fifths of one.
Significant(terms, position) ==
    LET pnl == Pnl(terms, position.exit)
    IN  \/ 2 * pnl >= 3 * RiskUnit(terms)
        \/ position.reason = "stop" /\ 5 * Magnitude(pnl) >= 4 * RiskUnit(terms)

-----------------------------------------------------------------------------
(* Operations.                                                             *)

\* open_position.  A known advice changes nothing, and a flat one raises.
OpenPosition(a) ==
    /\ book[a].state = "none" /\ Terms[a].direction # "flat"
    /\ book' = [book EXCEPT ![a] = [NoPosition EXCEPT !.state = "open", !.opened = day]]
    /\ order' = Append(order, a)
    /\ UNCHANGED <<day, ticker, fills, unpublished, died>>

\* tick takes the open positions, in the order of the book ...
TickBegins(t) ==
    /\ ticker[t].at = "idle"
    /\ ticker' = [ticker EXCEPT ![t] =
         [at |-> "pricing", asof |-> day, px |-> 0,
          todo |-> SelectSeq(order, LAMBDA a : book[a].state = "open")]]
    /\ UNCHANGED <<day, book, order, fills, unpublished, died>>

\* ... and their marks, of whatever pricer it is given.  Without a mark (0) every position
\* is passed over.
TickPrices(t) ==
    /\ ticker[t].at = "pricing"
    /\ \E px \in PaperPrices \cup {0} :
         ticker' = [ticker EXCEPT ![t].px = px, ![t].at = IF px = 0 THEN "done" ELSE "checking"]
    /\ UNCHANGED <<day, book, order, fills, unpublished, died>>

\* Its positions, one after the other: one that exits is closed and stored, and then
\* on_close is awaited.
TickChecks(t) ==
    /\ ticker[t].at = "checking"
    /\ IF ticker[t].todo = <<>>
       THEN ticker' = [ticker EXCEPT ![t].at = "done"] /\ UNCHANGED book
       ELSE LET a    == Head(ticker[t].todo)
                exit == CheckExit(book[a], Terms[a], ticker[t].px, ticker[t].asof)
            IN  IF exit.reason = "none"
                THEN ticker' = [ticker EXCEPT ![t].todo = Tail(@)] /\ UNCHANGED book
                ELSE /\ ticker' = [ticker EXCEPT ![t].at = "closing"]
                     /\ book' = [book EXCEPT ![a] =
                          [state |-> "closed", opened |-> book[a].opened, closed |-> ticker[t].asof,
                           reason |-> exit.reason, exit |-> exit.exit]]
    /\ UNCHANGED <<day, order, fills, unpublished, died>>

\* on_close has published the fill, and the tick goes on, ...
FillPublished(t) ==
    /\ ticker[t].at = "closing"
    /\ fills' = [fills EXCEPT ![Head(ticker[t].todo)] = @ + 1]
    /\ ticker' = [ticker EXCEPT ![t].at = "checking", ![t].todo = Tail(@)]
    /\ UNCHANGED <<day, book, order, unpublished, died>>

\* ... or it raises, which ends the tick.  The position stays closed.
OnCloseRaises(t) ==
    /\ ticker[t].at = "closing"
    /\ unpublished' = unpublished \cup {Head(ticker[t].todo)}
    /\ ticker' = [ticker EXCEPT ![t].at = "raised"]
    /\ UNCHANGED <<day, book, order, fills, died>>

DayPasses ==
    /\ day < MaxDay
    /\ day' = day + 1
    /\ UNCHANGED <<book, order, ticker, fills, unpublished, died>>

\* The process restarts (once): its book is empty, its ticks are gone.
BookLost ==
    /\ ~died
    /\ died' = TRUE
    /\ book' = [a \in Ids |-> NoPosition] /\ order' = <<>>
    /\ ticker' = [t \in Ticks |-> IF ticker[t].at = "idle" THEN IdleTick
                                  ELSE [IdleTick EXCEPT !.at = "raised"]]
    /\ UNCHANGED <<day, fills, unpublished>>

PaperNext ==
    \/ \E a \in Ids : OpenPosition(a)
    \/ \E t \in Ticks :
         TickBegins(t) \/ TickPrices(t) \/ TickChecks(t) \/ FillPublished(t) \/ OnCloseRaises(t)
    \/ DayPasses \/ BookLost

PaperSpec == PaperInit /\ [][PaperNext]_paperVars

-----------------------------------------------------------------------------
(* Properties.                                                             *)

Closing(a) == \E t \in Ticks : ticker[t].at = "closing" /\ Head(ticker[t].todo) = a

(* A position is closed once: what a tick has realised no other tick that     *)
(* found the position open realises again, and its fill is published once,    *)
(* unless the book was lost in between.  A fill is missing only for a         *)
(* position that is being closed or whose on_close raised: no later tick      *)
(* publishes it (scheduler.py:27, :39-47).  And the fill of a stop costs      *)
(* one unit of risk however far the price has gone through it, so that the    *)
(* secretary alerts every one (exits.py:24, :43; significant_fill.py:23).     *)
FillsMatchClosings ==
    /\ \A a \in Ids : fills[a] <= (IF died THEN 2 ELSE 1)
    /\ \A a \in Ids : book[a].state = "closed" /\ fills[a] = 0 => Closing(a) \/ a \in unpublished
    /\ \A a \in Ids : book[a].reason = "stop" =>
         Pnl(Terms[a], book[a].exit) = -RiskUnit(Terms[a]) /\ Significant(Terms[a], book[a])
=============================================================================
