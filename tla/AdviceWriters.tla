----------------------------- MODULE AdviceWriters -----------------------------
(***************************************************************************)
(* The writers of the fundamental and the quant desk (agent_fundamental/    *)
(* fund/writer.py, agent_quant/quant/writer.py): each has a model write a    *)
(* thesis on prices it has, and wraps both into an AdviceV1.  Their advice,  *)
(* and that of the persona desk, passes the same validators.                 *)
(*                                                                          *)
(* Prices are whole numbers, and so is an ATR, in tenths of a per cent of    *)
(* the price.  Left out are evidence, confidences, sizes and horizons, which *)
(* are within the schema whatever the inputs are.                            *)
(***************************************************************************)
EXTENDS PersonaDesk

CONSTANTS
    Valuations,  \* what the fundamental writer is given: price, bear and bull case, and
                 \* whether more than 30 % of the fundamentals are missing
    Trades       \* what shape() hands the quant writer: close, direction, atr

ASSUME WritersAssumption ==
    /\ Valuations \subseteq [price : Nat, bear : Int, bull : Int, missing : BOOLEAN]
    /\ Trades \subseteq [close : Nat, direction : {"long", "short"}, atr : Nat]

VARIABLES
    memo,    \* the valuation the fundamental writer is at, and how it ended
    ticket   \* the trade the quant writer is at, and how it ended

writerVars == <<memo, ticket>>

\* How a thesis can turn out.
Writings == {"cited", "uncited", "wordy"}

NoMemo == [at |-> "idle"]

WritersInit == memo = NoMemo /\ ticket = NoMemo

-----------------------------------------------------------------------------
(* The fundamental writer.                                                 *)

\* derive_direction: the middle of the two cases, ten per cent off the price.
DerivedDirection(v) ==
    CASE v.price > 0 /\ 5 * (v.bear + v.bull) > 11 * v.price -> "long"
      [] v.price > 0 /\ 5 * (v.bear + v.bull) < 9 * v.price  -> "short"
      [] OTHER                                               -> "flat"

\* The advice in hundredths: _entry_band and _stop_loss are fractions of the price, the
\* target is the range from the bear to the bull case.
FundamentalAdvice(v) ==
    LET d == DerivedDirection(v)
    IN  [direction |-> d,
         entryLo  |-> (CASE d = "long" -> 97  [] d = "short" -> 99  [] OTHER -> 100) * v.price,
         entryHi  |-> (CASE d = "long" -> 101 [] d = "short" -> 103 [] OTHER -> 100) * v.price,
         targetLo |-> 100 * v.bear,
         targetHi |-> 100 * v.bull,
         stop     |-> (CASE d = "long" -> 92  [] d = "short" -> 108 [] OTHER -> 100) * v.price]

\* compose: thin fundamentals are refused before the model is asked.
Values(v) ==
    /\ memo.at # "chat"
    /\ memo' = [at |-> IF v.missing THEN "insufficient" ELSE "chat", case |-> v]
    /\ UNCHANGED ticket

\* The thesis is there.  guard_citations wants a citation after every number, AdviceV1 at
\* most 4000 characters and prices that fit.
WritesMemo ==
    /\ memo.at = "chat"
    /\ \E thesis \in Writings :
         memo' = [memo EXCEPT !.at =
             IF thesis # "cited" THEN thesis
             ELSE IF AdviceValid(FundamentalAdvice(memo.case)) THEN "issued" ELSE "refused"]
    /\ UNCHANGED ticket

\* The model or the router raises.
MemoFails ==
    /\ memo.at = "chat"
    /\ memo' = [memo EXCEPT !.at = "error"]
    /\ UNCHANGED ticket

-----------------------------------------------------------------------------
(* The quant writer.                                                       *)

\* _with_bands, in ten-thousandths of the price: half an ATR around the price, a target
\* from one and a half to two and a half away, a stop at 1.2 on the other side.
WithBands(t) ==
    LET px == Priced(t.close)
    IN  IF t.direction = "long"
        THEN [direction |-> "long",
              entryLo  |-> px * (10000 - 5 * t.atr),  entryHi  |-> px * (10000 + 5 * t.atr),
              targetLo |-> px * (10000 + 15 * t.atr), targetHi |-> px * (10000 + 25 * t.atr),
              stop     |-> px * (10000 - 12 * t.atr)]
        ELSE [direction |-> "short",
              entryLo  |-> px * (10000 - 5 * t.atr),  entryHi  |-> px * (10000 + 5 * t.atr),
              targetLo |-> px * (10000 - 25 * t.atr), targetHi |-> px * (10000 - 15 * t.atr),
              stop     |-> px * (10000 + 12 * t.atr)]

Sizes(t) ==
    /\ ticket.at # "chat"
    /\ ticket' = [at |-> "chat", trade |-> t]
    /\ UNCHANGED memo

WritesTicket ==
    /\ ticket.at = "chat"
    /\ \E wordy \in BOOLEAN :
         ticket' = [ticket EXCEPT !.at =
             IF wordy THEN "wordy"
             ELSE IF AdviceValid(WithBands(ticket.trade)) THEN "issued" ELSE "refused"]
    /\ UNCHANGED memo

TicketFails ==
    /\ ticket.at = "chat"
    /\ ticket' = [ticket EXCEPT !.at = "error"]
    /\ UNCHANGED memo

WritersNext ==
    \/ (\E v \in Valuations : Values(v)) \/ WritesMemo \/ MemoFails
    \/ (\E t \in Trades : Sizes(t)) \/ WritesTicket \/ TicketFails

WritersSpec == WritersInit /\ [][WritersNext]_writerVars

-----------------------------------------------------------------------------
(* Properties.                                                             *)

(* The fundamental desk issues no advice on a stock whose price lies between  *)
(* its bear and its bull case, although its target is the middle of the two:  *)
(* the target band must lie beyond the entry band (writer.py:121,             *)
(* advice.py:101).  "flat" passes for a range that is the price itself.        *)
AdvisedPriceIsOutside ==
    memo.at = "issued" =>
        LET v == memo.case
        IN  \/ 101 * v.price < 100 * v.bear /\ v.bear <= v.bull
            \/ 99 * v.price > 100 * v.bull /\ v.bear <= v.bull
            \/ v.bear = v.price /\ v.bull = v.price

\* Whatever has an ATR passes, long or short, priced or not (risk.py:88-107).
ShapedTradesPass == ticket.at = "refused" => ticket.trade.atr = 0

\* What the three desks' writers make of their inputs meets the schema, but for these and
\* for a thesis of the model's that is too long or, in a memo, without its citations.
WritersMeetSchema == RefusalIsOfTheFile /\ AdvisedPriceIsOutside /\ ShapedTradesPass
=============================================================================
