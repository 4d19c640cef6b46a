----------------------------- MODULE PersonaDesk -----------------------------
(***************************************************************************)
(* The daily and weekly runs of the persona agents (agent_persona/persona/  *)
(* main.py and reasoner.py) over the marks of MarkCache: a run filters the  *)
(* digest by the persona's universe, has the model write a thesis, anchors  *)
(* its prices on the mark of the first event and builds an AdviceV1.        *)
(* The quant and fundamental teams read marks from the same caches.         *)
(*                                                                          *)
(* Prices are integers: a mark of b units for bar b, and bands in units of  *)
(* 1/400000 of that, in which a quarter per cent and a thousandth are whole.*)
(* The 1e-6 that keeps bands apart is one such unit.  Texts, memories and   *)
(* prompts are left out: no field of the advice but the thesis uses them.   *)
(***************************************************************************)
EXTENDS MarkCache, TradePlans

CONSTANTS
    Personas,      \* the readers that are persona runs; the others are teams
    Rules,         \* of each persona's file: its band_rules, and whether it is sound, with a
                   \* confidence_floor of at most 1 and a disclaimer that is not blank
    Active,        \* the buckets of universe_weights above 0 of each persona
    Digests,       \* events, each with its asset and the buckets of its links, and a regime
    NoInputs,      \* app state without a digest or a memory
    LiveMark,      \* values of the flag persona.live_mark.enabled
    Placeholder    \* _PLACEHOLDER_PX

\* A target below the price stays above nothing even at one and a half times: the largest
\* in the personas' files is 50 per cent.
ASSUME PersonaAssumption ==
    /\ Personas \subseteq Readers /\ LiveMark \subseteq BOOLEAN
    /\ Placeholder \in Nat \ {0}
    /\ \A d \in Digests : Len(d.events) \in Nat /\ \A i \in 1..Len(d.events) : d.events[i].asset \in Assets
    /\ \A r \in Personas :
          /\ Rules[r] \in [direction : Directions, target : Int, stop : Int, band : 0..399,
                           horizon : Nat, modulated : BOOLEAN, sound : BOOLEAN]
          /\ Rules[r].direction = "short" => Rules[r].target <= 66

IdleRun  == [at |-> "idle", asset |-> "none", regime |-> "unknown", when |-> 0]

VARIABLES
    run,        \* each persona's run: where it is, its asset, its `when`, its result
    advices_24h

personaVars == <<run, advices_24h>>

PersonaInit ==
    /\ MarkInit
    /\ run = [r \in Personas |-> IdleRun]
    /\ advices_24h = 0

-----------------------------------------------------------------------------
(* Pure parts of the reasoner.                                             *)

\* _relevant_events, by their places: all of them without a universe; else the events of
\* no asset and those of which some link falls in an active bucket.
Relevant(events, active) ==
    {i \in 1..Len(events) :
        active = {} \/ events[i].buckets = {} \/ events[i].buckets \cap active # {}}

\* _REGIME_MULTIPLIER in tenths, 1.0 for an unknown regime.
Multiplier(regime) ==
    CASE regime \in {"rate_cut", "bull"}  -> 15
      [] regime = "risk_on"               -> 13
      [] regime = "stagflation"           -> 7
      [] regime = "risk_off"              -> 6
      [] regime \in {"recession", "bear"} -> 5
      [] regime = "crisis"                -> 4
      [] OTHER                            -> 10

\* Faulty variant: nothing keeps the target and the stop off the entry band.
Bands_Touching(rules, mark, regime) ==
    LET px     == 1000 * mark
        target == rules.target * (IF rules.modulated THEN Multiplier(regime) ELSE 10)
        up     == IF rules.direction = "short" THEN -1 ELSE 1
        near   == px * 400 + up * 400 * mark * target
        far    == near + up * ((near * rules.band) \div 400)
    IN  IF rules.direction = "flat"
        THEN [direction |-> "flat", entryLo |-> 400 * px, entryHi |-> 400 * px,
              targetLo |-> 400 * px, targetHi |-> 400 * px, stop |-> 400 * px]
        ELSE [direction |-> rules.direction,
              entryLo |-> px * (400 - rules.band), entryHi |-> px * (400 + rules.band),
              targetLo |-> Smaller(near, far), targetHi |-> Larger(near, far),
              stop |-> px * 400 - up * 4 * px * rules.stop]

\* _bands_from_priors: target and stop in per cent of the mark, the half-width of the
\* entry band in quarters of a per cent.  Both are kept off the entry band.
Bands(rules, mark, regime) ==
    LET px      == 1000 * mark
        target  == rules.target * (IF rules.modulated THEN Multiplier(regime) ELSE 10)
        entryLo == px * (400 - rules.band)
        entryHi == px * (400 + rules.band)
        lo      == Larger(400 * mark * (1000 + target), entryHi + 1)
        hi      == Smaller(400 * mark * (1000 - target), entryLo - 1)
    IN  CASE rules.direction = "long" ->
               [direction |-> "long", entryLo |-> entryLo, entryHi |-> entryHi,
                targetLo |-> lo, targetHi |-> lo + (lo * rules.band) \div 400,
                stop |-> Smaller(4 * px * (100 - rules.stop), entryLo - 1)]
          [] rules.direction = "short" ->
               [direction |-> "short", entryLo |-> entryLo, entryHi |-> entryHi,
                targetLo |-> hi - (hi * rules.band) \div 400, targetHi |-> hi,
                stop |-> Larger(4 * px * (100 + rules.stop), entryHi + 1)]
          [] OTHER ->
               [direction |-> "flat", entryLo |-> 400 * px, entryHi |-> 400 * px,
                targetLo |-> 400 * px, targetHi |-> 400 * px, stop |-> 400 * px]

\* A mark without a price gives way to the placeholder.
AnchorPrice(bar) == IF bar > 0 THEN bar ELSE Placeholder

\* What AdviceV1 asks of bands and stop, and of what it takes from the file: an expiry
\* after the issue and by at most a year, a confidence and a disclaimer.
AdviceAccepted(a, rules) == AdviceValid(a) /\ rules.horizon \in 1..365 /\ rules.sound

-----------------------------------------------------------------------------
(* _run_cadence and reason.                                                *)

Goes(r, where)   == run' = [run EXCEPT ![r].at = where]
Ends(r, result)  == run' = [run EXCEPT ![r] = [IdleRun EXCEPT !.at = result]]

\* The run begins: without inputs and without a relevant event it ends at once;
\* otherwise `when` and the asset of the first event are fixed and the memory is queried.
Wakes(r, digest) ==
    /\ run[r].at = "idle"
    /\ LET relevant == IF digest = NoInputs THEN {} ELSE Relevant(digest.events, Active[r])
       IN  IF relevant = {}
           THEN Ends(r, "no_advice")
           ELSE run' = [run EXCEPT ![r] = [at |-> "chat", asset |-> digest.events[Min(relevant)].asset,
                                           regime |-> digest.regime, when |-> time]]
    /\ UNCHANGED <<markVars, advices_24h>>

\* The model or the router raises: so does the endpoint.
ThesisFails(r) ==
    /\ run[r].at = "chat"
    /\ Ends(r, "error")
    /\ UNCHANGED <<markVars, advices_24h>>

\* The thesis is there; the mark is asked for as of the beginning of the run.
AsksMark(r) ==
    /\ run[r].at = "chat" /\ TRUE \in LiveMark
    /\ AskMem(r, run[r].asset, run[r].when)
    /\ Goes(r, "mark")
    /\ UNCHANGED advices_24h

\* The flag is off: no mark.
SkipsMark(r) ==
    /\ run[r].at = "chat" /\ FALSE \in LiveMark
    /\ Goes(r, "unmarked")
    /\ UNCHANGED <<markVars, advices_24h>>

\* _to_advice and validate.  AdviceV1 refuses a wordy thesis, of more than 4000 characters,
\* which nothing clips, and what AdviceAccepted does not take.  Otherwise the run is counted,
\* and then fails on advice.assets, an attribute that AdviceV1 does not have.
Advises(r) ==
    /\ \/ run[r].at = "unmarked" /\ UNCHANGED reader
       \/ run[r].at = "mark" /\ Used(r)
    /\ LET bar == IF run[r].at = "mark" THEN reader[r].mark.bar ELSE 0
           a   == Bands(Rules[r], AnchorPrice(bar), run[r].regime)
       IN  \/ Ends(r, "wordy") /\ UNCHANGED advices_24h
           \/ IF AdviceAccepted(a, Rules[r])
              THEN Ends(r, "error") /\ advices_24h' = advices_24h + 1
              ELSE Ends(r, "refused") /\ UNCHANGED advices_24h
    /\ UNCHANGED <<time, bars, mem, redis, stall>>

\* A team reads the mark of its asset, as of now.
TeamReads(r) ==
    /\ \E a \in Listed : AskMem(r, a, time)
    /\ UNCHANGED personaVars

TeamDecides(r) == Used(r) /\ UNCHANGED <<time, bars, mem, redis, stall, personaVars>>

PersonaNext ==
    \/ \E r \in Personas :
         \/ \E d \in Digests \cup {NoInputs} : Wakes(r, d)
         \/ ThesisFails(r) \/ AsksMark(r) \/ SkipsMark(r) \/ Advises(r)
    \/ \E r \in Readers \ Personas : TeamReads(r) \/ TeamDecides(r)
    \/ (\E r \in Readers : GetMark(r)) /\ UNCHANGED personaVars
    \/ (BarArrives \/ TimePasses) /\ UNCHANGED personaVars

PersonaSpec == PersonaInit /\ [][PersonaNext]_<<markVars, personaVars>>

-----------------------------------------------------------------------------
(* Properties.                                                             *)

(* Whatever the mark, the regime and the width of its bands, the reasoner's  *)
(* bands make an advice that AdviceV1 takes: a thesis of fit length is       *)
(* refused only for what the persona's file says, a horizon out of 1 to 365  *)
(* days, a confidence or a disclaimer (reasoner.py:186, "schema-valid        *)
(* advice").                                                                 *)
RefusalIsOfTheFile ==
    \A r \in Personas : run[r].at = "refused" => Rules[r].horizon \notin 1..365 \/ ~Rules[r].sound
=============================================================================
