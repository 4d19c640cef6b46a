------------------------------- MODULE MCAgents -------------------------------
(* The desks of the agents and the stores of the packages they share, checked *)
(* in one run: they have no state in common, so each behaviour is one of a    *)
(* single desk, and the others rest.                                          *)
EXTENDS AdviceWriters, PaperBook, SecretaryDesk, LakeQuotes, FutuSubscriptions, DecisionLog,
        IntelDesk, QuantBook, FeatureFlags, PromptRegistry, LlmBoot, RequestReply,
        FutuSnapshot

VARIABLE desk  \* the desk this behaviour is about

CONSTANTS r1, r2, x1, x2, y1

-----------------------------------------------------------------------------
(* Instances.                                                              *)

\* A persona and a team in two processes; the persona's is short in its direction.
TwoHomes == [r \in {r1, r2} |-> IF r = r1 THEN "agent_persona" ELSE "agent_quant"]
ShortRules == [r \in {r1} |-> [direction |-> "short", target |-> 0, stop |-> 20, band |-> 4,
                               horizon |-> 365, modulated |-> TRUE, sound |-> TRUE]]
OneUniverse == [r \in {r1} |-> {"us_largecap"}]
Event(a, buckets) == [asset |-> a, buckets |-> buckets]
OneDigest ==
    {[events |-> <<Event("generic", {"commodities"}), Event("stock", {"us_largecap"})>>,
      regime |-> "crisis"]}

\* Ranges of a bear and a bull case around a price, beyond it on either side, collapsed on
\* it and upside down, and one from thin fundamentals.
SomeValuations ==
    [price : {0, 100}, bear : {0, 60, 100, 110}, bull : {0, 90, 100, 150}, missing : {FALSE}]
        \cup {[price |-> 100, bear |-> 110, bull |-> 150, missing |-> TRUE]}
SomeTrades == [close : {0, 50}, direction : {"long", "short"}, atr : {0, 20}]

\* A long and a short advice that a price of 90 and of 112 take out on either side.
LongAndShort == [a \in {"a1", "a2"} |->
    IF a = "a1"
    THEN [direction |-> "long", entryLo |-> 99, entryHi |-> 101, targetLo |-> 110,
          targetHi |-> 120, stop |-> 90, slippage |-> SlippageBps(TRUE, TRUE), expires |-> 1]
    ELSE [direction |-> "short", entryLo |-> 100, entryHi |-> 100, targetLo |-> 80,
          targetHi |-> 90, stop |-> 110, slippage |-> SlippageBps(FALSE, FALSE), expires |-> 1]]

\* No plan, a plan with a caller nobody knows, and one of two steps.
ThreeReplies == {<<>>, <<"agent_quant", "nobody">>, <<"agent_quant", "agent_board">>}

\* A stop that the price would call a success, and expiries either way.
ThreeOutcomes ==
    {[reason |-> "stop", direction |-> "long", entry |-> 1, exit |-> 2],
     [reason |-> "expiry", direction |-> "long", entry |-> 1, exit |-> 2],
     [reason |-> "expiry", direction |-> "short", entry |-> 1, exit |-> 2]}

\* A process whose stores are all lost with it, one that keeps its rows, one whose gate
\* outlives its rows and has no model, and one whose pipeline does not build.
FourBoots ==
    LET Env(llm, gate, store) ==
            [autostart |-> TRUE, builds |-> TRUE, llm |-> llm, gate |-> gate, store |-> store]
    IN  {Env(TRUE, "memory", "memory"), Env(TRUE, "memory", "postgres"),
         Env(FALSE, "redis", "memory"), [Env(TRUE, "redis", "memory") EXCEPT !.builds = FALSE]}
APullAndTwoSyntheses == <<"pull", "synthesize", "synthesize">>

\* One ticker without a volatility, two small ones, and two large ones of one sector.
FiveTickers == <<"t1", "t2", "t3", "t4", "t5">>
ThreeWeights ==
    [t \in ToSet(FiveTickers) |-> IF t = "t1" THEN 0 ELSE IF t \in {"t2", "t3"} THEN 2 ELSE 7]
TwoSectors == [t \in ToSet(FiveTickers) |-> IF t \in {"t4", "t5"} THEN "tech" ELSE "energy"]
OnePair == {<<"t3", "t4">>}
FiveScores == -2 .. 2

\* Two accounts of one endpoint, one of them in another currency, and one of a second.
TwoEndpoints == [a \in {x1, x2, y1} |-> IF a = y1 THEN 2 ELSE 1]
TwoCurrencies == [a \in {x1, x2, y1} |-> IF a = x2 THEN 1 ELSE 8]
TwoVenues == [a \in {x1, x2, y1} |-> IF a = x2 THEN "HK" ELSE "US"]
\* An account with some of each, one on margin and one that is short.
ThreePurses ==
    {[cash |-> 1, stock |-> 1], [cash |-> -1, stock |-> 2], [cash |-> 2, stock |-> -1]}

\* Two threads of one process read its flag.
OneFlagHome == [r \in {r1, r2} |-> "agent_persona"]

-----------------------------------------------------------------------------
personaDesk == <<markVars, personaVars>>

AgentsInit ==
    /\ desk \in {"persona", "paper", "chats", "quotes", "subscriptions", "log",
                "intel", "quant", "flags", "prompts", "llm", "calls", "snapshot",
                "writers"}
    /\ PersonaInit /\ PaperInit /\ ChatInit /\ QuotesInit /\ SubsInit /\ LogInit
    /\ DeskInit /\ QuantInit /\ FlagsInit /\ PromptInit /\ BootInit /\ ReplyInit
    /\ SnapInit /\ WritersInit
    \* one state at rest of the desks that have several initial ones
    /\ desk = "chats" \/ backend = "memory"
    /\ desk = "flags" \/ flagsFile.mtime = NoMTime
    /\ desk = "prompts" \/ source = [p \in PromptProcesses |-> [v \in Versions |-> NoText]]
    /\ desk = "snapshot" \/ purse = [a \in Accounts |-> CHOOSE some \in Purses : TRUE]

AgentsNext ==
    /\ UNCHANGED desk
    /\ IF desk = "persona" THEN PersonaNext ELSE UNCHANGED personaDesk
    /\ IF desk = "paper" THEN PaperNext ELSE UNCHANGED paperVars
    /\ IF desk = "chats" THEN ChatNext ELSE UNCHANGED chatVars
    /\ IF desk = "quotes" THEN QuotesNext ELSE UNCHANGED quotesVars
    /\ IF desk = "subscriptions" THEN SubsNext ELSE UNCHANGED subsVars
    /\ IF desk = "log" THEN LogNext ELSE UNCHANGED logVars
    /\ IF desk = "intel" THEN DeskNext ELSE UNCHANGED deskVars
    /\ IF desk = "quant" THEN QuantNext ELSE UNCHANGED quantVars
    /\ IF desk = "flags" THEN FlagsNext ELSE UNCHANGED flagVars
    /\ IF desk = "prompts" THEN PromptNext ELSE UNCHANGED promptVars
    /\ IF desk = "llm" THEN BootNext ELSE UNCHANGED bootVars
    /\ IF desk = "calls" THEN ReplyNext ELSE UNCHANGED replyVars
    /\ IF desk = "snapshot" THEN SnapNext ELSE UNCHANGED snapVars
    /\ IF desk = "writers" THEN WritersNext ELSE UNCHANGED writerVars

AgentsSpec ==
    AgentsInit /\ [][AgentsNext]_<<desk, personaDesk, paperVars, chatVars, quotesVars,
                                   subsVars, logVars, deskVars, quantVars, flagVars,
                                   promptVars, bootVars, replyVars, snapVars, writerVars>>
=============================================================================
