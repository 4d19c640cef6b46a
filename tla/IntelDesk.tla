------------------------------ MODULE IntelDesk ------------------------------
(* agent_intelligence as its callers see it: intel/main.py on the pipeline  *)
(* that intel/factory.py builds, and the digest of intel/synth.py.          *)
(* /run/synthesize, /run/pull (whatever its source) and /health/deep all    *)
(* run the whole pipeline on the same gate, so what one of them takes the   *)
(* others never see.  IntelPipeline has the gates in detail; here a story   *)
(* is claimed, translated and stored in one step, and the environment of a  *)
(* boot says which of the stores outlive the process.                       *)
EXTENDS Integers, FiniteSets

CONSTANTS
    Stories,     \* what the feeds carry, each new in its time
    Local,       \* those of one region, of equal weight in the balance
    NeedsLlm,    \* foreign ones, and those whose title has a ticker
    IntelBoots,  \* environments a boot may find
    Requests,    \* requests, in their order: "synthesize", "pull" or "deep"
    MaxBoots     \* bound: boots of the process

ASSUME IntelDeskAssumption ==
    /\ Local \subseteq Stories /\ NeedsLlm \subseteq Stories
    /\ IntelBoots \subseteq [autostart : BOOLEAN, builds : BOOLEAN, llm : BOOLEAN,
                             gate : {"memory", "redis"}, store : {"memory", "postgres"}]

Calls == DOMAIN Requests
Down == [autostart |-> FALSE, builds |-> FALSE, llm |-> FALSE, gate |-> "memory", store |-> "memory"]
MaxReprompts == 2

VARIABLES
    bootEnv,   \* the environment of the running process, Down when there is none
    bound,     \* _state["pipeline"] is set
    feed,      \* stories the feeds carry so far
    gateKeys,  \* claimed by the hash gate
    eventRows, \* in the event store
    stage,     \* stage[c]: idle, crawl, synth, brief, done, failed or refused
    unread,    \* unread[c]: stories of the feeds the run has not come to
    accepted,  \* accepted[c]: the events of its digest
    replies,   \* replies[c]: answers of the model to synthesize()
    boots,     \* boots so far
    claimed,   \* history: claimed[c], the stories it took from the gate
    wiped      \* history: stories whose key and row went with a process

deskVars == <<bootEnv, bound, feed, gateKeys, eventRows, stage, unread, accepted, replies, boots,
              claimed, wiped>>

Working(c) == stage[c] \in {"crawl", "synth", "brief"}

DeskInit ==
    /\ bootEnv = Down /\ bound = FALSE /\ boots = 0
    /\ feed = {} /\ gateKeys = {} /\ eventRows = {} /\ wiped = {}
    /\ stage = [c \in Calls |-> "idle"]
    /\ unread = [c \in Calls |-> {}]
    /\ accepted = [c \in Calls |-> {}]
    /\ claimed = [c \in Calls |-> {}]
    /\ replies = [c \in Calls |-> 0]

\* _startup_pipeline and IntelConfig.from_env: a build that raises leaves the service up
\* without a pipeline; memory stores start empty.
BootIntel ==
    /\ boots < MaxBoots /\ bootEnv = Down
    /\ boots' = boots + 1
    /\ \E env \in IntelBoots :
          /\ bootEnv' = env
          /\ bound' = (env.autostart /\ env.builds)
    /\ UNCHANGED <<feed, gateKeys, eventRows, stage, unread, accepted, replies, claimed, wiped>>

\* The process ends, and its runs and memory stores with it.
KillIntel ==
    /\ bootEnv # Down
    /\ bootEnv' = Down /\ bound' = FALSE
    /\ gateKeys' = IF bootEnv.gate = "memory" THEN {} ELSE gateKeys
    /\ eventRows' = IF bootEnv.store = "memory" THEN {} ELSE eventRows
    /\ wiped' = wiped \union ((gateKeys \union eventRows) \ (gateKeys' \union eventRows'))
    /\ stage' = [c \in Calls |-> IF Working(c) THEN "failed" ELSE stage[c]]
    /\ UNCHANGED <<feed, unread, accepted, replies, boots, claimed>>

\* The three handlers up to pipeline.run(): 503 without a pipeline.
Request(c) ==
    /\ bootEnv # Down /\ stage[c] = "idle"
    /\ c > 1 => stage[c - 1] # "idle"
    /\ stage' = [stage EXCEPT ![c] = IF bound THEN "crawl" ELSE "refused"]
    /\ unread' = [unread EXCEPT ![c] = feed]
    /\ UNCHANGED <<bootEnv, bound, feed, gateKeys, eventRows, accepted, replies, boots, claimed, wiped>>

\* Faulty variant: the list is begun anew for each source.
Accepting_LastSource(c, s) == {s} \ eventRows

\* The events of the run with the story's: insert() says whether its row was written.
Accepting(c, s) == accepted[c] \union ({s} \ eventRows)

\* One story: dropped by the gate, or claimed and then lost with the run when the model is
\* missing or fails, or stored.
TakeStory(c) ==
    /\ stage[c] = "crawl"
    /\ \E s \in unread[c] :
          /\ unread' = [unread EXCEPT ![c] = @ \ {s}]
          /\ gateKeys' = gateKeys \union {s}
          /\ claimed' = [claimed EXCEPT ![c] = @ \union ({s} \ gateKeys)]
          /\ IF s \in gateKeys
             THEN UNCHANGED <<stage, accepted, eventRows>>
             ELSE \/ /\ s \in NeedsLlm
                     /\ stage' = [stage EXCEPT ![c] = "failed"]
                     /\ UNCHANGED <<accepted, eventRows>>
                  \/ /\ s \in NeedsLlm => bootEnv.llm
                     /\ eventRows' = eventRows \union {s}
                     /\ accepted' = [accepted EXCEPT ![c] = Accepting(c, s)]
                     /\ UNCHANGED stage
    /\ UNCHANGED <<bootEnv, bound, feed, replies, boots, wiped>>

\* bias_balance: one region has more than 0.55 of the weight.
Dominated(events) ==
    LET n == Cardinality(events)  k == Cardinality(events \intersect Local)
    IN  100 * k > 55 * n \/ 100 * (n - k) > 55 * n

\* synthesize(): the balance is that of the events, and no answer changes it, so a digest of
\* one region is asked for three times whatever comes back.
Synthesize(c) ==
    /\ \/ stage[c] = "crawl" /\ unread[c] = {}
       \/ stage[c] = "synth"
    /\ \/ stage' = [stage EXCEPT ![c] = "failed"] /\ UNCHANGED replies
       \/ /\ bootEnv.llm
          /\ replies' = [replies EXCEPT ![c] = @ + 1]
          /\ stage' = [stage EXCEPT ![c] =
                 IF Dominated(accepted[c]) /\ replies[c] < MaxReprompts THEN "synth" ELSE "brief"]
    /\ UNCHANGED <<bootEnv, bound, feed, gateKeys, eventRows, unread, accepted, boots, claimed, wiped>>

\* brief.compose, and the answer of the handler.
ComposeBrief(c) ==
    /\ stage[c] = "brief"
    /\ stage' \in {[stage EXCEPT ![c] = "done"], [stage EXCEPT ![c] = "failed"]}
    /\ UNCHANGED <<bootEnv, bound, feed, gateKeys, eventRows, unread, accepted, replies, boots,
                   claimed, wiped>>

\* The environment: a story is published.
StoryAppears ==
    /\ \E s \in Stories \ feed : feed' = feed \union {s}
    /\ UNCHANGED <<bootEnv, bound, gateKeys, eventRows, stage, unread, accepted, replies, boots,
                   claimed, wiped>>

DeskNext ==
    \/ BootIntel \/ KillIntel \/ StoryAppears
    \/ \E c \in Calls : Request(c) \/ TakeStory(c) \/ Synthesize(c) \/ ComposeBrief(c)

DeskSpec == DeskInit /\ [][DeskNext]_deskVars

-----------------------------------------------------------------------------
Briefed(s) == \E c \in Calls : Requests[c] = "synthesize" /\ stage[c] = "done" /\ s \in accepted[c]

\* A story the gate has let through to a run that is over reaches the digest of a synthesis,
\* unless a pull or a health check took it, whose digest nobody gets (main.py:107, :151), its
\* run failed, which leaves the key behind, or its row was there from a boot whose gate was
\* in memory.
UnbriefedHasCause ==
    \A c \in Calls : \A s \in claimed[c] :
        \/ Working(c) \/ Briefed(s)
        \/ Requests[c] # "synthesize" \/ stage[c] = "failed"
        \/ s \notin accepted[c] /\ \E d \in Calls \ {c} : s \in claimed[d]

\* No story is in two digests, unless its key and its row both went with a process
\* (factory.py:135-141, :162-168): one store that outlives the process is enough.
DigestedOnce ==
    \A c, d \in Calls : c # d => accepted[c] \intersect accepted[d] \subseteq wiped

\* Between the gate and the row a story is neither lost nor told twice without a cause.
StoriesAreToldOnce == UnbriefedHasCause /\ DigestedOnce
=============================================================================
