------------------------------- MODULE LlmBoot -------------------------------
(* llm_client/bootstrap.py, telemetry.py and the spend store of             *)
(* cost_meter.py, for every process of the system: each boot builds a       *)
(* router from its environment, with a spend of its own in memory, and a    *)
(* sink whose rows are written by tasks that nobody awaits.  LlmRouter has  *)
(* the calls of one process in detail; here a chat is admitted, goes to the *)
(* primary and perhaps to a fallback, ends and leaves its row, an embed     *)
(* leaves nothing, and processes die and come back.  Every charge is one    *)
(* unit; LLM_FALLBACK_CAP_USD is left at its default, which is no cap.      *)
EXTENDS FiniteSetsExt, Integers

CONSTANTS
    LlmProcesses,
    Strict,      \* those that refuse to start without a provider
    KeyRings,    \* the sets of API keys a boot may find
    MonthlyCap,  \* LLM_MONTHLY_CAP_USD, in calls; the month is longer than a behaviour
    Overlap,     \* bound: calls of one process that are admitted and have not ended; the code
                 \* has none, since those that wait for a permit have passed the gate
    MaxCalls,    \* bound: calls of the behaviour
    MaxLives     \* bound: boots of a process

ASSUME LlmBootAssumption ==
    /\ IsFiniteSet(LlmProcesses)
    /\ MonthlyCap \in Nat \ {0} /\ Overlap \in Nat \ {0}

VARIABLES
    wired,    \* wired[p]: the installed router (set_router), or NoRouter
    up,       \* processes that serve
    spend,    \* spend[p]: InMemorySpendStore
    asking,   \* asking[p]: admitted calls that have not ended: chats at the primary and at a
              \* fallback, and embeds
    due,      \* due[p]: _pending_tasks, rows of priced calls to be written
    callRows, \* priced rows of lake.llm_calls
    lives,    \* boots of each process
    billed,   \* history: what the providers charge
    unmetered,  \* history: of that, what no CostMeter is told while its process lives: a
                \* request that ended without an answer, and every embed
    lostRows  \* history: priced rows that went nowhere

bootVars == <<wired, up, spend, asking, due, callRows, lives, billed, unmetered, lostRows>>

NoRouter == [primary |-> "none", pro |-> "none", flash |-> "none", sink |-> "none"]

\* _build_primary: the first key in the order DeepSeek, Anthropic, Groq.
Primary(keys) ==
    IF "deepseek" \in keys THEN "deepseek"
    ELSE IF "anthropic" \in keys THEN "anthropic" ELSE "groq"

\* router_from_env: the fallbacks are built from the same keys, the primary's own among them.
Wire(keys, dsn) ==
    IF keys = {} THEN NoRouter
    ELSE [primary |-> Primary(keys),
          pro     |-> IF "anthropic" \in keys THEN "anthropic" ELSE "none",
          flash   |-> IF "groq" \in keys THEN "groq" ELSE "none",
          sink    |-> IF dsn THEN "postgres" ELSE "null"]

NoCalls == [primary |-> 0, fallback |-> 0, embed |-> 0]

BootInit ==
    /\ wired = [p \in LlmProcesses |-> NoRouter]
    /\ up = {}
    /\ spend = [p \in LlmProcesses |-> 0]
    /\ asking = [p \in LlmProcesses |-> NoCalls]
    /\ due = [p \in LlmProcesses |-> 0]
    /\ lives = [p \in LlmProcesses |-> 0]
    /\ callRows = 0 /\ billed = 0 /\ unmetered = 0 /\ lostRows = 0

\* lifespan_bootstrap: or_die raises without a provider, optional serves without a router.
Boot(p) ==
    /\ p \notin up /\ lives[p] < MaxLives
    /\ lives' = [lives EXCEPT ![p] = @ + 1]
    /\ \E keys \in KeyRings, dsn \in BOOLEAN :
          /\ wired' = [wired EXCEPT ![p] = Wire(keys, dsn)]
          /\ up' = IF keys = {} /\ p \in Strict THEN up ELSE up \union {p}
    /\ UNCHANGED <<spend, asking, due, callRows, billed, unmetered, lostRows>>

\* CostMeter.allow: what the process has spent since its boot, and not what is under way.
\* Faulty variant: spending the cap is allowed.
WithinCap_Inclusive(p) == spend[p] <= MonthlyCap
WithinCap(p) == spend[p] < MonthlyCap

CallsOf(p) == asking[p].primary + asking[p].fallback + asking[p].embed

\* The gate of a call, and the bounds of the model.
Admitted(p) ==
    /\ p \in up /\ wired[p] # NoRouter
    /\ CallsOf(p) < Overlap
    /\ billed + FoldSet(LAMBDA q, n : CallsOf(q) + n, 0, LlmProcesses) < MaxCalls
    /\ WithinCap(p)

\* A chat is admitted.
AskLlm(p) ==
    /\ Admitted(p)
    /\ asking' = [asking EXCEPT ![p].primary = @ + 1]
    /\ UNCHANGED <<wired, up, spend, due, callRows, lives, billed, unmetered, lostRows>>

\* An embed is admitted; the adapters of the other primaries raise at once.
EmbedLlm(p) ==
    /\ Admitted(p) /\ wired[p].primary = "deepseek"
    /\ asking' = [asking EXCEPT ![p].embed = @ + 1]
    /\ UNCHANGED <<wired, up, spend, due, callRows, lives, billed, unmetered, lostRows>>

\* What a provider charges for a request that brought no answer: nothing when it is down,
\* the request when it was only slow.
ChargeUnmetered ==
    \E n \in {0, 1} : billed' = billed + n /\ unmetered' = unmetered + n

\* The answer of the primary or of the fallback: record() and fire_and_forget(), with no
\* await between them.
AnswerLlm(p, at) ==
    /\ asking[p][at] > 0
    /\ asking' = [asking EXCEPT ![p][at] = @ - 1]
    /\ spend' = [spend EXCEPT ![p] = @ + 1]
    /\ billed' = billed + 1
    /\ IF wired[p].sink = "postgres"
       THEN due' = [due EXCEPT ![p] = @ + 1] /\ UNCHANGED lostRows
       ELSE lostRows' = lostRows + 1 /\ UNCHANGED due
    /\ UNCHANGED <<wired, up, callRows, lives, unmetered>>

\* The primary is down or has timed out: the gate once more, then the fallback of the tier.
FallBack(p) ==
    /\ asking[p].primary > 0
    /\ WithinCap(p)
    /\ \E tier \in {"pro", "flash"} : wired[p][tier] # "none"
    /\ asking' = [asking EXCEPT ![p].primary = @ - 1, ![p].fallback = @ + 1]
    /\ ChargeUnmetered
    /\ UNCHANGED <<wired, up, spend, due, callRows, lives, lostRows>>

\* A failure, a timeout with no fallback behind it, a cancellation; its row has no price.
FailLlm(p, at) ==
    /\ asking[p][at] > 0
    /\ asking' = [asking EXCEPT ![p][at] = @ - 1]
    /\ ChargeUnmetered
    /\ UNCHANGED <<wired, up, spend, due, callRows, lives, lostRows>>

\* embed() returns and is charged, or raises: nothing is recorded, and no row is written.
EndEmbed(p) ==
    /\ asking[p].embed > 0
    /\ asking' = [asking EXCEPT ![p].embed = @ - 1]
    /\ ChargeUnmetered
    /\ UNCHANGED <<wired, up, spend, due, callRows, lives, lostRows>>

\* PostgresTelemetrySink.write in its task: a failure is logged and the row is gone.
WriteRow(p) ==
    /\ due[p] > 0
    /\ due' = [due EXCEPT ![p] = @ - 1]
    /\ \/ callRows' = callRows + 1 /\ UNCHANGED lostRows
       \/ lostRows' = lostRows + 1 /\ UNCHANGED callRows
    /\ UNCHANGED <<wired, up, spend, asking, lives, billed, unmetered>>

\* The process ends: its spend, its calls and the rows of its tasks with it.
KillLlm(p) ==
    LET chats == asking[p].primary + asking[p].fallback
    IN  /\ p \in up
        /\ up' = up \ {p}
        /\ wired' = [wired EXCEPT ![p] = NoRouter]
        /\ spend' = [spend EXCEPT ![p] = 0]
        /\ asking' = [asking EXCEPT ![p] = NoCalls]
        /\ due' = [due EXCEPT ![p] = 0]
        /\ lostRows' = lostRows + due[p] + chats
        /\ billed' = billed + chats + asking[p].embed  \* charged for at the most
        /\ unmetered' = unmetered + asking[p].embed
        /\ UNCHANGED <<callRows, lives>>

BootNext ==
    \E p \in LlmProcesses :
        \/ Boot(p) \/ AskLlm(p) \/ EmbedLlm(p) \/ FallBack(p) \/ EndEmbed(p) \/ WriteRow(p) \/ KillLlm(p)
        \/ \E at \in {"primary", "fallback"} : AnswerLlm(p, at) \/ FailLlm(p, at)

BootSpec == BootInit /\ [][BootNext]_bootVars

-----------------------------------------------------------------------------
\* The monthly cap bounds what one boot of one process records, plus the calls that were let
\* in beside the last one (cost_meter.py:111-128), and never what the system spends in a
\* month: the bound grows with the processes and with their restarts (bootstrap.py:136),
\* and outside it is what no meter is told: a timed-out attempt, though a fallback then
\* answered (router.py:273-293), and every embed (router.py:464-475).
BillIsBounded ==
    billed <= FoldSet(LAMBDA p, n : lives[p] * (MonthlyCap + Overlap - 1) + n, unmetered, LlmProcesses)
=============================================================================
