----------------------------- MODULE DecisionLog -----------------------------
(***************************************************************************)
(* The Markdown decision log of one agent (packages/data-lake/data_lake/     *)
(* decision_log.py): append adds an entry, attach_reflection, which the       *)
(* Reflector of agent_backtest calls with every outcome (backtest/reflect.py),*)
(* writes a reflection into the first entry of an advice.  Both read the file, *)
(* make the new text and replace the file by it; the lock that serialises     *)
(* them is one of asyncio, so it holds within a process, and between processes *)
(* nothing does.                                                              *)
(*                                                                           *)
(* The file is the sequence of its entries.  Nothing is awaited between the    *)
(* read and the replacement, so a process does one such step at a time.        *)
(***************************************************************************)
EXTENDS Integers, Sequences, FiniteSets

CONSTANTS
    LogProcesses,  \* the processes that write the log: the agent's, agent_backtest's
    Advices,       \* advices: a repeated append logs a second entry
    Outcomes,      \* exit reasons and prices of an advice, of which a reflection tells one
    MaxWrites,     \* bound: appends and reflections
    MaxKills       \* bound: kills

ASSUME LogAssumption == MaxWrites \in Nat /\ MaxKills \in Nat

VARIABLES
    log,        \* the entries in the file
    writing,    \* what each process is writing, or Nothing
    appended,   \* history: how often an append of each advice has returned
    reflected,  \* history: advices of which attach_reflection has returned true
    overwrote,  \* history: a file was replaced that had changed since it was read
    writes, kills

logVars == <<log, writing, appended, reflected, overwrote, writes, kills>>

Nothing == [op |-> "none", id |-> "none", read |-> <<>>, text |-> <<>>]
Unreflected == "untold"

LogInit ==
    /\ log = <<>> /\ writing = [p \in LogProcesses |-> Nothing]
    /\ appended = [a \in Advices |-> 0] /\ reflected = {}
    /\ overwrote = FALSE /\ writes = 0 /\ kills = 0

-----------------------------------------------------------------------------
(* The texts.                                                              *)

\* _thesis_held: a target holds it, a stop fails it, and otherwise the price decides.
ThesisHeld(outcome) ==
    \/ outcome.reason = "target"
    \/ /\ outcome.reason \notin {"target", "stop"}
       /\ IF outcome.direction = "long" THEN outcome.exit >= outcome.entry
                                        ELSE outcome.exit <= outcome.entry

\* Faulty variant: the entries behind the one that is written to are cut off.
Inject_Cut(entries, a, held) ==
    LET found == {i \in DOMAIN entries : entries[i].id = a}
        first == CHOOSE i \in found : \A j \in found : i <= j
    IN  Append(SubSeq(entries, 1, first - 1), [id |-> a, held |-> held])

\* _inject_reflection: the first entry of the advice, whose reflection is replaced.
Inject(entries, a, held) ==
    LET found == {i \in DOMAIN entries : entries[i].id = a}
        first == CHOOSE i \in found : \A j \in found : i <= j
    IN  [entries EXCEPT ![first].held = held]

Logged(entries, a) == \E i \in DOMAIN entries : entries[i].id = a

-----------------------------------------------------------------------------
(* The writers.                                                            *)

Reads(p, op, a, text) ==
    /\ writing[p] = Nothing /\ writes < MaxWrites
    /\ writes' = writes + 1
    /\ writing' = [writing EXCEPT ![p] = [op |-> op, id |-> a, read |-> log, text |-> text]]
    /\ UNCHANGED <<log, appended, reflected, overwrote, kills>>

\* append: behind what is there, once more if it is there already.
AppendReads(p, a) == Reads(p, "append", a, Append(log, [id |-> a, held |-> Unreflected]))

\* attach_reflection: without a file or an entry it returns false and writes nothing.
ReflectReads(p, a, outcome) ==
    /\ Logged(log, a)
    /\ Reads(p, "reflect", a, Inject(log, a, IF ThesisHeld(outcome) THEN "yes" ELSE "no"))

\* The temporary file replaces the log, and the call returns.
Replaces(p) ==
    /\ writing[p] # Nothing
    /\ log' = writing[p].text
    /\ overwrote' = (overwrote \/ writing[p].read # log)
    /\ LET a == writing[p].id
       IN  IF writing[p].op = "append"
           THEN appended' = [appended EXCEPT ![a] = @ + 1] /\ UNCHANGED reflected
           ELSE reflected' = reflected \cup {a} /\ UNCHANGED appended
    /\ writing' = [writing EXCEPT ![p] = Nothing]
    /\ UNCHANGED <<writes, kills>>

\* What a kill leaves of the log: a temporary file besides it, which nobody reads.
AfterKill(p) == log

Killed(p) ==
    /\ writing[p] # Nothing /\ kills < MaxKills
    /\ kills' = kills + 1
    /\ log' = AfterKill(p)
    /\ writing' = [writing EXCEPT ![p] = Nothing]
    /\ UNCHANGED <<appended, reflected, overwrote, writes>>

LogNext ==
    \E p \in LogProcesses :
        \/ \E a \in Advices : AppendReads(p, a) \/ \E o \in Outcomes : ReflectReads(p, a, o)
        \/ Replaces(p) \/ Killed(p)

LogSpec == LogInit /\ [][LogNext]_logVars

-----------------------------------------------------------------------------
(* Properties.                                                             *)

Entries(a) == {i \in DOMAIN log : log[i].id = a}

(* What append has logged stays logged and what attach_reflection says it has *)
(* written is there, over kills and over repeated appends: only two processes  *)
(* whose reads and replacements overlap lose an entry or a reflection          *)
(* (decision_log.py:81-84, :100-105).                                          *)
LostNeedsOverlap ==
    overwrote \/ \A a \in Advices :
        /\ Cardinality(Entries(a)) = appended[a]
        /\ a \in reflected => \E i \in Entries(a) : log[i].held # Unreflected
=============================================================================
