---------------------------- MODULE SecretaryDesk ----------------------------
(***************************************************************************)
(* The secretary's conversations (apps/agent_secretary/secretary): POST      *)
(* /chat stores the user's turn, reads the thread back as the planner's      *)
(* context, has a model plan agent calls, makes them one after the other and *)
(* stores the answer (main.py, memory.py, planner.py, agents.py).  All chats *)
(* are on one thread.                                                        *)
(*                                                                          *)
(* The memory store awaits nothing, so storing and reading are one step of   *)
(* the event loop; with Postgres everything may happen around an insert,     *)
(* whose time stamp is taken before it.  Left out: turns older than 30 days, *)
(* texts, what the calls are about, and the preferences of prefs.py, which   *)
(* nothing reads but the page that shows them.                               *)
(***************************************************************************)
EXTENDS Integers, Sequences, FiniteSets, SequencesExt

CONSTANTS
    Chats,      \* requests to /chat
    Welcome,    \* those whose user the allow-list, if there is one, admits
    Backends,   \* of the thread store: "memory", "postgres"
    Window,     \* turns read back: 20 in the code
    Known,      \* ALLOWED_CALLERS
    Replies     \* the planner's answers: sequences of callers, empty for no plan at all

ASSUME SecretaryAssumption ==
    /\ Welcome \subseteq Chats /\ Window \in Nat \ {0}
    /\ Backends \subseteq {"memory", "postgres"}

VARIABLES
    backend,
    thread,     \* the stored turns
    stamps,     \* the time stamps taken so far, which number the turns
    chat        \* where each request is

chatVars == <<backend, thread, stamps, chat>>
ChatInit ==
    /\ backend \in Backends
    /\ thread = {} /\ stamps = 0
    /\ chat = [c \in Chats |-> [at |-> "idle", asked |-> 0, ts |-> 0, seen |-> {},
                                context |-> <<>>, steps |-> <<>>, results |-> 0]]

-----------------------------------------------------------------------------
(* The thread.                                                             *)

Turn(c, role, ts) == [chat |-> c, role |-> role, ts |-> ts]

\* The turns by their time stamps, no two of which are the same.
ByTime(turns) ==
    [k \in 1..Cardinality(turns) |->
        CHOOSE t \in turns : Cardinality({u \in turns : u.ts < t.ts}) = k - 1]

\* Faulty variant: the own turn stays in the context.
Context_WithOwn(turns) ==
    LET rows == ByTime(turns)
        n    == Len(rows)
    IN  IF n <= Window THEN rows
        ELSE IF backend = "memory" THEN SubSeq(rows, n - Window + 1, n)
        ELSE SubSeq(rows, 1, Window)

\* last_n without its last turn, which is taken for the user's own.  The memory store
\* keeps the latest turns of the window, Postgres the earliest.
Context(turns) ==
    LET rows == ByTime(turns)
        n    == Len(rows)
    IN  IF n <= Window THEN SubSeq(rows, 1, n - 1)
        ELSE IF backend = "memory" THEN SubSeq(rows, n - Window + 1, n - 1)
        ELSE SubSeq(rows, 1, Window - 1)

\* The user's turn: refused, stored and read back at once, or about to be inserted.
Receives(c) ==
    /\ chat[c].at = "idle"
    /\ IF c \notin Welcome
       THEN chat' = [chat EXCEPT ![c].at = "refused"] /\ UNCHANGED <<thread, stamps>>
       ELSE LET now   == stamps + 1
                turns == thread \cup {Turn(c, "user", now)}
            IN  /\ stamps' = now
                /\ IF backend = "memory"
                   THEN /\ thread' = turns
                        /\ chat' = [chat EXCEPT ![c].at = "planning", ![c].asked = now,
                                                ![c].seen = turns, ![c].context = Context(turns)]
                   ELSE /\ chat' = [chat EXCEPT ![c].at = "storing", ![c].asked = now, ![c].ts = now]
                        /\ UNCHANGED thread
    /\ UNCHANGED backend

\* An insert commits: the question is there to be read back, or the answer to be returned.
Inserted(c) ==
    /\ \/ /\ chat[c].at = "storing"
          /\ thread' = thread \cup {Turn(c, "user", chat[c].ts)}
          /\ chat' = [chat EXCEPT ![c].at = "reading"]
       \/ /\ chat[c].at = "answering"
          /\ thread' = thread \cup {Turn(c, "assistant", chat[c].ts)}
          /\ chat' = [chat EXCEPT ![c].at = "replied"]
    /\ UNCHANGED <<backend, stamps>>

\* It raises, and so does the request: what the agents have been asked stays done.
InsertRaises(c) ==
    /\ chat[c].at \in {"storing", "answering"}
    /\ chat' = [chat EXCEPT ![c].at = "error"]
    /\ UNCHANGED <<backend, thread, stamps>>

ReadsBack(c) ==
    /\ chat[c].at = "reading"
    /\ chat' = [chat EXCEPT ![c].at = "planning", ![c].seen = thread, ![c].context = Context(thread)]
    /\ UNCHANGED <<backend, thread, stamps>>

\* plan: the steps with a known caller.  A failed model and a text that is no array of
\* steps make an empty plan.
Plans(c) ==
    /\ chat[c].at = "planning"
    /\ \E reply \in Replies :
         chat' = [chat EXCEPT ![c].at = "dispatching",
                              ![c].steps = SelectSeq(reply, LAMBDA caller : caller \in Known)]
    /\ UNCHANGED <<backend, thread, stamps>>

\* An agent answers the next step, or the HTTP error does.
AgentAnswers(c) ==
    /\ chat[c].at = "dispatching" /\ chat[c].steps # <<>>
    /\ chat' = [chat EXCEPT ![c].steps = Tail(@), ![c].results = @ + 1]
    /\ UNCHANGED <<backend, thread, stamps>>

\* All are answered: the answer is stitched together and stored.
Stitches(c) ==
    /\ chat[c].at = "dispatching" /\ chat[c].steps = <<>>
    /\ stamps' = stamps + 1
    /\ IF backend = "memory"
       THEN /\ thread' = thread \cup {Turn(c, "assistant", stamps + 1)}
            /\ chat' = [chat EXCEPT ![c].at = "replied"]
       ELSE /\ chat' = [chat EXCEPT ![c].at = "answering", ![c].ts = stamps + 1]
            /\ UNCHANGED thread
    /\ UNCHANGED backend

ChatNext ==
    \E c \in Chats :
        \/ Receives(c) \/ Inserted(c) \/ InsertRaises(c) \/ ReadsBack(c)
        \/ Plans(c) \/ AgentAnswers(c) \/ Stitches(c)

ChatSpec == ChatInit /\ [][ChatNext]_chatVars

-----------------------------------------------------------------------------
(* Properties.                                                             *)

Planned == {c \in Chats : chat[c].at \in {"planning", "dispatching", "answering", "replied"}}

\* The turns before c's own that fit into the window with it.
Latest(c) ==
    LET prior == {t \in chat[c].seen : t.ts < chat[c].asked}
    IN  {t \in prior : Cardinality({u \in prior : u.ts > t.ts}) < Window - 1}

(* The planner sees what was said last before the question it plans for, and  *)
(* not the question a second time, unless somebody else wrote to the thread   *)
(* between the insert and the read, or the thread in Postgres has outgrown    *)
(* the window (main.py:148-151, memory.py:134-135).                           *)
ContextIsLatest ==
    \A c \in Planned :
        \/ ToSet(chat[c].context) = Latest(c)
        \/ \E t \in chat[c].seen : t.ts > chat[c].asked
        \/ backend = "postgres" /\ Cardinality(chat[c].seen) > Window
=============================================================================
