------------------------------ MODULE HashChain ------------------------------
(***************************************************************************)
(* The hash-chained ledgers of the lake: lake.advice, lake.config_audit and *)
(* lake.futu_audit.  An append reads the hash of the newest row, computes   *)
(* its own over it and inserts a row that names it as predecessor.          *)
(*                                                                         *)
(* The three appends differ in what orders the rows, when that stamp is     *)
(* taken, what is locked between read and insert, and whether an index      *)
(* keeps two rows from naming one predecessor; a behaviour is about one of  *)
(* the tables and one chain in it (an agent's, a Futu account's).  A hash   *)
(* is abstracted to the row it is the hash of; stamps to a clock, with ties *)
(* broken as the ids break them.  Insert and commit are one step: until the *)
(* commit nobody sees the row, and whoever collides with it waits.          *)
(***************************************************************************)
EXTENDS Integers

CONSTANTS
    Writers,   \* appends, each of one row
    Process,   \* the process of each writer: the Futu log has a lock in each
    Genesis    \* the predecessor of a first row: NULL or 64 zeros

ASSUME ChainAssumption == Genesis \notin Writers

Tables == {"advice", "config_audit", "futu_audit"}

VARIABLES
    table,   \* the table this behaviour is about
    clock,   \* the time; every stamp is taken at its own
    rows,    \* the committed rows
    pc,      \* where each writer is
    stamp,   \* issued_at, ts, or the serial id of each writer's row
    prev,    \* the head each writer has read
    raced    \* history: writers between whose read and insert a row was committed

vars == <<table, clock, rows, pc, stamp, prev, raced>>

Row(w) == [id |-> w, prev |-> prev'[w], stamp |-> stamp'[w]]

States == {"idle", "ready", "read", "locked", "done", "collided", "failed"}

TypeOK ==
    /\ table \in Tables
    /\ clock \in Nat
    /\ rows \subseteq [id : Writers, prev : Writers \cup {Genesis}, stamp : Nat]
    /\ pc \in [Writers -> States]
    /\ stamp \in [Writers -> Nat]
    /\ prev \in [Writers -> Writers \cup {Genesis}]
    /\ raced \in [Writers -> BOOLEAN]

Init ==
    /\ table \in Tables
    /\ clock = 0
    /\ rows = {}
    /\ pc = [w \in Writers |-> "idle"]
    /\ stamp = [w \in Writers |-> 0]
    /\ prev = [w \in Writers |-> Genesis]
    /\ raced = [w \in Writers |-> FALSE]

\* Writer w takes the time as its stamp.
TakeStamp(w) ==
    /\ stamp' = [stamp EXCEPT ![w] = clock]
    /\ clock' = clock + 1

NoStamp == UNCHANGED <<stamp, clock>>

Goto(w, state) == pc' = [pc EXCEPT ![w] = state]

-----------------------------------------------------------------------------
(* Append.                                                                 *)

\* ORDER BY issued_at DESC, id DESC (ts DESC, id DESC; id DESC) LIMIT 1.
ChainHead ==
    IF rows = {} THEN Genesis
    ELSE (CHOOSE r \in rows : \A s \in rows : s.stamp <= r.stamp).id

\* The append is called: the advice already has its issued_at, and the Futu log
\* takes the lock of its process.
Begin(w) ==
    /\ pc[w] = "idle"
    /\ table = "futu_audit" =>
         \A v \in Writers : Process[v] = Process[w] => pc[v] \notin {"ready", "read"}
    /\ IF table = "advice" THEN TakeStamp(w) ELSE NoStamp
    /\ Goto(w, "ready")
    /\ UNCHANGED <<table, rows, prev, raced>>

\* The head is read; the config log takes its ts after that.
ReadHead(w) ==
    /\ pc[w] = "ready"
    /\ prev' = [prev EXCEPT ![w] = ChainHead]
    /\ IF table = "config_audit" THEN TakeStamp(w) ELSE NoStamp
    /\ raced' = [raced EXCEPT ![w] = FALSE]
    /\ Goto(w, "read")
    /\ UNCHANGED <<table, rows>>

\* SELECT ... FOR UPDATE in the transaction of the insert: the writer waits for
\* the head row it has found and then has it, whether or not it is still the head.
\* An empty table has no row to lock.
LockHead(w) ==
    /\ table = "advice"
    /\ pc[w] = "read"
    /\ \A v \in Writers : pc[v] = "locked" /\ prev[v] = prev[w] => prev[w] = Genesis
    /\ Goto(w, "locked")
    /\ UNCHANGED <<table, clock, rows, stamp, prev, raced>>

ReadyToInsert(w) == pc[w] = IF table = "advice" THEN "locked" ELSE "read"

\* Faulty variant: no unique index.
Taken_NoIndex(p) == FALSE

\* A unique index on the predecessor, which lake.config_audit does not have.
Taken(p) == table # "config_audit" /\ \E r \in rows : r.prev = p

Insert(w) ==
    /\ ReadyToInsert(w)
    /\ ~Taken(prev[w])
    /\ IF table = "futu_audit" THEN TakeStamp(w) ELSE NoStamp
    /\ prev' = prev
    /\ rows' = rows \cup {Row(w)}
    /\ raced' = [v \in Writers |-> raced[v] \/ (v # w /\ pc[v] \in {"read", "locked"})]
    /\ UNCHANGED table

\* The insert is committed.
Commit(w) == Insert(w) /\ Goto(w, "done")

\* IntegrityError: somebody else has appended to the same head.
Collide(w) ==
    /\ ReadyToInsert(w)
    /\ Taken(prev[w])
    /\ Goto(w, "collided")
    /\ UNCHANGED <<table, clock, rows, stamp, prev, raced>>

\* A caller of the advice ledger that retries, as its docstring asks, with the
\* same payload and so the same issued_at.
Retry(w) ==
    /\ table = "advice"
    /\ pc[w] = "collided"
    /\ Goto(w, "ready")
    /\ UNCHANGED <<table, clock, rows, stamp, prev, raced>>

\* The process or the connection dies: the transaction is rolled back, or it was
\* committed and the writer never knows.
Fail(w) ==
    /\ pc[w] \in {"ready", "read", "locked"}
    /\ Goto(w, "failed")
    /\ \/ Insert(w)
       \/ UNCHANGED <<table, clock, rows, stamp, prev, raced>>

Next ==
    \E w \in Writers :
        \/ Begin(w) \/ ReadHead(w) \/ LockHead(w) \/ Commit(w)
        \/ Collide(w) \/ Retry(w) \/ Fail(w)

Spec == Init /\ [][Next]_vars

-----------------------------------------------------------------------------
(* Verification.                                                           *)

\* Faulty variant: the predecessor may be anywhere in the ledger.
Follows_Linked(r, earlier) == \E s \in rows : r.prev = s.id

\* The row names the newest of the earlier rows.
Follows(r, earlier) == \E s \in earlier : r.prev = s.id /\ \A t \in earlier : t.stamp <= s.stamp

\* verify_chain: the rows in the order of their stamps.
Verifies ==
    \A r \in rows :
        LET earlier == {s \in rows : s.stamp < r.stamp}
        IN  IF earlier = {} THEN r.prev = Genesis ELSE Follows(r, earlier)

-----------------------------------------------------------------------------
(* Properties.                                                             *)

\* Every row has been stamped after its predecessor.
InOrder == \A r, s \in rows : s.prev = r.id => r.stamp < s.stamp

\* The chain never forks in a ledger with the unique index; in the config log, which
\* has none, it forks only when two edits race.
ForkNeedsRace ==
    \A r, s \in rows :
        r # s /\ r.prev = s.prev => table = "config_audit" /\ (raced[r.id] \/ raced[s.id])

\* verify_chain accuses a ledger nobody has touched exactly when rows were appended in
\* another order than that of their stamps.
VerifyExact == table # "config_audit" => (Verifies <=> InOrder)

\* An append that nobody raced collides only if the ledger is out of order.
CollisionHasCause == \A w \in Writers : pc[w] = "collided" => raced[w] \/ ~InOrder

\* An advice ledger that is out of order never takes another row: the newest row has
\* a successor already, and so has every head that an append under way has read.
DisorderWedges ==
    table = "advice" /\ ~InOrder =>
        /\ Taken(ChainHead)
        /\ \A w \in Writers : pc[w] \in {"read", "locked"} => Taken(prev[w])

\* What a ledger out of order does to its readers and its writers, and what else does not.
DisorderShows == VerifyExact /\ CollisionHasCause /\ DisorderWedges

\* workflows/02_DATA_LAYER.md: after an advice is inserted, verify_chain returns ok.
VerifyAfterAppends == table = "advice" => Verifies
=============================================================================
