--------------------------- MODULE HashChainProofs ---------------------------
(***************************************************************************)
(* Proofs about HashChain: for any number of appends the state is well      *)
(* typed, a chain forks only where no index keeps it from forking and two   *)
(* appends race, and a chain is refused by its verification exactly when    *)
(* its rows are out of order.  Then about its callers: they implement       *)
(* HashChain, and what they add keeps edits in one line and calls in the    *)
(* audit log.                                                               *)
(***************************************************************************)
EXTENDS LedgerCallers, WellFoundedInduction, TLAPS

\* A ledger with rows has a newest one, so that ChainHead is well defined.
HasNewest == rows # {} => \E r \in rows : \A s \in rows : s.stamp <= r.stamp

\* A row is that of a writer that has ended, as the writer's variables say.
RowsTold ==
    \A r \in rows :
        /\ pc[r.id] \in {"done", "failed"}
        /\ r.prev = prev[r.id]

\* Nobody names a predecessor that is not there.
Exists(p) == p = Genesis \/ \E r \in rows : r.id = p

PrevsExist ==
    /\ \A r \in rows : Exists(r.prev)
    /\ \A w \in Writers : pc[w] \in {"read", "locked"} => Exists(prev[w])

\* A writer that nobody has raced still has the head.
UnracedHasHead == \A w \in Writers : pc[w] = "read" /\ ~raced[w] => prev[w] = ChainHead

\* The config log stamps a row after it has read the head.
StampedAfterHead ==
    table = "config_audit" =>
        /\ \A r \in rows : r.stamp < clock
        /\ \A r, s \in rows : s.prev = r.id => r.stamp < s.stamp
        /\ \A w \in Writers : pc[w] = "read" =>
             stamp[w] < clock /\ \A r \in rows : r.id = prev[w] => r.stamp < stamp[w]

\* A lock is only ever held in the advice ledger.
LocksAdvice == \A w \in Writers : pc[w] = "locked" => table = "advice"

IInv ==
    /\ TypeOK /\ HasNewest /\ RowsTold /\ PrevsExist
    /\ UnracedHasHead /\ StampedAfterHead /\ LocksAdvice /\ ForkNeedsRace

LEMMA InitInv == Init => IInv
  BY DEF Init, IInv, TypeOK, Tables, States, HasNewest, RowsTold, PrevsExist, Exists,
         UnracedHasHead, StampedAfterHead, LocksAdvice, ForkNeedsRace

\* The head is that of a row with the greatest stamp, or Genesis.
LEMMA HeadIsNewest ==
    ASSUME TypeOK, HasNewest
    PROVE  /\ rows = {} => ChainHead = Genesis
           /\ rows # {} => \E r \in rows : r.id = ChainHead /\ \A s \in rows : s.stamp <= r.stamp
           /\ ChainHead \in Writers \cup {Genesis}
<1>1. CASE rows = {}
  BY <1>1 DEF ChainHead
<1>2. CASE rows # {}
  <2> DEFINE newest == CHOOSE r \in rows : \A s \in rows : s.stamp <= r.stamp
  <2>1. newest \in rows /\ \A s \in rows : s.stamp <= newest.stamp
    BY <1>2 DEF HasNewest
  <2>2. ChainHead = newest.id
    BY <1>2 DEF ChainHead
  <2>3. newest.id \in Writers
    BY <2>1 DEF TypeOK
  <2> QED
    BY <1>2, <2>1, <2>2, <2>3
<1> QED
  BY <1>1, <1>2

-----------------------------------------------------------------------------
(* Steps that leave the rows alone.                                        *)

\* A writer moves to a state in which it claims nothing about the head.
LEMMA MoveKeepsInv ==
    ASSUME IInv, NEW w \in Writers, NEW state \in {"ready", "locked", "collided", "failed"},
           pc[w] \notin {"done", "failed"}, Goto(w, state),
           state = "locked" => table = "advice" /\ pc[w] = "read",
           stamp' \in [Writers -> Nat], clock' \in Nat, clock' >= clock,
           \A v \in Writers : v # w => stamp'[v] = stamp[v],
           UNCHANGED <<table, rows, prev, raced>>
    PROVE  IInv'
<1>1. pc' \in [Writers -> States] /\ pc'[w] = state /\ \A v \in Writers : v # w => pc'[v] = pc[v]
  BY DEF IInv, TypeOK, States, Goto
<1>2. TypeOK'
  BY <1>1 DEF IInv, TypeOK
<1>3. HasNewest' /\ ForkNeedsRace'
  BY DEF IInv, HasNewest, ForkNeedsRace
<1>4. RowsTold'
  <2>1. \A r \in rows : r.id # w /\ r.id \in Writers
    BY DEF IInv, TypeOK, RowsTold
  <2> QED
    BY <1>1, <2>1 DEF IInv, RowsTold
<1>5. PrevsExist'
  BY <1>1 DEF IInv, PrevsExist, Exists
<1>6. UnracedHasHead' /\ LocksAdvice'
  BY <1>1 DEF IInv, UnracedHasHead, LocksAdvice, ChainHead
<1>7. StampedAfterHead'
  BY <1>1 DEF IInv, TypeOK, StampedAfterHead
<1> QED
  BY <1>2, <1>3, <1>4, <1>5, <1>6, <1>7 DEF IInv

\* Taking a stamp, or not, keeps the clock and the stamps well typed.
LEMMA StampTyped ==
    ASSUME TypeOK, NEW w \in Writers, TakeStamp(w) \/ NoStamp
    PROVE  /\ stamp' \in [Writers -> Nat] /\ clock' \in Nat /\ clock' >= clock
           /\ \A v \in Writers : v # w => stamp'[v] = stamp[v]
           /\ TakeStamp(w) => stamp'[w] = clock /\ clock' = clock + 1
<1>1. clock \in Nat /\ stamp \in [Writers -> Nat]
  BY DEF TypeOK
<1>2. CASE TakeStamp(w)
  BY <1>1, <1>2 DEF TakeStamp
<1>3. CASE NoStamp /\ ~TakeStamp(w)
  BY <1>1, <1>3 DEF NoStamp
<1> QED
  BY <1>2, <1>3

\* Reading the head.
LEMMA ReadKeepsInv == ASSUME IInv, NEW w \in Writers, ReadHead(w) PROVE IInv'
<1>1. TypeOK /\ pc[w] = "ready" /\ UNCHANGED <<table, rows>>
  BY DEF IInv, ReadHead
<1>2. /\ rows = {} => ChainHead = Genesis
      /\ rows # {} => \E r \in rows : r.id = ChainHead /\ \A s \in rows : s.stamp <= r.stamp
      /\ ChainHead \in Writers \cup {Genesis}
  BY HeadIsNewest DEF IInv
<1>3. /\ pc' \in [Writers -> States] /\ pc'[w] = "read"
      /\ \A v \in Writers : v # w => pc'[v] = pc[v]
  BY <1>1 DEF ReadHead, Goto, TypeOK, States
<1>4. /\ prev' \in [Writers -> Writers \cup {Genesis}] /\ prev'[w] = ChainHead
      /\ \A v \in Writers : v # w => prev'[v] = prev[v]
  BY <1>1, <1>2 DEF ReadHead, TypeOK
<1>5. raced' \in [Writers -> BOOLEAN] /\ \A v \in Writers : v # w => raced'[v] = raced[v]
  BY <1>1 DEF ReadHead, TypeOK
<1>6. /\ stamp' \in [Writers -> Nat] /\ clock' \in Nat /\ clock' >= clock
      /\ \A v \in Writers : v # w => stamp'[v] = stamp[v]
      /\ table = "config_audit" => stamp'[w] = clock /\ clock' = clock + 1
  BY <1>1, StampTyped DEF ReadHead
<1>7. \A r \in rows : r.id \in Writers \ {w}
  BY <1>1 DEF IInv, TypeOK, RowsTold
<1>8. TypeOK'
  BY <1>1, <1>3, <1>4, <1>5, <1>6 DEF TypeOK
<1>9. HasNewest' /\ RowsTold' /\ ForkNeedsRace'
  BY <1>1, <1>3, <1>4, <1>5, <1>7 DEF IInv, HasNewest, RowsTold, ForkNeedsRace
<1>10. PrevsExist'
  BY <1>1, <1>2, <1>3, <1>4 DEF IInv, PrevsExist, Exists
<1>11. UnracedHasHead'
  BY <1>1, <1>3, <1>4, <1>5 DEF IInv, UnracedHasHead, ChainHead
<1>12. LocksAdvice'
  BY <1>1, <1>3 DEF IInv, LocksAdvice
<1>13. StampedAfterHead'
  <2> SUFFICES ASSUME table = "config_audit" PROVE StampedAfterHead'
    BY <1>1 DEF StampedAfterHead
  <2>1. \A r \in rows : r.stamp < clock /\ r.stamp \in Nat
    BY <1>1 DEF IInv, StampedAfterHead, TypeOK
  <2>2. \A r \in rows : r.stamp < clock' /\ r.stamp < stamp'[w]
    BY <1>1, <1>6, <2>1 DEF TypeOK
  <2>3. \A v \in Writers : pc'[v] = "read" => stamp'[v] < clock'
    BY <1>1, <1>3, <1>6 DEF IInv, StampedAfterHead, TypeOK
  <2> QED
    BY <1>1, <1>3, <1>4, <1>6, <2>2, <2>3 DEF IInv, StampedAfterHead
<1> QED
  BY <1>8, <1>9, <1>10, <1>11, <1>12, <1>13 DEF IInv

-----------------------------------------------------------------------------
(* The insert.                                                             *)

LEMMA InsertKeepsInv ==
    ASSUME IInv, NEW w \in Writers, NEW state \in {"done", "failed"}, Insert(w), Goto(w, state)
    PROVE  IInv'
<1> DEFINE n == Row(w)
<1>1. /\ TypeOK /\ pc[w] \in {"read", "locked"} /\ prev' = prev /\ UNCHANGED table
      /\ table # "advice" => pc[w] = "read"
      /\ rows' = rows \cup {n}
  BY DEF IInv, Insert, ReadyToInsert
<1>2. /\ stamp' \in [Writers -> Nat] /\ clock' \in Nat /\ clock' >= clock
      /\ \A v \in Writers : v # w => stamp'[v] = stamp[v]
      /\ table = "config_audit" => clock' = clock /\ stamp' = stamp
  BY <1>1, StampTyped DEF Insert, NoStamp
<1>3. n.id = w /\ n.prev = prev[w] /\ n.stamp = stamp'[w] /\ n.stamp \in Nat
  BY <1>1, <1>2 DEF Row
<1>4. n \in [id : Writers, prev : Writers \cup {Genesis}, stamp : Nat]
  BY <1>1, <1>2 DEF Row, TypeOK
<1>5. /\ pc' \in [Writers -> States] /\ pc'[w] = state
      /\ \A v \in Writers : v # w => pc'[v] = pc[v]
  BY <1>1 DEF Goto, TypeOK, States
<1>6. /\ raced' \in [Writers -> BOOLEAN]
      /\ raced'[w] = raced[w]
      /\ \A v \in Writers : raced[v] => raced'[v]
      /\ \A v \in Writers : v # w /\ pc[v] \in {"read", "locked"} => raced'[v]
  BY <1>1 DEF Insert, TypeOK
<1> HIDE DEF n
<1>7. \A r \in rows : r.id \in Writers /\ r.id # w /\ r.stamp \in Nat
  BY <1>1 DEF IInv, TypeOK, RowsTold
<1>8. Exists(prev[w]) /\ prev[w] # w
  BY <1>1, <1>7, ChainAssumption DEF IInv, PrevsExist, Exists, ChainAssumption
<1>9. TypeOK'
  BY <1>1, <1>2, <1>4, <1>5, <1>6 DEF TypeOK
<1>10. HasNewest'
  <2>1. CASE rows = {}
    BY <1>1, <1>3, <2>1 DEF HasNewest
  <2>2. CASE rows # {}
    <3>1. PICK top \in rows : \A s \in rows : s.stamp <= top.stamp
      BY <2>2 DEF IInv, HasNewest
    <3>2. CASE n.stamp <= top.stamp
      BY <1>1, <3>1, <3>2 DEF HasNewest
    <3>3. CASE n.stamp > top.stamp
      BY <1>1, <1>3, <1>7, <3>1, <3>3 DEF HasNewest
    <3> QED
      BY <1>3, <1>7, <3>1, <3>2, <3>3
  <2> QED
    BY <2>1, <2>2
<1>11. RowsTold'
  BY <1>1, <1>3, <1>5, <1>7 DEF IInv, RowsTold
<1>12. PrevsExist'
  <2>1. \A p : Exists(p) => Exists(p)'
    BY <1>1 DEF Exists
  <2> QED
    BY <1>1, <1>3, <1>5, <1>8, <2>1 DEF IInv, PrevsExist
<1>13. UnracedHasHead'
  BY <1>5, <1>6 DEF UnracedHasHead
<1>14. LocksAdvice'
  BY <1>1, <1>5 DEF IInv, LocksAdvice
<1>15. StampedAfterHead'
  <2> SUFFICES ASSUME table = "config_audit" PROVE StampedAfterHead'
    BY <1>1 DEF StampedAfterHead
  <2>1. pc[w] = "read" /\ stamp[w] < clock /\ \A r \in rows : r.id = prev[w] => r.stamp < stamp[w]
    BY <1>1 DEF IInv, StampedAfterHead
  <2>2. \A r \in rows' : r.stamp < clock'
    BY <1>1, <1>2, <1>3, <2>1 DEF IInv, StampedAfterHead
  <2>3. \A r \in rows : r.prev # w
    BY <1>7, ChainAssumption DEF IInv, PrevsExist, Exists, ChainAssumption
  <2>4. \A r, s \in rows' : s.prev = r.id => r.stamp < s.stamp
    <3> SUFFICES ASSUME NEW r \in rows', NEW s \in rows', s.prev = r.id PROVE r.stamp < s.stamp
      OBVIOUS
    <3>1. CASE r \in rows /\ s \in rows
      BY <3>1 DEF IInv, StampedAfterHead
    <3>2. CASE r \in rows /\ s = n
      BY <1>2, <1>3, <2>1, <3>2
    <3>3. CASE r = n
      BY <1>1, <1>3, <1>8, <2>3, <3>3
    <3> QED
      BY <1>1, <3>1, <3>2, <3>3
  <2>5. ASSUME NEW v \in Writers, pc'[v] = "read"
        PROVE  stamp'[v] < clock' /\ \A r \in rows' : r.id = prev'[v] => r.stamp < stamp'[v]
    <3>1. v # w /\ pc[v] = "read" /\ stamp'[v] = stamp[v] /\ prev'[v] = prev[v]
      BY <1>1, <1>2, <1>5, <2>5
    <3>2. prev[v] # w
      BY <1>7, <3>1, ChainAssumption DEF IInv, PrevsExist, Exists, ChainAssumption
    <3> QED
      BY <1>1, <1>2, <1>3, <3>1, <3>2 DEF IInv, StampedAfterHead
  <2> QED
    BY <2>2, <2>4, <2>5 DEF StampedAfterHead
<1>16. ForkNeedsRace'
  <2>1. \A r \in rows : r.prev = prev[w] => table = "config_audit" /\ raced[w]
    <3> SUFFICES ASSUME NEW r \in rows, r.prev = prev[w] PROVE table = "config_audit" /\ raced[w]
      OBVIOUS
    <3>1. table = "config_audit"
      BY DEF Insert, Taken
    <3>2. ASSUME ~raced[w] PROVE FALSE
      <4>1. prev[w] = ChainHead
        BY <1>1, <3>1, <3>2 DEF IInv, UnracedHasHead
      <4>2. PICK top \in rows : top.id = ChainHead /\ \A s \in rows : s.stamp <= top.stamp
        BY HeadIsNewest DEF IInv
      <4>3. top.stamp < r.stamp /\ r.stamp <= top.stamp
        BY <3>1, <4>1, <4>2 DEF IInv, StampedAfterHead
      <4> QED
        BY <1>7, <4>3
    <3>3. raced[w] \in BOOLEAN
      BY <1>1 DEF TypeOK
    <3> QED
      BY <3>1, <3>2
  <2> SUFFICES ASSUME NEW r \in rows', NEW s \in rows', r # s, r.prev = s.prev
               PROVE  table = "config_audit" /\ (raced'[r.id] \/ raced'[s.id])
    BY <1>1 DEF ForkNeedsRace
  <2>2. CASE r \in rows /\ s \in rows
    BY <1>6, <1>7, <2>2 DEF IInv, ForkNeedsRace
  <2>3. CASE r = n \/ s = n
    BY <1>1, <1>3, <1>6, <2>1, <2>3
  <2> QED
    BY <1>1, <2>2, <2>3
<1> QED
  BY <1>9, <1>10, <1>11, <1>12, <1>13, <1>14, <1>15, <1>16 DEF IInv

\* Every step keeps the invariant.
THEOREM ChainInvariant == Spec => []IInv
<1>1. IInv /\ [Next]_vars => IInv'
  <2> SUFFICES ASSUME IInv, [Next]_vars PROVE IInv'
    OBVIOUS
  <2> TypeOK
    BY DEF IInv
  <2>1. ASSUME NEW w \in Writers, Begin(w) PROVE IInv'
    <3>1. TakeStamp(w) \/ NoStamp
      BY <2>1 DEF Begin
    <3> QED
      BY <2>1, <3>1, StampTyped, MoveKeepsInv DEF Begin
  <2>2. ASSUME NEW w \in Writers, ReadHead(w) PROVE IInv'
    BY <2>2, ReadKeepsInv
  <2>3. ASSUME NEW w \in Writers, LockHead(w) \/ Retry(w) PROVE IInv'
    BY <2>3, MoveKeepsInv DEF LockHead, Retry, TypeOK
  <2>4. ASSUME NEW w \in Writers, Commit(w) PROVE IInv'
    BY <2>4, InsertKeepsInv DEF Commit
  <2>5. ASSUME NEW w \in Writers, Collide(w) PROVE IInv'
    <3>1. pc[w] \in {"read", "locked"}
      BY <2>5 DEF Collide, ReadyToInsert
    <3> QED
      BY <2>5, <3>1, MoveKeepsInv DEF Collide, TypeOK
  <2>6. ASSUME NEW w \in Writers, Fail(w) PROVE IInv'
    <3>1. CASE Insert(w)
      BY <2>6, <3>1, InsertKeepsInv DEF Fail
    <3>2. CASE UNCHANGED <<table, clock, rows, stamp, prev, raced>>
      BY <2>6, <3>2, MoveKeepsInv DEF Fail, TypeOK
    <3> QED
      BY <2>6, <3>1, <3>2 DEF Fail
  <2>7. CASE UNCHANGED vars
    BY <2>7 DEF vars, IInv, TypeOK, HasNewest, RowsTold, PrevsExist, Exists,
                UnracedHasHead, ChainHead, StampedAfterHead, LocksAdvice, ForkNeedsRace
  <2> QED
    BY <2>1, <2>2, <2>3, <2>4, <2>5, <2>6, <2>7 DEF Next
<1> QED
  BY InitInv, <1>1, PTL DEF Spec

\* Type correctness of the three ledgers, for any number of appends.
THEOREM ChainTypeCorrect == Spec => []TypeOK
<1>1. IInv => TypeOK
  BY DEF IInv
<1> QED
  BY ChainInvariant, <1>1, PTL

\* No row of lake.advice or lake.futu_audit shares its predecessor with another, and
\* none of lake.config_audit does unless two edits raced.
THEOREM ForksOnlyByRace == Spec => []ForkNeedsRace
<1>1. IInv => ForkNeedsRace
  BY DEF IInv
<1> QED
  BY ChainInvariant, <1>1, PTL
-----------------------------------------------------------------------------
(* Ledgers out of order.                                                   *)

\* Nobody stamps his row as another does, and a row has its writer's stamp.
StampsApart ==
    /\ \A r \in rows : r.stamp = stamp[r.id] /\ r.stamp < clock
    /\ \A r, s \in rows : r.stamp = s.stamp => r = s
    /\ table = "advice" => \A w \in Writers : pc[w] # "idle" =>
         /\ stamp[w] < clock
         /\ \A v \in Writers : v # w /\ pc[v] # "idle" => stamp[v] # stamp[w]

\* The newest row is the head of those that nobody has raced since they read it.
HeadIsFresh == \A w \in Writers : pc[w] \in {"read", "locked"} /\ ~raced[w] => prev[w] = ChainHead

\* The Futu log stamps a row as it is inserted: it is never out of order.
FutuIsInOrder == table = "futu_audit" => InOrder

DisorderInv ==
    /\ DisorderShows
    /\ table # "config_audit" => StampsApart /\ HeadIsFresh /\ FutuIsInOrder
    /\ table = "config_audit" => \A w \in Writers : pc[w] # "collided"

LEMMA EarliestOf ==
    ASSUME TypeOK, NEW S \in SUBSET rows, S # {}
    PROVE  \E f \in S : \A s \in S : f.stamp <= s.stamp
<1> DEFINE T == {s.stamp : s \in S}
<1>1. T \subseteq Nat /\ T # {}
  BY DEF TypeOK
<1>2. PICK x \in T : \A y \in T : <<y, x>> \notin OpToRel(<, Nat)
  BY <1>1, NatLessThanWellFounded, WFMin
<1>3. \A y \in T : ~(y < x)
  BY <1>1, <1>2 DEF OpToRel
<1>4. PICK f \in S : f.stamp = x
  BY <1>2
<1>5. \A s \in S : s.stamp \in T /\ s.stamp \in Nat
  BY DEF TypeOK
<1> HIDE DEF T
<1> QED
  BY <1>3, <1>4, <1>5

\* A row is known by its id.
LEMMA RowsById ==
    TypeOK /\ RowsTold /\ StampsApart => \A r, s \in rows : r.id = s.id => r = s
<1> SUFFICES ASSUME TypeOK, RowsTold, StampsApart, NEW r \in rows, NEW s \in rows, r.id = s.id
             PROVE  r = s
  OBVIOUS
<1> QED
  BY DEF RowsTold, StampsApart, TypeOK

\* What verifies is in order.
LEMMA VerifiedIsInOrder ==
    TypeOK /\ RowsTold /\ StampsApart => (Verifies => InOrder)
<1> SUFFICES ASSUME TypeOK, RowsTold, StampsApart, Verifies,
                    NEW r \in rows, NEW s \in rows, s.prev = r.id
             PROVE  r.stamp < s.stamp
  BY DEF InOrder
<1> DEFINE earlier == {t \in rows : t.stamp < s.stamp}
<1>1. IF earlier = {} THEN s.prev = Genesis ELSE Follows(s, earlier)
  BY DEF Verifies
<1>2. r.id # Genesis
  BY ChainAssumption DEF TypeOK, ChainAssumption
<1>3. PICK t \in earlier : s.prev = t.id
  BY <1>1, <1>2 DEF Follows
<1>4. t = r
  BY <1>3, RowsById
<1> QED
  BY <1>3, <1>4

\* In a ledger that verifies every predecessor but the head has its successor.
LEMMA OnlyHeadIsFree ==
    ASSUME TypeOK, RowsTold, HasNewest, StampsApart, Verifies,
           NEW p, Exists(p), \A r \in rows : r.prev # p
    PROVE  p = ChainHead
<1>1. CASE rows = {}
  BY <1>1, HeadIsNewest DEF Exists
<1>2. CASE rows # {}
  <2>1. PICK top \in rows : top.id = ChainHead /\ \A s \in rows : s.stamp <= top.stamp
    BY <1>2, HeadIsNewest
  <2>2. p # Genesis
    <3>1. PICK f \in rows : \A s \in rows : f.stamp <= s.stamp
      BY <1>2, EarliestOf
    <3>2. \A s \in rows : s.stamp \in Nat
      BY DEF TypeOK
    <3>3. {s \in rows : s.stamp < f.stamp} = {}
      BY <3>1, <3>2
    <3>4. f.prev = Genesis
      BY <3>3 DEF Verifies
    <3> QED
      BY <3>4
  <2>3. PICK r \in rows : r.id = p
    BY <2>2 DEF Exists
  <2>4. ASSUME r # top PROVE FALSE
    <3> DEFINE later == {s \in rows : r.stamp < s.stamp}
    <3>1. \A s \in rows : s.stamp \in Nat
      BY DEF TypeOK
    <3>2. top \in later
      BY <2>1, <2>4, <3>1 DEF StampsApart
    <3>3. PICK f \in later : \A s \in later : f.stamp <= s.stamp
      BY <3>2, EarliestOf
    <3> DEFINE earlier == {s \in rows : s.stamp < f.stamp}
    <3>4. r \in earlier
      BY <3>3
    <3>5. PICK s \in earlier : f.prev = s.id /\ \A t \in earlier : t.stamp <= s.stamp
      BY <3>4 DEF Verifies, Follows
    <3>6. s.stamp = r.stamp
      <4>1. r.stamp <= s.stamp /\ s.stamp < f.stamp /\ s \in rows /\ f \in rows
        BY <3>4, <3>5
      <4>2. ~(r.stamp < s.stamp)
        <5>1. SUFFICES ASSUME r.stamp < s.stamp PROVE FALSE
          OBVIOUS
        <5>2. f.stamp <= s.stamp
          BY <3>3, <4>1, <5>1
        <5> QED
          BY <3>1, <4>1, <5>2
      <4> QED
        BY <3>1, <4>1, <4>2
    <3>7. s = r
      BY <3>5, <3>6 DEF StampsApart
    <3> QED
      BY <2>3, <3>3, <3>5, <3>7
  <2> QED
    BY <2>1, <2>3, <2>4
<1> QED
  BY <1>1, <1>2

\* Where the rows and the table stay, so do the verdicts on them.
LEMMA SameRowsSameVerdicts ==
    ASSUME UNCHANGED <<table, rows>>
    PROVE  /\ Verifies' <=> Verifies
           /\ InOrder' <=> InOrder
           /\ ChainHead' = ChainHead
           /\ \A p : Taken(p)' <=> Taken(p)
BY DEF Verifies, Follows, InOrder, ChainHead, Taken

\* A writer moves and leaves the rows as they are.
LEMMA MoveKeepsDisorder ==
    ASSUME IInv, DisorderInv, NEW w \in Writers, NEW state \in States, Goto(w, state),
           UNCHANGED <<table, rows>>,
           pc[w] \notin {"done", "failed"}, state \notin {"idle", "done"},
           stamp' \in [Writers -> Nat], clock' \in Nat, clock' >= clock,
           \A v \in Writers : v # w => stamp'[v] = stamp[v] /\ prev'[v] = prev[v] /\ raced'[v] = raced[v],
           table = "advice" =>
               \/ stamp'[w] = stamp[w] /\ pc[w] # "idle"
               \/ stamp'[w] = clock /\ clock' = clock + 1,
           state \in {"read", "locked"} =>
               \/ prev'[w] = prev[w] /\ raced'[w] = raced[w] /\ pc[w] \in {"read", "locked"}
               \/ prev'[w] = ChainHead,
           state = "collided" => table # "config_audit" /\ (raced'[w] \/ ~InOrder)
    PROVE  DisorderInv'
<1>1. pc' \in [Writers -> States] /\ pc'[w] = state /\ \A v \in Writers : v # w => pc'[v] = pc[v]
  BY DEF IInv, TypeOK, Goto
<1>2. /\ Verifies' <=> Verifies
      /\ InOrder' <=> InOrder
      /\ ChainHead' = ChainHead
      /\ \A p : Taken(p)' <=> Taken(p)
  BY SameRowsSameVerdicts
<1>3. VerifyExact'
  BY <1>2 DEF VerifyExact, DisorderInv, DisorderShows
<1>4. CollisionHasCause'
  BY <1>1, <1>2 DEF CollisionHasCause, DisorderInv, DisorderShows
<1>5. DisorderWedges'
  <2> SUFFICES ASSUME table = "advice", ~InOrder
               PROVE  /\ Taken(ChainHead)'
                      /\ \A v \in Writers : pc'[v] \in {"read", "locked"} => Taken(prev[v])'
    BY <1>2 DEF DisorderWedges
  <2>1. /\ Taken(ChainHead)
        /\ \A v \in Writers : pc[v] \in {"read", "locked"} => Taken(prev[v])
    BY DEF DisorderInv, DisorderShows, DisorderWedges
  <2>2. ASSUME NEW v \in Writers, pc'[v] \in {"read", "locked"} PROVE Taken(prev[v])'
    <3>1. CASE v # w
      <4>1. Taken(prev[v]) /\ prev'[v] = prev[v]
        BY <1>1, <2>1, <2>2, <3>1
      <4> QED
        BY <4>1 DEF Taken
    <3>2. CASE v = w
      <4>1. Taken(prev'[w])
        BY <1>1, <2>1, <2>2, <3>2
      <4> QED
        BY <3>2, <4>1 DEF Taken
    <3> QED
      BY <3>1, <3>2
  <2>3. Taken(ChainHead)'
    BY <1>2, <2>1 DEF Taken
  <2> QED
    BY <2>2, <2>3
<1>6. ASSUME table # "config_audit" PROVE StampsApart' /\ HeadIsFresh' /\ FutuIsInOrder'
  <2>1. StampsApart /\ HeadIsFresh /\ FutuIsInOrder
    BY <1>6 DEF DisorderInv
  <2>2. \A r \in rows : r.id \in Writers /\ r.id # w /\ r.stamp \in Nat
    BY DEF IInv, TypeOK, RowsTold
  <2>3. clock \in Nat /\ stamp \in [Writers -> Nat]
    BY DEF IInv, TypeOK
  <2>4. StampsApart'
    <3>1. \A r \in rows : r.stamp = stamp'[r.id] /\ r.stamp < clock'
      BY <2>1, <2>2, <2>3 DEF StampsApart
    <3>2. ASSUME table = "advice", NEW u \in Writers, pc'[u] # "idle"
          PROVE  /\ stamp'[u] < clock'
                 /\ \A v \in Writers : v # u /\ pc'[v] # "idle" => stamp'[v] # stamp'[u]
      <4>1. \A v \in Writers : v # w /\ pc'[v] # "idle" => stamp'[v] < clock /\ stamp'[v] \in Nat
                                                        /\ pc[v] # "idle" /\ stamp'[v] = stamp[v]
        BY <1>1, <2>1, <2>3, <3>2 DEF StampsApart
      <4>2. CASE stamp'[w] = stamp[w] /\ pc[w] # "idle"
        <5>1. stamp[w] < clock /\ \A v \in Writers : v # w /\ pc[v] # "idle" => stamp[v] # stamp[w]
          BY <2>1, <3>2, <4>2 DEF StampsApart
        <5> QED
          BY <2>1, <2>3, <3>2, <4>1, <4>2, <5>1 DEF StampsApart
      <4>3. CASE stamp'[w] = clock /\ clock' = clock + 1
        BY <2>1, <2>3, <3>2, <4>1, <4>3 DEF StampsApart
      <4> QED
        BY <3>2, <4>2, <4>3
    <3> QED
      BY <2>1, <3>1, <3>2 DEF StampsApart
  <2>5. HeadIsFresh'
    BY <1>1, <1>2, <2>1 DEF HeadIsFresh
  <2>6. FutuIsInOrder'
    BY <1>2, <2>1 DEF FutuIsInOrder
  <2> QED
    BY <2>4, <2>5, <2>6
<1>7. table' = "config_audit" => \A v \in Writers : pc'[v] # "collided"
  BY <1>1 DEF DisorderInv
<1> QED
  BY <1>3, <1>4, <1>5, <1>6, <1>7 DEF DisorderInv, DisorderShows

\* A row is inserted in the ledger of advices or of Futu calls.
LEMMA InsertKeepsVerdicts ==
    ASSUME IInv, IInv', DisorderInv, table # "config_audit", NEW w \in Writers,
           NEW state \in {"done", "failed"}, Insert(w), Goto(w, state)
    PROVE  DisorderInv'
<1> DEFINE n == Row(w)
<1>1. /\ TypeOK /\ pc[w] \in {"read", "locked"} /\ prev' = prev /\ UNCHANGED table
      /\ table = "advice" => pc[w] = "locked"
      /\ rows' = rows \cup {n}
  BY DEF IInv, Insert, ReadyToInsert
<1>t. /\ table \in {"advice", "futu_audit"} /\ clock \in Nat
      /\ stamp \in [Writers -> Nat]
      /\ StampsApart /\ HeadIsFresh /\ FutuIsInOrder
  BY <1>1 DEF TypeOK, Tables, DisorderInv
<1>2. /\ clock' \in Nat /\ clock' >= clock
      /\ \A v \in Writers : v # w => stamp'[v] = stamp[v]
      /\ table = "advice" => clock' = clock /\ stamp' = stamp
      /\ table = "futu_audit" => clock' = clock + 1 /\ stamp'[w] = clock
  BY <1>1, <1>t, StampTyped DEF Insert, NoStamp
<1>3. n.id = w /\ n.prev = prev[w] /\ n.stamp = stamp'[w]
  BY <1>1 DEF Row
<1>4. n.stamp \in Nat /\ n.stamp < clock'
  BY <1>1, <1>t, <1>2, <1>3 DEF StampsApart
<1>5. /\ pc'[w] = state /\ \A v \in Writers : v # w => pc'[v] = pc[v]
  BY <1>1 DEF Goto, TypeOK
<1>6. /\ \A v \in Writers : v # w /\ pc[v] \in {"read", "locked"} => raced'[v]
      /\ \A v \in Writers : raced[v] => raced'[v]
  BY <1>1 DEF Insert, TypeOK
<1> HIDE DEF n
<1>7. \A r \in rows : r.id \in Writers /\ r.id # w /\ r.stamp \in Nat /\ pc[r.id] # "idle"
  BY <1>1 DEF IInv, TypeOK, RowsTold
<1>8. Exists(prev[w]) /\ prev[w] # w /\ (\A r \in rows : r.prev # w)
  BY <1>1, <1>7, ChainAssumption DEF IInv, PrevsExist, Exists, ChainAssumption
<1>9. \A r \in rows : r.prev # prev[w]
  BY DEF Insert, Taken
\* A ledger out of order takes no row ...
<1>10. InOrder /\ Verifies
  <2>1. CASE table = "advice"
    <3>1. ~Taken(prev[w])
      BY DEF Insert
    <3> QED
      BY <1>1, <2>1, <3>1 DEF DisorderInv, DisorderShows, DisorderWedges, VerifyExact
  <2>2. CASE table = "futu_audit"
    BY <1>t, <2>2 DEF FutuIsInOrder, DisorderInv, DisorderShows, VerifyExact
  <2> QED
    BY <1>t, <2>1, <2>2
\* ... and one in order only one that names the head.
<1>11. prev[w] = ChainHead
  BY <1>1, <1>8, <1>9, <1>10, <1>t, OnlyHeadIsFree DEF IInv
<1>12. \A r \in rows : r.stamp # n.stamp
  <2>1. CASE table = "advice"
    BY <1>1, <1>2, <1>3, <1>7, <1>t, <2>1 DEF StampsApart
  <2>2. CASE table = "futu_audit"
    BY <1>2, <1>3, <1>7, <1>t, <2>2 DEF StampsApart
  <2> QED
    BY <1>t, <2>1, <2>2
<1>13. StampsApart'
  <2>1. ASSUME NEW r \in rows' PROVE r.stamp = stamp'[r.id] /\ r.stamp < clock'
    <3>1. CASE r = n
      BY <1>3, <1>4, <3>1
    <3>2. CASE r \in rows
      BY <1>2, <1>7, <1>t, <3>2 DEF StampsApart
    <3> QED
      BY <1>1, <3>1, <3>2
  <2>2. \A r, s \in rows' : r.stamp = s.stamp => r = s
    BY <1>1, <1>12, <1>t DEF StampsApart
  <2>3. table = "advice" => \A u \in Writers : pc'[u] # "idle" =>
          /\ stamp'[u] < clock'
          /\ \A v \in Writers : v # u /\ pc'[v] # "idle" => stamp'[v] # stamp'[u]
    BY <1>1, <1>2, <1>5, <1>t DEF StampsApart
  <2> QED
    BY <1>1, <2>1, <2>2, <2>3 DEF StampsApart
<1>14. HeadIsFresh'
  BY <1>5, <1>6 DEF HeadIsFresh
<1>15. Verifies' => InOrder'
  <2>1. TypeOK' /\ RowsTold'
    BY DEF IInv
  <2> QED
    BY <1>13, <2>1, VerifiedIsInOrder, PTL
\* The row is the newest one: the chain grows at its end.
<1>16. ASSUME \A r \in rows : r.stamp < n.stamp PROVE InOrder' /\ Verifies'
  <2>1. ASSUME NEW r \in rows', NEW s \in rows', s.prev = r.id PROVE r.stamp < s.stamp
    <3>1. CASE r \in rows /\ s \in rows
      BY <1>10, <2>1, <3>1 DEF InOrder
    <3>2. CASE r \in rows /\ s = n
      BY <1>16, <3>2
    <3>3. CASE r = n
      BY <1>1, <1>3, <1>8, <2>1, <3>3
    <3> QED
      BY <1>1, <3>1, <3>2, <3>3
  <2>2. ASSUME NEW r \in rows' PROVE
          LET earlier == {s \in rows' : s.stamp < r.stamp}
          IN  IF earlier = {} THEN r.prev = Genesis
              ELSE \E s \in earlier : r.prev = s.id /\ \A t \in earlier : t.stamp <= s.stamp
    <3>1. CASE r \in rows
      <4>1. {s \in rows' : s.stamp < r.stamp} = {s \in rows : s.stamp < r.stamp}
        BY <1>1, <1>4, <1>7, <1>16, <3>1
      <4> QED
        BY <1>10, <3>1, <4>1 DEF Verifies, Follows
    <3>2. CASE r = n
      <4>1. {s \in rows' : s.stamp < r.stamp} = rows
        BY <1>1, <1>4, <1>16, <3>2
      <4>2. /\ rows = {} => ChainHead = Genesis
            /\ rows # {} => \E s \in rows : s.id = ChainHead /\ \A t \in rows : t.stamp <= s.stamp
        BY <1>1, HeadIsNewest DEF IInv
      <4>3. r.prev = ChainHead
        BY <1>3, <1>11, <3>2
      <4> QED
        BY <4>1, <4>2, <4>3
    <3> QED
      BY <1>1, <3>1, <3>2
  <2>3. Verifies'
    BY <2>2 DEF Verifies, Follows
  <2> QED
    BY <2>1, <2>3 DEF InOrder
\* An older advice comes after a newer one: the newest row is taken, and so is every other.
<1>17. ASSUME NEW late \in rows, ~(late.stamp < n.stamp)
       PROVE  /\ ~InOrder' /\ table = "advice"
              /\ Taken(ChainHead)'
              /\ \A v \in Writers : pc'[v] \in {"read", "locked"} => Taken(prev[v])'
  <2>1. PICK top \in rows : top.id = ChainHead /\ \A s \in rows : s.stamp <= top.stamp
    BY <1>1, <1>17, HeadIsNewest DEF IInv
  <2>2. n.stamp < top.stamp
    BY <1>4, <1>7, <1>12, <1>17, <2>1
  <2>3. n.prev = top.id /\ n \in rows' /\ top \in rows'
    BY <1>1, <1>3, <1>11, <2>1
  <2>4. ~InOrder'
    BY <1>4, <1>7, <2>2, <2>3 DEF InOrder
  <2>5. table = "advice"
    <3>1. CASE table = "futu_audit"
      <4>1. top.stamp < clock /\ n.stamp = clock
        BY <1>2, <1>3, <1>t, <3>1 DEF StampsApart
      <4> QED
        BY <1>7, <1>t, <2>2, <4>1
    <3> QED
      BY <1>t, <3>1
  <2>6. ChainHead' = top.id
    <3> DEFINE newest == CHOOSE r \in rows' : \A s \in rows' : s.stamp <= r.stamp
    <3>1. \A s \in rows' : s.stamp <= top.stamp /\ s.stamp \in Nat
      BY <1>1, <1>4, <1>7, <2>1, <2>2
    <3>2. newest \in rows' /\ \A s \in rows' : s.stamp <= newest.stamp
      BY <2>3, <3>1
    <3>3. ChainHead' = newest.id
      BY <2>3 DEF ChainHead
    <3> HIDE DEF newest
    <3>4. newest.stamp = top.stamp
      BY <2>3, <3>1, <3>2
    <3>5. newest = top
      BY <1>13, <2>3, <3>2, <3>4 DEF StampsApart
    <3> QED
      BY <3>3, <3>5
  <2>7. \E r \in rows' : r.prev = ChainHead'
    BY <2>3, <2>6
  <2>8. ASSUME NEW v \in Writers, pc'[v] \in {"read", "locked"}
        PROVE  \E r \in rows' : r.prev = prev'[v]
    <3>1. v # w /\ pc[v] \in {"read", "locked"} /\ prev'[v] = prev[v]
      BY <1>1, <1>5, <2>8
    <3>2. Exists(prev[v])
      BY <3>1 DEF IInv, PrevsExist
    <3>3. CASE \A r \in rows : r.prev # prev[v]
      <4>1. prev[v] = ChainHead
        BY <1>1, <1>10, <1>t, <3>2, <3>3, OnlyHeadIsFree DEF IInv
      <4> QED
        BY <2>1, <2>3, <3>1, <4>1
    <3>4. CASE \E r \in rows : r.prev = prev[v]
      BY <1>1, <3>1, <3>4
    <3> QED
      BY <3>3, <3>4
  <2> QED
    BY <1>1, <2>4, <2>5, <2>7, <2>8 DEF Taken
<1>18. InOrder' => \A r \in rows : r.stamp < n.stamp
  BY <1>17
<1>19. VerifyExact' /\ FutuIsInOrder' /\ DisorderWedges'
  BY <1>1, <1>t, <1>15, <1>16, <1>17, <1>18 DEF VerifyExact, FutuIsInOrder, DisorderWedges
<1>20. CollisionHasCause'
  <2>1. ASSUME NEW v \in Writers, pc'[v] = "collided" PROVE raced'[v] \/ ~InOrder'
    <3>1. pc[v] = "collided"
      BY <1>5, <2>1
    <3> QED
      BY <1>6, <1>10, <3>1 DEF DisorderInv, DisorderShows, CollisionHasCause
  <2> QED
    BY <2>1 DEF CollisionHasCause
<1> QED
  BY <1>1, <1>13, <1>14, <1>19, <1>20 DEF DisorderInv, DisorderShows

\* A row is inserted in the config log, of which nothing is said but that nobody collides.
LEMMA InsertKeepsConfig ==
    ASSUME IInv, DisorderInv, table = "config_audit", NEW w \in Writers,
           NEW state \in {"done", "failed"}, Insert(w), Goto(w, state)
    PROVE  DisorderInv'
<1>1. UNCHANGED table
  BY DEF Insert
<1>2. \A v \in Writers : pc'[v] # "collided"
  BY DEF DisorderInv, IInv, TypeOK, Goto
<1> QED
  BY <1>1, <1>2 DEF DisorderInv, DisorderShows, VerifyExact, CollisionHasCause, DisorderWedges

LEMMA DisorderStep == IInv /\ IInv' /\ DisorderInv /\ [Next]_vars => DisorderInv'
<1> SUFFICES ASSUME IInv, IInv', DisorderInv, [Next]_vars PROVE DisorderInv'
  OBVIOUS
<1>t. /\ TypeOK /\ stamp' \in [Writers -> Nat] /\ clock' \in Nat
      /\ stamp \in [Writers -> Nat] /\ clock \in Nat
  BY DEF IInv, TypeOK
<1>1. ASSUME NEW w \in Writers, Begin(w) PROVE DisorderInv'
  <2>1. /\ pc[w] = "idle" /\ Goto(w, "ready") /\ UNCHANGED <<table, rows, prev, raced>>
        /\ TakeStamp(w) \/ NoStamp
        /\ table = "advice" => TakeStamp(w)
    BY <1>1 DEF Begin
  <2>2. /\ clock' >= clock /\ \A v \in Writers : v # w => stamp'[v] = stamp[v]
        /\ TakeStamp(w) => stamp'[w] = clock /\ clock' = clock + 1
    BY <1>t, <2>1, StampTyped
  <2>3. "ready" \in States
    BY DEF States
  <2> QED
    BY <1>t, <2>1, <2>2, <2>3, MoveKeepsDisorder
<1>2. ASSUME NEW w \in Writers, ReadHead(w) PROVE DisorderInv'
  <2>1. /\ pc[w] = "ready" /\ Goto(w, "read") /\ UNCHANGED <<table, rows>>
        /\ prev' = [prev EXCEPT ![w] = ChainHead] /\ raced' = [raced EXCEPT ![w] = FALSE]
        /\ TakeStamp(w) \/ NoStamp
        /\ table = "advice" => NoStamp
    BY <1>2 DEF ReadHead
  <2>2. /\ clock' >= clock /\ \A v \in Writers : v # w => stamp'[v] = stamp[v]
        /\ table = "advice" => stamp'[w] = stamp[w]
    BY <1>t, <2>1, StampTyped DEF NoStamp
  <2>3. /\ prev'[w] = ChainHead
        /\ \A v \in Writers : v # w => prev'[v] = prev[v] /\ raced'[v] = raced[v]
    BY <1>t, <2>1 DEF TypeOK
  <2>4. "read" \in States
    BY DEF States
  <2> QED
    BY <1>t, <2>1, <2>2, <2>3, <2>4, MoveKeepsDisorder
<1>3. ASSUME NEW w \in Writers, NEW state \in {"ready", "locked", "collided", "failed"},
             Goto(w, state), UNCHANGED <<table, clock, rows, stamp, prev, raced>>,
             pc[w] \notin {"idle", "done", "failed"},
             state = "locked" => pc[w] = "read",
             state = "collided" => table # "config_audit" /\ (raced[w] \/ ~InOrder)
      PROVE  DisorderInv'
  <2>1. state \in States
    BY DEF States
  <2>2. clock' >= clock
    BY <1>3, <1>t
  <2> QED
    BY <1>3, <1>t, <2>1, <2>2, MoveKeepsDisorder
<1>4. ASSUME NEW w \in Writers, LockHead(w) \/ Retry(w) PROVE DisorderInv'
  BY <1>3, <1>4 DEF LockHead, Retry
<1>5. ASSUME NEW w \in Writers, Collide(w) PROVE DisorderInv'
  <2>1. /\ pc[w] \in {"read", "locked"} /\ Taken(prev[w]) /\ Goto(w, "collided")
        /\ UNCHANGED <<table, clock, rows, stamp, prev, raced>>
    BY <1>5 DEF Collide, ReadyToInsert
  <2>2. table # "config_audit" /\ \E r \in rows : r.prev = prev[w]
    BY <2>1 DEF Taken
  <2>3. ASSUME ~raced[w], InOrder PROVE FALSE
    <3>1. prev[w] = ChainHead
      BY <2>1, <2>2, <2>3 DEF DisorderInv, HeadIsFresh
    <3>2. PICK r \in rows : r.prev = ChainHead
      BY <2>2, <3>1
    <3>3. PICK top \in rows : top.id = ChainHead /\ \A s \in rows : s.stamp <= top.stamp
      BY <1>t, <3>2, HeadIsNewest DEF IInv
    <3>4. top.stamp < r.stamp /\ r.stamp <= top.stamp /\ top.stamp \in Nat /\ r.stamp \in Nat
      BY <1>t, <2>3, <3>2, <3>3 DEF InOrder, TypeOK
    <3> QED
      BY <3>4
  <2>4. raced[w] \/ ~InOrder
    BY <2>3
  <2> QED
    BY <1>3, <2>1, <2>2, <2>4
<1>6. ASSUME NEW w \in Writers, NEW state \in {"done", "failed"}, Insert(w), Goto(w, state)
      PROVE  DisorderInv'
  BY <1>6, InsertKeepsVerdicts, InsertKeepsConfig
<1>7. ASSUME NEW w \in Writers, Commit(w) \/ Fail(w) PROVE DisorderInv'
  <2>1. CASE Insert(w)
    BY <1>6, <1>7, <2>1 DEF Commit, Fail
  <2>2. CASE Fail(w) /\ UNCHANGED <<table, clock, rows, stamp, prev, raced>>
    BY <1>3, <2>2 DEF Fail
  <2> QED
    BY <1>7, <2>1, <2>2 DEF Commit, Fail
<1>8. CASE UNCHANGED vars
  <2>1. UNCHANGED <<table, clock, rows, pc, stamp, prev, raced>>
    BY <1>8 DEF vars
  <2>2. /\ Verifies' <=> Verifies
        /\ InOrder' <=> InOrder
        /\ ChainHead' = ChainHead
        /\ \A p : Taken(p)' <=> Taken(p)
    BY <2>1, SameRowsSameVerdicts
  <2>3. DisorderShows'
    BY <2>1, <2>2 DEF DisorderInv, DisorderShows, VerifyExact, CollisionHasCause, DisorderWedges, Taken
  <2> QED
    BY <2>1, <2>2, <2>3 DEF DisorderInv, StampsApart, HeadIsFresh, FutuIsInOrder
<1> QED
  BY <1>1, <1>2, <1>4, <1>5, <1>7, <1>8 DEF Next

\* verify_chain accuses a ledger nobody has touched exactly when its rows are not in the
\* order of their stamps, an append that nobody raced collides only then, and an advice
\* ledger that is out of order takes no further row: for any number of appends.
THEOREM DisorderIsSeen == Spec => []DisorderShows
<1>1. Init => DisorderInv
  BY DEF Init, Tables, DisorderInv, DisorderShows, VerifyExact, Verifies, InOrder, CollisionHasCause,
         DisorderWedges, StampsApart, HeadIsFresh, FutuIsInOrder
<1>2. DisorderInv => DisorderShows
  BY DEF DisorderInv
<1> QED
  BY <1>1, <1>2, DisorderStep, ChainInvariant, PTL DEF Spec
-----------------------------------------------------------------------------
(* The callers.                                                            *)

\* The admin API, the merger and the Futu client do with a ledger only what HashChain
\* allows: what is proved of it above holds of them.
THEOREM CallersImplementChain == CallersSpec => Spec
<1>1. CallersInit => Init
  BY DEF CallersInit
<1>2. [CallersNext]_callersVars => [Next]_vars
  <2> SUFFICES ASSUME [CallersNext]_callersVars PROVE Next \/ UNCHANGED vars
    OBVIOUS
  <2>1. CASE LimitRate \/ Quarantine \/ MinutePasses
    BY <2>1 DEF LimitRate, Quarantine, MinutePasses
  <2>2. ASSUME NEW w \in Writers, ApplyFile(w) \/ RotateSecret(w) \/ Request(w) PROVE Next
    BY <2>2 DEF ApplyFile, RotateSecret, Request, Next
  <2>3. ASSUME NEW w \in Writers, RefuseHash(w) PROVE Next
    BY <2>3 DEF RefuseHash, Fail, Next
  <2>4. ASSUME NEW w \in Writers, Merge(w) PROVE Next
    BY <2>4 DEF Merge, Next
  <2>5. ASSUME NEW w \in Writers, CallOpenD(w) \/ Mark(w) PROVE UNCHANGED vars
    BY <2>5 DEF CallOpenD, Mark
  <2>6. ASSUME NEW w \in Writers, AppendStep(w) PROVE Next
    BY <2>6 DEF AppendStep, Next
  <2>7. ASSUME NEW w \in Writers, AppendDies(w) PROVE Next
    BY <2>7 DEF AppendDies, Next
  <2>8. CASE UNCHANGED callersVars
    BY <2>8 DEF callersVars
  <2> QED
    BY <2>1, <2>2, <2>3, <2>4, <2>5, <2>6, <2>7, <2>8 DEF CallersNext
<1> QED
  BY <1>1, <1>2, PTL DEF CallersSpec, Spec

\* An edit is under way or over once it has replaced its file; the texts on the way from
\* the original to what the file holds are each replaced by one edit.
Edits == replaced \ Rotations

OneLine ==
    table = "config_audit" =>
        /\ \A w \in Writers : pc[w] # "idle" => w \in replaced
        /\ \A r \in rows : r.id \in Edits
        /\ \A w \in Edits : before[w] \in replaced \cup {Original} /\ before[w] # file
        /\ \A v, w \in Edits : v # w => before[v] # before[w]
        /\ file \in replaced \cup {Original}

IdleUntouched == table = "config_audit" => \A w \in replaced : pc[w] # "idle"

\* A call that has been made, or may be made, has its row.
CallsLogged ==
    /\ \A w \in Writers : answer[w] # "none" => HasRow(w)
    /\ \A w \in Writers : pc[w] = "done" => HasRow(w)
    /\ \A w \in Writers : status[w] \in {"ok", "error"} => status[w] = answer[w]

CallersTyped ==
    /\ before \in [Writers -> Writers \cup {Original}]
    /\ replaced \subseteq Writers
    /\ answer \in [Writers -> {"none", "ok", "error"}]
    /\ status \in [Writers -> {"none", "pending", "ok", "error"}]

\* A writer has one row at most, and is over when it has it.
RowsOver ==
    /\ \A r \in rows : pc[r.id] \in {"done", "failed"}
    /\ \A r, s \in rows : r.id = s.id => r = s

CallersInv == TypeOK /\ CallersTyped /\ RowsOver /\ OneLine /\ IdleUntouched /\ CallsLogged

\* An append moves its writer on, and adds at most its writer's row.
LEMMA AppendMoves ==
    ASSUME NEW w \in Writers, AppendStep(w) \/ AppendDies(w)
    PROVE  /\ table' = table /\ UNCHANGED adminVars /\ UNCHANGED answer /\ RowAppears
           /\ pc[w] \notin {"idle", "done", "failed"}
           /\ \E x \in States \ {"idle"} :
                /\ pc' = [pc EXCEPT ![w] = x]
                /\ x = "done" => rows' = rows \cup {Row(w)}
                /\ \/ rows' = rows
                   \/ rows' = rows \cup {Row(w)} /\ IsHex(w) /\ x \in {"done", "failed"}
<1>1. ASSUME ReadHead(w) \/ LockHead(w) \/ Collide(w), AppendStep(w)
      PROVE  /\ pc[w] \notin {"idle", "done", "failed"} /\ rows' = rows /\ table' = table
             /\ \E x \in {"read", "locked", "collided"} : pc' = [pc EXCEPT ![w] = x]
  <2>1. /\ pc[w] \notin {"idle", "done", "failed"} /\ rows' = rows /\ table' = table
        /\ \/ pc' = [pc EXCEPT ![w] = "read"] \/ pc' = [pc EXCEPT ![w] = "locked"]
           \/ pc' = [pc EXCEPT ![w] = "collided"]
    BY <1>1 DEF ReadHead, LockHead, Collide, ReadyToInsert, Goto
  <2> QED
    BY <2>1
<1>2. CASE (ReadHead(w) \/ LockHead(w) \/ Collide(w)) /\ AppendStep(w)
  <2>1. PICK x \in {"read", "locked", "collided"} : pc' = [pc EXCEPT ![w] = x]
    BY <1>1, <1>2
  <2>2. x \in States \ {"idle"} /\ x # "done"
    BY DEF States
  <2>3. UNCHANGED adminVars /\ UNCHANGED answer /\ RowAppears
    BY <1>2 DEF AppendStep
  <2> QED
    BY <1>1, <1>2, <2>1, <2>2, <2>3
<1>3. CASE IsHex(w) /\ Commit(w) /\ AppendStep(w)
  BY <1>3 DEF Commit, Insert, AppendStep, Goto, States, adminVars, ReadyToInsert
<1>4. CASE AppendDies(w)
  <2>1. Fail(w)
    BY <1>4 DEF AppendDies
  <2>2. CASE Insert(w)
    BY <1>4, <2>1, <2>2 DEF Fail, Insert, AppendDies, Goto, States, adminVars
  <2>3. CASE UNCHANGED <<table, clock, rows, stamp, prev, raced>>
    BY <1>4, <2>1, <2>3 DEF Fail, AppendDies, Goto, States, adminVars
  <2> QED
    BY <2>1, <2>2, <2>3 DEF Fail
<1> QED
  BY <1>2, <1>3, <1>4 DEF AppendStep

LEMMA AppendKeepsCallers ==
    ASSUME CallersInv, TypeOK', NEW w \in Writers, AppendStep(w) \/ AppendDies(w)
    PROVE  CallersInv'
<1> USE DEF CallersInv
<1>1. PICK x \in States \ {"idle"} :
        /\ pc' = [pc EXCEPT ![w] = x]
        /\ x = "done" => rows' = rows \cup {Row(w)}
        /\ \/ rows' = rows
           \/ rows' = rows \cup {Row(w)} /\ IsHex(w) /\ x \in {"done", "failed"}
  BY AppendMoves
<1>2. \A v \in Writers : pc'[v] = IF v = w THEN x ELSE pc[v]
  BY <1>1 DEF TypeOK
<1>3. /\ table' = table /\ file' = file /\ before' = before /\ replaced' = replaced
      /\ answer' = answer /\ RowAppears /\ pc[w] \notin {"idle", "done", "failed"}
  BY AppendMoves DEF adminVars
<1>4. \A r \in rows' : r \in rows \/ (r = Row(w) /\ r.id = w /\ IsHex(w))
  BY <1>1 DEF Row
<1>5. rows \subseteq rows' /\ (x = "done" => \E r \in rows' : r.id = w)
  <2>1. x = "done" => Row(w) \in rows' /\ Row(w).id = w
    BY <1>1 DEF Row
  <2> QED
    BY <1>1, <2>1
<1>6. CallersTyped'
  BY <1>3 DEF CallersTyped, RowAppears
<1>7. OneLine'
  <2>1. table = "config_audit" /\ IsHex(w) => w \in Edits
    BY <1>3 DEF OneLine, IsHex, Edits
  <2> QED
    BY <1>2, <1>3, <1>4, <2>1 DEF OneLine, Edits
<1>8. IdleUntouched'
  BY <1>2, <1>3 DEF IdleUntouched, CallersTyped, States
<1>9. CallsLogged'
  <2>1. \A v \in Writers : HasRow(v) => HasRow(v)'
    BY <1>5 DEF HasRow
  <2>2. \A v \in Writers : status'[v] \in {"ok", "error"} => status'[v] = status[v]
    BY <1>3 DEF RowAppears
  <2>3. \A v \in Writers : pc'[v] = "done" => HasRow(v)'
    BY <1>2, <1>5, <2>1 DEF CallsLogged, HasRow
  <2> QED
    BY <1>3, <2>1, <2>2, <2>3 DEF CallsLogged
<1>10. RowsOver'
  <2>1. \A r \in rows : r.id # w
    BY <1>3 DEF RowsOver
  <2>2. \A r, s \in rows' : r.id = s.id => r = s
    BY <1>4, <2>1 DEF RowsOver
  <2>3. \A r \in rows : r.id \in Writers
    BY DEF TypeOK
  <2>4. \A r \in rows : pc'[r.id] = pc[r.id]
    BY <1>2, <2>1, <2>3
  <2>5. rows' # rows => pc'[w] \in {"done", "failed"}
    BY <1>1, <1>2
  <2>6. \A r \in rows' : pc'[r.id] \in {"done", "failed"}
    BY <1>4, <2>4, <2>5 DEF RowsOver
  <2> QED
    BY <2>2, <2>6 DEF RowsOver
<1> QED
  BY <1>6, <1>7, <1>8, <1>9, <1>10

\* A step that calls append.
LEMMA BeginKeepsCallers ==
    ASSUME CallersInv, TypeOK', NEW w \in Writers,
           ApplyFile(w) \/ RotateSecret(w) \/ Request(w) \/ Merge(w)
    PROVE  CallersInv'
<1> USE DEF CallersInv
<1>1. /\ table' = table /\ rows' = rows /\ answer' = answer /\ status' = status
      /\ pc[w] \in {"idle", "collided"}
      /\ pc' = [pc EXCEPT ![w] = "ready"]
  BY DEF ApplyFile, RotateSecret, Request, Merge, Begin, Retry, Goto, callerVars, futuVars
<1>2. \A v \in Writers : pc'[v] = IF v = w THEN "ready" ELSE pc[v]
  BY <1>1 DEF TypeOK
<1>3. CallsLogged' /\ RowsOver'
  <2>1. \A r \in rows : r.id \in Writers /\ r.id # w
    BY <1>1 DEF TypeOK, RowsOver
  <2> QED
    BY <1>1, <1>2, <2>1 DEF CallsLogged, HasRow, RowsOver
<1>4. CASE table # "config_audit"
  <2>1. before' = before /\ replaced' = replaced
    BY <1>4 DEF ApplyFile, RotateSecret, Request, Merge, callerVars, adminVars
  <2> QED
    BY <1>1, <1>3, <1>4, <2>1 DEF CallersTyped, OneLine, IdleUntouched
<1>5. CASE table = "config_audit"
  <2>1. w \notin replaced /\ replaced' = replaced \cup {w}
    BY <1>5 DEF ApplyFile, ReplaceFile, RotateSecret, Request, Merge, Begin, IdleUntouched
  <2>2. CASE ApplyFile(w)
    <3>1. w \notin Rotations /\ file' = w /\ before' = [before EXCEPT ![w] = file]
      BY <2>2 DEF ApplyFile, ReplaceFile
    <3>2. Edits' = Edits \cup {w}
      BY <2>1, <3>1 DEF Edits
    <3>3. \A v \in Writers : before'[v] = IF v = w THEN file ELSE before[v]
      BY <3>1 DEF CallersTyped
    <3>4. file \in replaced \cup {Original} /\ w # Original
      BY <1>5, CallersAssumption DEF OneLine, CallersAssumption
    <3>5. \A v \in Edits : v \in Writers /\ v # w /\ before'[v] = before[v]
      BY <2>1, <3>3 DEF Edits, CallersTyped
    <3>6. /\ \A v \in Edits : before[v] \in replaced \cup {Original} /\ before[v] # file
          /\ \A u, v \in Edits : u # v => before[u] # before[v]
          /\ \A v \in Writers : pc[v] # "idle" => v \in replaced
          /\ \A r \in rows : r.id \in Edits
      BY <1>5 DEF OneLine
    <3>7. \A v \in Edits' : before'[v] \in replaced' \cup {Original} /\ before'[v] # file'
      BY <2>1, <3>1, <3>2, <3>3, <3>4, <3>5, <3>6
    <3>8. \A u, v \in Edits' : u # v => before'[u] # before'[v]
      BY <3>2, <3>3, <3>5, <3>6
    <3>9. OneLine'
      BY <1>1, <1>2, <2>1, <3>1, <3>2, <3>6, <3>7, <3>8 DEF OneLine
    <3>10. CallersTyped'
      BY <1>1, <2>1, <3>1, <3>4 DEF CallersTyped
    <3> QED
      BY <1>1, <1>2, <1>3, <2>1, <3>9, <3>10 DEF IdleUntouched, CallersTyped
  <2>3. CASE RotateSecret(w)
    <3>1. w \in Rotations /\ file' = file /\ before' = before
      BY <2>3 DEF RotateSecret
    <3>2. Edits' = Edits
      BY <2>1, <3>1 DEF Edits
    <3>3. OneLine'
      BY <1>1, <1>2, <2>1, <3>1, <3>2 DEF OneLine
    <3> QED
      BY <1>1, <1>2, <1>3, <2>1, <3>1, <3>3 DEF IdleUntouched, CallersTyped
  <2> QED
    BY <1>5, <2>2, <2>3 DEF Request, Merge
<1> QED
  BY <1>4, <1>5

\* An append that has returned left its row, and one that failed died or was refused.
EndsHaveCause ==
    \A w \in Writers :
        /\ pc[w] = "done" => HasRow(w)
        /\ pc[w] = "failed" => w \in crashed \cup Rotations

LEMMA EndsStayCaused ==
    ASSUME EndsHaveCause, TypeOK, [CallersNext]_callersVars
    PROVE  EndsHaveCause'
<1>1. SUFFICES ASSUME NEW v \in Writers
               PROVE  /\ pc'[v] = "done" => HasRow(v)'
                      /\ pc'[v] = "failed" => v \in crashed' \cup Rotations
  BY DEF EndsHaveCause
<1>2. ASSUME pc'[v] = pc[v], rows \subseteq rows', crashed \subseteq crashed'
      PROVE  /\ pc'[v] = "done" => HasRow(v)'
             /\ pc'[v] = "failed" => v \in crashed' \cup Rotations
  BY <1>2 DEF EndsHaveCause, HasRow
<1>3. CASE LimitRate \/ Quarantine \/ MinutePasses \/ UNCHANGED callersVars
  BY <1>2, <1>3 DEF LimitRate, Quarantine, MinutePasses, callersVars, callerVars, vars
<1>4. ASSUME NEW w \in Writers, ApplyFile(w) \/ RotateSecret(w) \/ Request(w) \/ Merge(w)
      PROVE  /\ pc'[v] = "done" => HasRow(v)'
             /\ pc'[v] = "failed" => v \in crashed' \cup Rotations
  <2>1. rows' = rows /\ crashed' = crashed /\ pc' = [pc EXCEPT ![w] = "ready"]
    BY <1>4 DEF ApplyFile, RotateSecret, Request, Merge, Begin, Retry, Goto, callerVars
  <2> QED
    BY <1>2, <2>1 DEF TypeOK
<1>5. ASSUME NEW w \in Writers, RefuseHash(w)
      PROVE  /\ pc'[v] = "done" => HasRow(v)'
             /\ pc'[v] = "failed" => v \in crashed' \cup Rotations
  <2>1. /\ rows' = rows /\ crashed' = crashed /\ w \in Rotations
        /\ pc' = [pc EXCEPT ![w] = "failed"]
    BY <1>5 DEF RefuseHash, IsHex, Goto, callerVars
  <2> QED
    BY <1>2, <2>1 DEF TypeOK
<1>6. ASSUME NEW w \in Writers, CallOpenD(w) \/ Mark(w)
      PROVE  /\ pc'[v] = "done" => HasRow(v)'
             /\ pc'[v] = "failed" => v \in crashed' \cup Rotations
  BY <1>2, <1>6 DEF CallOpenD, Mark, vars
<1>7. ASSUME NEW w \in Writers, AppendStep(w)
      PROVE  /\ pc'[v] = "done" => HasRow(v)'
             /\ pc'[v] = "failed" => v \in crashed' \cup Rotations
  <2>1. crashed' = crashed
    BY <1>7 DEF AppendStep
  <2>2. CASE Commit(w)
    <3>1. rows' = rows \cup {Row(w)} /\ pc' = [pc EXCEPT ![w] = "done"]
      BY <2>2 DEF Commit, Insert, Goto
    <3>2. Row(w).id = w
      BY DEF Row
    <3> QED
      BY <1>2, <2>1, <3>1, <3>2 DEF HasRow, TypeOK
  <2>3. CASE ReadHead(w) \/ LockHead(w) \/ Collide(w)
    <3>1. rows' = rows
      BY <2>3 DEF ReadHead, LockHead, Collide
    <3>2. \E s \in {"read", "locked", "collided"} : pc' = [pc EXCEPT ![w] = s]
      BY <2>3 DEF ReadHead, LockHead, Collide, Goto
    <3> QED
      BY <1>2, <2>1, <3>1, <3>2 DEF TypeOK
  <2> QED
    BY <1>7, <2>2, <2>3 DEF AppendStep
<1>8. ASSUME NEW w \in Writers, AppendDies(w)
      PROVE  /\ pc'[v] = "done" => HasRow(v)'
             /\ pc'[v] = "failed" => v \in crashed' \cup Rotations
  <2>1. crashed' = crashed \cup {w} /\ pc' = [pc EXCEPT ![w] = "failed"]
    BY <1>8 DEF AppendDies, Fail, Goto
  <2>2. rows \subseteq rows'
    BY <1>8 DEF AppendDies, Fail, Insert
  <2> QED
    BY <1>2, <2>1, <2>2 DEF TypeOK
<1> QED
  BY <1>3, <1>4, <1>5, <1>6, <1>7, <1>8 DEF CallersNext

\* What the callers add holds of every state they reach: an edit that is over has its row
\* or a cause of having none, and a call that was made has been logged.
LEMMA CallersHold == CallersSpec => [](CallersInv /\ EndsHaveCause)
<1>1. CallersInit => CallersInv
  BY DEF CallersInit, Init, CallersInv, TypeOK, Tables, States, CallersTyped, OneLine, Edits,
         IdleUntouched, RowsOver, CallsLogged, HasRow
<1>2. CallersInv /\ TypeOK' /\ [CallersNext]_callersVars => CallersInv'
  <2> SUFFICES ASSUME CallersInv, TypeOK', [CallersNext]_callersVars PROVE CallersInv'
    OBVIOUS
  <2> USE DEF CallersInv
  <2>1. CASE LimitRate \/ Quarantine \/ MinutePasses \/ UNCHANGED callersVars
    <3>1. UNCHANGED <<table, rows, pc, adminVars, futuVars>>
      BY <2>1 DEF LimitRate, Quarantine, MinutePasses, callersVars, callerVars, vars
    <3> QED
      BY <3>1 DEF adminVars, futuVars, CallersTyped, OneLine, Edits, IdleUntouched, RowsOver, CallsLogged,
                  HasRow
  <2>2. ASSUME NEW w \in Writers, RefuseHash(w) PROVE CallersInv'
    <3>1. /\ UNCHANGED <<table, rows, adminVars, futuVars>>
          /\ pc[w] = "read" /\ pc' = [pc EXCEPT ![w] = "failed"]
      BY <2>2 DEF RefuseHash, Goto, callerVars
    <3>2. \A v \in Writers : pc'[v] = IF v = w THEN "failed" ELSE pc[v]
      BY <3>1 DEF TypeOK
    <3> QED
      BY <3>1, <3>2 DEF adminVars, futuVars, CallersTyped, OneLine, Edits, IdleUntouched,
                        RowsOver, CallsLogged, HasRow, TypeOK
  <2>3. ASSUME NEW w \in Writers, CallOpenD(w) PROVE CallersInv'
    <3>1. PICK a \in {"ok", "error"} : answer' = [answer EXCEPT ![w] = a]
      BY <2>3 DEF CallOpenD
    <3>2. /\ UNCHANGED <<table, rows, pc, adminVars, status>>
          /\ pc[w] = "done" /\ answer[w] = "none"
      BY <2>3 DEF CallOpenD, MayCall, vars
    <3>3. status[w] \notin {"ok", "error"}
      BY <3>2 DEF CallsLogged
    <3> QED
      BY <3>1, <3>2, <3>3 DEF adminVars, CallersTyped, OneLine, Edits, IdleUntouched,
                              RowsOver, CallsLogged, HasRow
  <2>4. ASSUME NEW w \in Writers, Mark(w) PROVE CallersInv'
    <3>1. /\ UNCHANGED <<table, rows, pc, adminVars, answer>>
          /\ status' = [status EXCEPT ![w] = answer[w]]
      BY <2>4 DEF Mark, vars
    <3> QED
      BY <3>1 DEF adminVars, CallersTyped, OneLine, Edits, IdleUntouched, RowsOver, CallsLogged, HasRow
  <2> QED
    BY <2>1, <2>2, <2>3, <2>4, AppendKeepsCallers, BeginKeepsCallers DEF CallersNext
<1>3. CallersSpec => []TypeOK
  BY CallersImplementChain, ChainTypeCorrect, PTL
<1>4. CallersInit => EndsHaveCause
  BY DEF CallersInit, Init, EndsHaveCause
<1>5. EndsHaveCause /\ TypeOK /\ [CallersNext]_callersVars => EndsHaveCause'
  BY EndsStayCaused
<1> QED
  BY <1>1, <1>2, <1>3, <1>4, <1>5, PTL DEF CallersSpec

\* Whatever the interleaving of edits and appends, the rows of the config log tell one
\* line of edits, and an edit without a row is a rotation or died: for any number of edits.
THEOREM EditsAreTold == CallersSpec => []TrailTellsEdits
<1>1. CallersInv /\ EndsHaveCause => TrailTellsEdits
  BY DEF CallersInv, CallersTyped, OneLine, RowsOver, EndsHaveCause,
         EditsFormOneLine, UnauditedHasCause, TrailTellsEdits
<1> QED
  BY <1>1, CallersHold, PTL

\* No call reaches OpenD that is not logged, and no row says of a call what it was not:
\* for any number of calls, whichever of them die.
THEOREM CallsAreLogged == CallersSpec => []AuditTellsCalls
<1>1. CallersInv => AuditTellsCalls
  BY DEF CallersInv, CallsLogged, AuditTellsCalls
<1> QED
  BY <1>1, CallersHold, PTL

\* What is proved of a chain holds of the ledgers its callers fill: an order that went
\* wrong is seen by the verification, and a fork has two appends that raced.
THEOREM LedgersShowDisorder == CallersSpec => [](DisorderShows /\ ForkNeedsRace)
  BY CallersImplementChain, DisorderIsSeen, ForksOnlyByRace, PTL
=============================================================================
