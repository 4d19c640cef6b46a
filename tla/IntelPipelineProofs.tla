------------------------ MODULE IntelPipelineProofs ------------------------
(* What the two gates owe the reader: for any set of stories, any          *)
(* similarity, any number of runs and wherever they fail, a story is       *)
(* dropped only because of one that was kept.                              *)
EXTENDS IntelPipeline, TLAPS

States == {"idle", "loop", "search", "index", "store", "done", "failed"}

\* The part of the types the argument needs, and: one story in hand at most,
\* none between two rounds of the loop.
HandsOK ==
    /\ pc \in [Runs -> States]
    /\ hand \in [Runs -> SUBSET Items]
    /\ \A r \in Runs : pc[r] \in {"idle", "loop", "done"} => hand[r] = {}
    /\ \A r \in Runs : \A i, j \in hand[r] : i = j

\* Held itself, or next to one that is kept.
Covered(i) == Held(i) \/ \E j \in Items : <<i, j>> \in Similar /\ Kept(j)

\* An entry of the index is there because its story is kept.
IndexIsKept == \A e \in index : e.item \in Items /\ Kept(e.item)

\* A claimed key stands for a story that is covered: this is what the hash gate
\* relies on when it drops the story again.
KeysAreCovered == \A k \in keys : k.item \in Items /\ Covered(k.item)

DropsInItems == dropped \subseteq Items

Inv == HandsOK /\ IndexIsKept /\ KeysAreCovered /\ DropsInItems /\ DropsAreCovered

(* No step loses a story that is kept, and a story that is held is covered *)
(* after every step: these two facts carry every conjunct of Inv over.     *)
KeepsKept == \A j \in Items : Kept(j) => Kept(j)'
KeepsHeld == \A j \in Items : Held(j) => Covered(j)'

\* What a step adds: index entries of kept stories, keys and drops of covered ones.
AddsWell ==
    /\ \A e \in index' : e \in index \/ (e.item \in Items /\ Kept(e.item)')
    /\ \A k \in keys' : k \in keys \/ (k.item \in Items /\ Covered(k.item)')
    /\ \A i \in dropped' : i \in dropped \/ (i \in Items /\ Covered(i)')

\* A step that keeps what is kept and covered, and adds only such, preserves Inv.
LEMMA CarriedOver ==
  ASSUME Inv, KeepsKept, KeepsHeld, AddsWell, HandsOK'
  PROVE  Inv'
<1>1. \A i \in Items : Covered(i) => Covered(i)'
  BY DEF KeepsKept, KeepsHeld, Covered
<1>2. IndexIsKept'
  BY DEF Inv, KeepsKept, AddsWell, IndexIsKept
<1>3. KeysAreCovered'
  BY <1>1 DEF Inv, AddsWell, KeysAreCovered
<1>4. DropsInItems'
  BY DEF Inv, AddsWell, DropsInItems
<1>5. \A i \in dropped' : Covered(i)'
  BY <1>1 DEF Inv, AddsWell, DropsAreCovered, DropsInItems, Covered
<1>6. DropsAreCovered'
  BY <1>5 DEF DropsAreCovered, Covered
<1> QED
  BY <1>2, <1>3, <1>4, <1>6 DEF Inv

\* Every action of Next is of the kind CarriedOver asks for.
LEMMA StepKeeps ==
  ASSUME Inv, Next
  PROVE  KeepsKept /\ KeepsHeld /\ AddsWell /\ HandsOK'
<1>1. CASE Tick
  BY <1>1 DEF Tick, Inv, HandsOK, KeepsKept, KeepsHeld, AddsWell, Kept, Held, Covered
<1>2. ASSUME NEW r \in Runs, Start(r)
      PROVE  KeepsKept /\ KeepsHeld /\ AddsWell /\ HandsOK'
  <2>1. HandsOK'
    BY <1>2 DEF Start, Inv, HandsOK, States
  <2>2. KeepsKept
    BY <1>2 DEF Start, Inv, HandsOK, KeepsKept, Kept
  <2>3. KeepsHeld
    BY <1>2, <2>2 DEF Start, Inv, HandsOK, KeepsKept, KeepsHeld, Held, Covered
  <2> QED  BY <1>2, <2>1, <2>2, <2>3 DEF Start, AddsWell
<1>3. ASSUME NEW r \in Runs, NextSource(r)
      PROVE  KeepsKept /\ KeepsHeld /\ AddsWell /\ HandsOK'
  BY <1>3 DEF NextSource, Inv, HandsOK, KeepsKept, KeepsHeld, AddsWell, Kept, Held, Covered
<1>4. ASSUME NEW r \in Runs, NEW i \in Items, Claim(r, i)
      PROVE  KeepsKept /\ KeepsHeld /\ AddsWell /\ HandsOK'
  <2>1. CASE \E k \in keys : k.item = i /\ k.stamp = Stamp(i, r)
    <3>1. UNCHANGED <<pc, hand, keys, index, rows>> /\ dropped' = dropped \union {i}
      BY <1>4, <2>1 DEF Claim
    <3>2. KeepsKept /\ HandsOK'
      BY <3>1 DEF Inv, HandsOK, KeepsKept, Kept
    <3>3. KeepsHeld
      BY <3>1 DEF KeepsHeld, Held, Kept, Covered
    <3>4. Covered(i)
      BY <2>1 DEF Inv, KeysAreCovered
    <3>5. Covered(i)'
      BY <3>1, <3>4 DEF Covered, Held, Kept
    <3> QED  BY <3>1, <3>2, <3>3, <3>5 DEF AddsWell
  <2>2. CASE ~ \E k \in keys : k.item = i /\ k.stamp = Stamp(i, r)
    <3>1. /\ pc[r] = "loop"
          /\ pc' = [pc EXCEPT ![r] = "search"] /\ hand' = [hand EXCEPT ![r] = {i}]
          /\ UNCHANGED <<index, rows, dropped>>
          /\ keys' = keys \union {[item |-> i, stamp |-> Stamp(i, r), day |-> day]}
      BY <1>4, <2>2 DEF Claim
    <3>2. HandsOK'
      BY <3>1 DEF Inv, HandsOK, States
    <3>3. KeepsKept
      BY <3>1 DEF Inv, HandsOK, KeepsKept, Kept
    <3>4. \A j \in Items : Held(j) => Held(j)'
      BY <3>1, <3>3 DEF Inv, HandsOK, KeepsKept, Held
    <3>5. Held(i)'
      BY <3>1 DEF Inv, HandsOK, Held
    <3> QED  BY <3>1, <3>2, <3>3, <3>4, <3>5 DEF KeepsHeld, AddsWell, Covered
  <2> QED  BY <2>1, <2>2
<1>5. ASSUME NEW r \in Runs, Search(r)
      PROVE  KeepsKept /\ KeepsHeld /\ AddsWell /\ HandsOK'
  <2> PICK i \in hand[r] :
        \/ /\ Visible(i, crawled[r]) # {} /\ dropped' = dropped \union {i}
           /\ hand' = [hand EXCEPT ![r] = {}] /\ pc' = [pc EXCEPT ![r] = "loop"]
        \/ pc' = [pc EXCEPT ![r] = "index"] /\ UNCHANGED <<dropped, hand>>
    BY <1>5 DEF Search
  <2>0. pc[r] = "search" /\ UNCHANGED <<index, keys, rows>> /\ i \in Items
    BY <1>5 DEF Search, Inv, HandsOK
  <2>1. HandsOK'
    BY <2>0 DEF Inv, HandsOK, States
  <2>2. KeepsKept
    BY <2>0 DEF Inv, HandsOK, KeepsKept, Kept
  <2>3. CASE hand' = hand
    <3>1. pc' = [pc EXCEPT ![r] = "index"] /\ dropped' = dropped
      BY <2>0, <2>3 DEF Inv, HandsOK
    <3>2. \A j \in Items : Held(j) => Held(j)'
      BY <2>0, <2>2, <2>3, <3>1 DEF Inv, HandsOK, KeepsKept, Held
    <3> QED  BY <2>0, <2>1, <2>2, <3>1, <3>2 DEF KeepsHeld, AddsWell, Covered
  <2>4. CASE hand' # hand
    <3>1. /\ Visible(i, crawled[r]) # {} /\ dropped' = dropped \union {i}
          /\ hand' = [hand EXCEPT ![r] = {}] /\ pc' = [pc EXCEPT ![r] = "loop"]
      BY <2>4
    <3>2. PICK e \in index : <<i, e.item>> \in Similar
      BY <3>1 DEF Visible
    <3>3. e.item \in Items /\ Kept(e.item)'
      BY <3>2, <2>2 DEF Inv, IndexIsKept, KeepsKept
    <3>4. Covered(i)'
      BY <3>2, <3>3 DEF Covered
    <3>5. \A j \in Items : Held(j) => Held(j)' \/ j = i
      BY <2>0, <2>2, <3>1 DEF Inv, HandsOK, KeepsKept, Held
    <3>6. KeepsHeld
      BY <3>4, <3>5 DEF KeepsHeld, Covered
    <3> QED  BY <2>0, <2>1, <2>2, <3>1, <3>4, <3>6 DEF AddsWell
  <2> QED  BY <2>3, <2>4
<1>6. ASSUME NEW r \in Runs, IndexInsert(r)
      PROVE  KeepsKept /\ KeepsHeld /\ AddsWell /\ HandsOK'
  <2>0. /\ pc[r] = "index" /\ pc' = [pc EXCEPT ![r] = "store"]
        /\ UNCHANGED <<hand, keys, rows, dropped>>
        /\ index' = index \union {[item |-> i, day |-> crawled[r]] : i \in hand[r]}
    BY <1>6 DEF IndexInsert
  <2>1. HandsOK'
    BY <2>0 DEF Inv, HandsOK, States
  <2>2. KeepsKept
    BY <2>0 DEF Inv, HandsOK, KeepsKept, Kept
  <2>3. \A i \in hand[r] : i \in Items /\ Kept(i)'
    BY <2>0 DEF Inv, HandsOK, Kept
  <2>4. \A j \in Items : Held(j) => Held(j)'
    BY <2>0, <2>2, <2>3 DEF Inv, HandsOK, KeepsKept, Held
  <2>5. \A e \in index' : e \in index \/ (e.item \in Items /\ Kept(e.item)')
    BY <2>0, <2>3
  <2> QED  BY <2>0, <2>1, <2>2, <2>4, <2>5 DEF KeepsHeld, AddsWell, Covered
<1>7. ASSUME NEW r \in Runs, Store(r)
      PROVE  KeepsKept /\ KeepsHeld /\ AddsWell /\ HandsOK'
  <2>0. /\ pc[r] = "store" /\ pc' = [pc EXCEPT ![r] = "loop"]
        /\ hand' = [hand EXCEPT ![r] = {}] /\ UNCHANGED <<keys, index, dropped>>
    BY <1>7 DEF Store
  <2>1. PICK i \in hand[r] : \E s \in RowStamps(i, r) :
          rows' = IF \E w \in rows : w.item = i /\ w.stamp = s
                  THEN rows
                  ELSE rows \union {[item |-> i, stamp |-> s, run |-> r, day |-> crawled[r]]}
    BY <1>7 DEF Store
  <2>2. (\E w \in rows' : w.item = i) /\ rows \subseteq rows'
    <3> PICK s \in RowStamps(i, r) :
          rows' = IF \E w \in rows : w.item = i /\ w.stamp = s
                  THEN rows
                  ELSE rows \union {[item |-> i, stamp |-> s, run |-> r, day |-> crawled[r]]}
      BY <2>1
    <3>1. CASE \E w \in rows : w.item = i /\ w.stamp = s
      BY <3>1
    <3>2. CASE ~ \E w \in rows : w.item = i /\ w.stamp = s
      <4>1. [item |-> i, stamp |-> s, run |-> r, day |-> crawled[r]] \in rows'
        BY <3>2
      <4>2. [item |-> i, stamp |-> s, run |-> r, day |-> crawled[r]].item = i
        OBVIOUS
      <4> QED  BY <3>2, <4>1, <4>2
    <3> QED  BY <3>1, <3>2
  <2>3. HandsOK'
    BY <2>0 DEF Inv, HandsOK, States
  <2>4. \A j \in hand[r] : j = i
    BY DEF Inv, HandsOK
  <2>5. KeepsKept
    BY <2>0, <2>2, <2>4 DEF Inv, HandsOK, KeepsKept, Kept
  <2>6. \A j \in Items : Held(j) => Held(j)'
    BY <2>0, <2>5 DEF Inv, HandsOK, KeepsKept, Held
  <2> QED  BY <2>0, <2>3, <2>5, <2>6 DEF KeepsHeld, AddsWell, Covered
<1>8. ASSUME NEW r \in Runs, Finish(r) \/ Fail(r)
      PROVE  KeepsKept /\ KeepsHeld /\ AddsWell /\ HandsOK'
  <2>0. /\ UNCHANGED <<hand, keys, index, rows, dropped>>
        /\ \/ pc' = [pc EXCEPT ![r] = "failed"]
           \/ pc[r] = "loop" /\ pc' = [pc EXCEPT ![r] = "done"]
    BY <1>8 DEF Finish, Fail
  <2>1. HandsOK'
    BY <2>0 DEF Inv, HandsOK, States
  <2>2. KeepsKept
    BY <2>0 DEF Inv, HandsOK, KeepsKept, Kept
  <2>3. \A j \in Items : Held(j) => Held(j)'
    BY <2>0, <2>2 DEF Inv, HandsOK, KeepsKept, Held, Kept
  <2> QED  BY <2>0, <2>1, <2>2, <2>3 DEF KeepsHeld, AddsWell, Covered
<1> QED
  BY <1>1, <1>2, <1>3, <1>4, <1>5, <1>6, <1>7, <1>8 DEF Next

\* Every step carries the invariant over.
LEMMA Coverage == Spec => []Inv
<1>1. Init => Inv
  BY DEF Init, Inv, HandsOK, States, IndexIsKept, KeysAreCovered, DropsInItems, DropsAreCovered
<1>2. Inv /\ [Next]_vars => Inv'
  <2>1. CASE Next
    BY <2>1, StepKeeps, CarriedOver
  <2>2. CASE UNCHANGED vars
    BY <2>2 DEF vars, Inv, HandsOK, IndexIsKept, KeysAreCovered, DropsInItems,
                DropsAreCovered, Covered, Held, Kept
  <2> QED  BY <2>1, <2>2
<1> QED
  BY <1>1, <1>2, PTL DEF Spec

(* A story left out by the hash gate or the semantic gate is one the lake  *)
(* has, has a neighbour of, or loses with a run that failed; never one     *)
(* that two drops refer to each other for (pipeline.py:64-77).             *)
THEOREM DropsAreAlwaysCovered == Spec => []DropsAreCovered
<1>1. Inv => DropsAreCovered
  BY DEF Inv
<1> QED
  BY <1>1, Coverage, PTL

-----------------------------------------------------------------------------
(* Two statements make a race: the search and the insert of the semantic    *)
(* gate.  The invariant follows a story from the verdict of its search to   *)
(* its row: whatever has a row, or an entry that no search can miss, is far *)
(* from it, or belongs to a run that was in flight together with its run.   *)

\* The state of the pipeline is well typed for any stories, window and number of runs.
THEOREM PipelineTypeCorrect == Spec => []TypeOK
<1>1. Init => TypeOK
  BY BoundsAssumption DEF Init, TypeOK
<1>2. TypeOK /\ [Next]_vars => TypeOK'
  <2> SUFFICES ASSUME TypeOK, [Next]_vars PROVE TypeOK'
    OBVIOUS
  <2>1. CASE UNCHANGED vars
    BY <2>1 DEF vars, TypeOK
  <2>2. CASE Tick
    BY <2>2, BoundsAssumption DEF Tick, TypeOK
  <2>3. ASSUME NEW r \in Runs, Start(r) PROVE TypeOK'
    <3>1. met' \subseteq Runs \X Runs
      BY <2>3 DEF Start, TypeOK
    <3> QED
      BY <2>3, <3>1 DEF Start, TypeOK
  <2>4. ASSUME NEW r \in Runs, NextSource(r) PROVE TypeOK'
    BY <2>4 DEF NextSource, TypeOK
  <2>5. ASSUME NEW r \in Runs, NEW i \in Items, Claim(r, i) PROVE TypeOK'
    <3>1. Stamp(i, r) \in Runs \union {0}
      BY DEF Stamp
    <3> QED
      BY <2>5, <3>1 DEF Claim, TypeOK
  <2>6. ASSUME NEW r \in Runs, Search(r) PROVE TypeOK'
    BY <2>6 DEF Search, TypeOK
  <2>7. ASSUME NEW r \in Runs, IndexInsert(r) PROVE TypeOK'
    <3>1. \A i \in hand[r] : [item |-> i, day |-> crawled[r]] \in [item : Items, day : 0 .. MaxDay]
      BY DEF TypeOK
    <3> QED
      BY <2>7, <3>1 DEF IndexInsert, TypeOK
  <2>8. ASSUME NEW r \in Runs, Store(r) PROVE TypeOK'
    <3>1. \A i \in hand[r] : \A s \in RowStamps(i, r) :
            [item |-> i, stamp |-> s, run |-> r, day |-> crawled[r]]
              \in [item : Items, stamp : Runs \union {0}, run : Runs, day : 0 .. MaxDay]
      BY DEF TypeOK, RowStamps, Stamp
    <3>2. rows' \subseteq [item : Items, stamp : Runs \union {0}, run : Runs, day : 0 .. MaxDay]
      BY <2>8, <3>1 DEF Store, TypeOK
    <3> QED
      BY <2>8, <3>2 DEF Store, TypeOK
  <2>9. ASSUME NEW r \in Runs, Finish(r) PROVE TypeOK'
    BY <2>9, BoundsAssumption DEF Finish, TypeOK
  <2>10. ASSUME NEW r \in Runs, Fail(r) PROVE TypeOK'
    BY <2>10, BoundsAssumption DEF Fail, TypeOK
  <2> QED
    BY <2>1, <2>2, <2>3, <2>4, <2>5, <2>6, <2>7, <2>8, <2>9, <2>10 DEF Next
<1> QED
  BY <1>1, <1>2, PTL DEF Spec

Near(x, y) == x - y \in -Window .. Window

\* A run meets every run that is in flight with it, and neither is the other.
MetInFlight == \A q, r \in Runs : q # r /\ InFlight(q) /\ InFlight(r) => <<q, r>> \in met
MetIsMutual == \A p \in met : <<p[2], p[1]>> \in met

\* What a run has stored it has taken out of its feeds, and does not hold again.
TakenOnce ==
    /\ \A r \in Runs : pc[r] = "idle" => \A w \in rows : w.run # r
    /\ \A w \in rows : w.item \notin left[w.run]
    /\ \A w \in rows : pc[w.run] \in {"search", "index", "store"} => w.item \notin hand[w.run]
    /\ \A r \in Runs : hand[r] \cap left[r] = {}

\* A row, and a story between the two inserts, has its entry in the index.
RowsAreIndexed ==
    /\ \A w \in rows : [item |-> w.item, day |-> w.day] \in index
    /\ \A r \in Runs : pc[r] = "store" => \A i \in hand[r] : [item |-> i, day |-> crawled[r]] \in index

\* A story whose search found nothing is far from every row, or met the run of that row.
PassedApart ==
    \A w \in rows, r \in Runs : pc[r] \in {"index", "store"} =>
        \A i \in hand[r] :
            <<w.item, i>> \in Similar /\ Near(w.day, crawled[r])
                => w.run # r /\ <<w.run, r>> \in met

RaceInv == /\ TypeOK /\ HandsOK /\ MetInFlight /\ MetIsMutual /\ TakenOnce
           /\ RowsAreIndexed /\ PassedApart /\ SiblingsNeedRace

\* A run that starts meets the runs in flight; nothing else changes that the rest is about.
LEMMA StartKeepsRaces ==
  ASSUME RaceInv, TypeOK', HandsOK', NEW r \in Runs, Start(r)
  PROVE  RaceInv'
<1>1. /\ pc[r] = "idle" /\ pc' = [pc EXCEPT ![r] = "loop"]
      /\ met \subseteq met' /\ UNCHANGED <<hand, index, rows>>
      /\ \A q \in Runs : InFlight(q) => <<r, q>> \in met' /\ <<q, r>> \in met'
      /\ \A p \in met' : p \in met \/ (\E q \in Runs : p = <<r, q>> /\ InFlight(q))
                                  \/ (\E q \in Runs : p = <<q, r>> /\ InFlight(q))
      /\ \A q \in Runs \ {r} : left'[q] = left[q] /\ crawled'[q] = crawled[q]
  BY DEF Start, RaceInv, TypeOK
<1>2. hand[r] = {} /\ \A w \in rows : w.run \in Runs /\ w.run # r
  BY <1>1 DEF RaceInv, HandsOK, TypeOK, TakenOnce
<1>3. \A q \in Runs \ {r} : pc'[q] = pc[q] /\ (InFlight(q)' <=> InFlight(q))
  BY <1>1 DEF RaceInv, TypeOK, InFlight
<1>4. pc'[r] = "loop"
  BY <1>1 DEF RaceInv, TypeOK
<1>5. MetInFlight'
  BY <1>1, <1>3 DEF RaceInv, MetInFlight
<1>6. MetIsMutual'
  <2> SUFFICES ASSUME NEW p \in met' PROVE <<p[2], p[1]>> \in met'
    BY DEF MetIsMutual
  <2>1. CASE p \in met
    BY <1>1, <2>1 DEF RaceInv, MetIsMutual
  <2>2. ASSUME NEW q \in Runs, p = <<r, q>> \/ p = <<q, r>>, InFlight(q) PROVE <<p[2], p[1]>> \in met'
    <3>1. <<r, q>> \in met' /\ <<q, r>> \in met'
      BY <1>1, <2>2
    <3>2. <<p[2], p[1]>> \in {<<r, q>>, <<q, r>>}
      BY <2>2
    <3> QED
      BY <3>1, <3>2
  <2> QED
    BY <1>1, <2>1, <2>2
<1>7. TakenOnce'
  <2>1. \A w \in rows' : w \in rows /\ w.run \in Runs \ {r}
    BY <1>1, <1>2
  <2>2. \A w \in rows' : pc'[w.run] = pc[w.run] /\ left'[w.run] = left[w.run] /\ hand'[w.run] = hand[w.run]
    BY <1>1, <1>3, <2>1
  <2>3. \A q \in Runs : pc'[q] = "idle" => \A w \in rows' : w.run # q
    BY <1>3, <1>4, <2>1 DEF RaceInv, TakenOnce
  <2>4. \A w \in rows' : w.item \notin left'[w.run]
    BY <2>1, <2>2 DEF RaceInv, TakenOnce
  <2>5. \A w \in rows' : pc'[w.run] \in {"search", "index", "store"} => w.item \notin hand'[w.run]
    BY <2>1, <2>2 DEF RaceInv, TakenOnce
  <2>6. \A q \in Runs : hand'[q] \cap left'[q] = {}
    BY <1>1, <1>2 DEF RaceInv, TakenOnce
  <2> QED
    BY <2>3, <2>4, <2>5, <2>6 DEF TakenOnce
<1>8. RowsAreIndexed'
  BY <1>1, <1>3, <1>4 DEF RaceInv, RowsAreIndexed
<1>9. PassedApart'
  BY <1>1, <1>3, <1>4 DEF RaceInv, PassedApart
<1>10. SiblingsNeedRace'
  BY <1>1 DEF RaceInv, SiblingsNeedRace
<1> QED
  BY <1>5, <1>6, <1>7, <1>8, <1>9, <1>10 DEF RaceInv

\* A verdict: what the search may have missed belongs to runs that are in flight.
LEMMA SearchKeepsRaces ==
  ASSUME RaceInv, TypeOK', HandsOK', NEW r \in Runs, Search(r)
  PROVE  RaceInv'
<1>1. PICK i \in hand[r] :
        \/ /\ Visible(i, crawled[r]) # {} /\ hand' = [hand EXCEPT ![r] = {}]
           /\ pc' = [pc EXCEPT ![r] = "loop"]
        \/ /\ Visible(i, crawled[r]) = {} /\ hand' = hand
           /\ pc' = [pc EXCEPT ![r] = "index"]
  BY DEF Search
<1>2. pc[r] = "search" /\ UNCHANGED <<left, crawled, index, rows, met>>
  BY DEF Search
<1>3. /\ \A q \in Runs : InFlight(q)' <=> InFlight(q)
      /\ \A q \in Runs \ {r} : pc'[q] = pc[q] /\ hand'[q] = hand[q]
      /\ pc'[r] \in {"loop", "index"} /\ hand'[r] \subseteq hand[r]
  BY <1>1, <1>2 DEF RaceInv, TypeOK, InFlight
<1>4. MetInFlight' /\ MetIsMutual'
  BY <1>2, <1>3 DEF RaceInv, MetInFlight, MetIsMutual
<1>5. TakenOnce'
  <2>1. \A w \in rows : w.run \in Runs
    BY DEF RaceInv, TypeOK
  <2> QED
    BY <1>2, <1>3, <2>1 DEF RaceInv, TakenOnce
<1>6. RowsAreIndexed'
  BY <1>2, <1>3 DEF RaceInv, RowsAreIndexed
<1>7. PassedApart'
  <2> SUFFICES ASSUME NEW w \in rows, NEW q \in Runs, pc'[q] \in {"index", "store"}, NEW j \in hand'[q],
                      <<w.item, j>> \in Similar, Near(w.day, crawled[q])
               PROVE  w.run # q /\ <<w.run, q>> \in met
    BY <1>2 DEF PassedApart, Near
  <2>1. CASE q # r
    BY <1>3, <2>1 DEF RaceInv, PassedApart
  <2>2. CASE q = r
    <3>1. j = i /\ Visible(i, crawled[r]) = {}
      BY <1>1, <1>3, <2>2 DEF RaceInv, HandsOK, TypeOK
    <3>2. [item |-> w.item, day |-> w.day] \in index
      BY DEF RaceInv, RowsAreIndexed
    <3>3. <<j, w.item>> \in Similar
      BY SimilarAssumption DEF SimilarAssumption
    <3>4. w.day >= crawled[r] - Window
      <4>1. w.day \in Int /\ crawled[r] \in Int
        BY BoundsAssumption DEF RaceInv, TypeOK, BoundsAssumption
      <4> QED
        BY <2>2, <4>1, BoundsAssumption DEF Near, BoundsAssumption
    <3>5. [item |-> w.item, day |-> w.day] \in Visible(i, crawled[r])
      BY <3>1, <3>2, <3>3, <3>4 DEF Visible
    <3> QED
      BY <3>1, <3>5
  <2> QED
    BY <2>1, <2>2
<1>8. SiblingsNeedRace'
  BY <1>2 DEF RaceInv, SiblingsNeedRace
<1> QED
  BY <1>4, <1>5, <1>6, <1>7, <1>8 DEF RaceInv

\* A story leaves the feed for the hand; a duplicate leaves it for good.
LEMMA ClaimKeepsRaces ==
  ASSUME RaceInv, TypeOK', HandsOK', NEW r \in Runs, NEW i \in Items, Claim(r, i)
  PROVE  RaceInv'
<1>1. /\ pc[r] = "loop" /\ i \in left[r] /\ left' = [left EXCEPT ![r] = @ \ {i}]
      /\ UNCHANGED <<crawled, index, rows, met>>
      /\ \/ pc' = pc /\ hand' = hand
         \/ pc' = [pc EXCEPT ![r] = "search"] /\ hand' = [hand EXCEPT ![r] = {i}]
  BY DEF Claim
<1>2. hand[r] = {}
  BY <1>1 DEF RaceInv, HandsOK
<1>3. /\ \A q \in Runs : InFlight(q)' <=> InFlight(q)
      /\ \A q \in Runs \ {r} : pc'[q] = pc[q] /\ hand'[q] = hand[q] /\ left'[q] = left[q]
      /\ pc'[r] \in {"loop", "search"} /\ hand'[r] \subseteq {i} /\ left'[r] = left[r] \ {i}
  BY <1>1, <1>2 DEF RaceInv, TypeOK, InFlight
<1>4. MetInFlight' /\ MetIsMutual'
  BY <1>1, <1>3 DEF RaceInv, MetInFlight, MetIsMutual
<1>5. TakenOnce'
  <2>1. \A w \in rows : w.run \in Runs
    BY DEF RaceInv, TypeOK
  <2>2. \A q \in Runs : pc'[q] = "idle" => \A w \in rows' : w.run # q
    BY <1>1, <1>3 DEF RaceInv, TakenOnce
  <2>3. \A w \in rows' : w.item \notin left'[w.run]
    BY <1>1, <1>3, <2>1 DEF RaceInv, TakenOnce
  <2>4. ASSUME NEW w \in rows', pc'[w.run] \in {"search", "index", "store"} PROVE w.item \notin hand'[w.run]
    <3>1. CASE w.run # r
      BY <1>1, <1>3, <2>1, <2>4, <3>1 DEF RaceInv, TakenOnce
    <3>2. CASE w.run = r
      <4>1. w \in rows /\ w.item # i
        BY <1>1, <3>2 DEF RaceInv, TakenOnce
      <4> QED
        BY <1>3, <3>2, <4>1
    <3> QED
      BY <3>1, <3>2
  <2>5. \A q \in Runs : hand'[q] \cap left'[q] = {}
    BY <1>3 DEF RaceInv, TakenOnce
  <2> QED
    BY <2>2, <2>3, <2>4, <2>5 DEF TakenOnce
<1>6. RowsAreIndexed'
  BY <1>1, <1>3 DEF RaceInv, RowsAreIndexed
<1>7. PassedApart'
  BY <1>1, <1>3 DEF RaceInv, PassedApart
<1>8. SiblingsNeedRace'
  BY <1>1 DEF RaceInv, SiblingsNeedRace
<1> QED
  BY <1>4, <1>5, <1>6, <1>7, <1>8 DEF RaceInv

\* The entry goes in before the row.
LEMMA IndexKeepsRaces ==
  ASSUME RaceInv, TypeOK', HandsOK', NEW r \in Runs, IndexInsert(r)
  PROVE  RaceInv'
<1>1. /\ pc[r] = "index" /\ pc' = [pc EXCEPT ![r] = "store"] /\ index \subseteq index'
      /\ \A i \in hand[r] : [item |-> i, day |-> crawled[r]] \in index'
      /\ UNCHANGED <<left, crawled, hand, rows, met>>
  BY DEF IndexInsert
<1>2. /\ \A q \in Runs : InFlight(q)' <=> InFlight(q)
      /\ \A q \in Runs \ {r} : pc'[q] = pc[q]
      /\ pc'[r] = "store"
  BY <1>1 DEF RaceInv, TypeOK, InFlight
<1>3. MetInFlight' /\ MetIsMutual'
  BY <1>1, <1>2 DEF RaceInv, MetInFlight, MetIsMutual
<1>4. TakenOnce'
  <2>1. \A w \in rows : w.run \in Runs
    BY DEF RaceInv, TypeOK
  <2> QED
    BY <1>1, <1>2, <2>1 DEF RaceInv, TakenOnce
<1>5. RowsAreIndexed'
  BY <1>1, <1>2 DEF RaceInv, RowsAreIndexed
<1>6. PassedApart'
  BY <1>1, <1>2 DEF RaceInv, PassedApart
<1>7. SiblingsNeedRace'
  BY <1>1 DEF RaceInv, SiblingsNeedRace
<1> QED
  BY <1>3, <1>4, <1>5, <1>6, <1>7 DEF RaceInv

\* The row of a story: what is near it was missed by its search, or is still in a hand.
LEMMA StoreKeepsRaces ==
  ASSUME RaceInv, TypeOK', HandsOK', NEW r \in Runs, Store(r)
  PROVE  RaceInv'
<1>1. PICK i \in hand[r] : \E s \in RowStamps(i, r) :
         rows' \in {rows, rows \union {[item |-> i, stamp |-> s, run |-> r, day |-> crawled[r]]}}
  BY DEF Store
<1>2. PICK s \in RowStamps(i, r) :
         rows' \in {rows, rows \union {[item |-> i, stamp |-> s, run |-> r, day |-> crawled[r]]}}
  BY <1>1
<1> DEFINE new == [item |-> i, stamp |-> s, run |-> r, day |-> crawled[r]]
<1>3. /\ pc[r] = "store" /\ pc' = [pc EXCEPT ![r] = "loop"] /\ hand' = [hand EXCEPT ![r] = {}]
      /\ UNCHANGED <<left, crawled, index, met>>
  BY DEF Store
<1>4. \A w \in rows' : w \in rows \/ w = new
  BY <1>2
<1>5. new.item = i /\ new.run = r /\ new.day = crawled[r] /\ i \in Items
  BY DEF RaceInv, TypeOK
<1> HIDE DEF new
<1>6. /\ \A q \in Runs : InFlight(q)' <=> InFlight(q)
      /\ \A q \in Runs \ {r} : pc'[q] = pc[q] /\ hand'[q] = hand[q]
      /\ pc'[r] = "loop" /\ hand'[r] = {}
  BY <1>3 DEF RaceInv, TypeOK, InFlight
<1>7. InFlight(r)
  BY <1>3 DEF InFlight
<1>8. MetInFlight' /\ MetIsMutual'
  BY <1>3, <1>6 DEF RaceInv, MetInFlight, MetIsMutual
<1>9. TakenOnce'
  <2>1. \A w \in rows' : w.run \in Runs
    BY <1>4, <1>5 DEF RaceInv, TypeOK
  <2>2. \A q \in Runs : pc'[q] = "idle" => \A w \in rows' : w.run # q
    BY <1>4, <1>5, <1>6 DEF RaceInv, TakenOnce
  <2>3. \A w \in rows' : w.item \notin left'[w.run]
    BY <1>3, <1>4, <1>5, <1>1 DEF RaceInv, TakenOnce
  <2>4. \A w \in rows' : pc'[w.run] \in {"search", "index", "store"} => w.item \notin hand'[w.run]
    BY <1>4, <1>5, <1>6, <2>1 DEF RaceInv, TakenOnce
  <2>5. \A q \in Runs : hand'[q] \cap left'[q] = {}
    BY <1>3, <1>6 DEF RaceInv, TakenOnce
  <2> QED
    BY <2>2, <2>3, <2>4, <2>5 DEF TakenOnce
<1>10. RowsAreIndexed'
  <2>1. [item |-> i, day |-> crawled[r]] \in index
    BY <1>1, <1>3 DEF RaceInv, RowsAreIndexed
  <2> QED
    BY <1>3, <1>4, <1>5, <1>6, <2>1 DEF RaceInv, RowsAreIndexed
<1>11. PassedApart'
  <2> SUFFICES ASSUME NEW w \in rows', NEW q \in Runs, pc'[q] \in {"index", "store"}, NEW j \in hand'[q],
                      <<w.item, j>> \in Similar, Near(w.day, crawled[q])
               PROVE  w.run # q /\ <<w.run, q>> \in met
    BY <1>3 DEF PassedApart, Near
  <2>1. q # r /\ pc[q] = pc'[q] /\ hand[q] = hand'[q]
    BY <1>6
  <2>2. CASE w \in rows
    BY <2>1, <2>2 DEF RaceInv, PassedApart
  <2>3. CASE w = new
    <3>1. InFlight(q)
      BY <2>1 DEF InFlight
    <3> QED
      BY <1>5, <1>7, <2>1, <2>3, <3>1 DEF RaceInv, MetInFlight
  <2> QED
    BY <1>4, <2>2, <2>3
<1>12. SiblingsNeedRace'
  <2>1. \A w \in rows : <<w.item, i>> \in Similar /\ Near(w.day, crawled[r])
                          => w.run # r /\ <<w.run, r>> \in met
    BY <1>1, <1>3 DEF RaceInv, PassedApart
  <2>2. \A w \in rows : w.day \in Int /\ crawled[r] \in Int
    BY BoundsAssumption DEF RaceInv, TypeOK, BoundsAssumption
  <2>3. Window \in Nat
    BY BoundsAssumption DEF BoundsAssumption
  <2> SUFFICES ASSUME NEW v \in rows', NEW w \in rows', v # w, <<v.item, w.item>> \in Similar,
                      v.day - w.day \in -Window .. Window
               PROVE  v.run # w.run /\ <<v.run, w.run>> \in met
    BY <1>3 DEF SiblingsNeedRace
  <2>4. CASE v \in rows /\ w \in rows
    BY <2>4 DEF RaceInv, SiblingsNeedRace
  <2>5. CASE v \in rows /\ w = new
    BY <1>5, <2>1, <2>5 DEF Near
  <2>6. CASE v = new /\ w \in rows
    <3>1. <<w.item, i>> \in Similar
      BY <1>5, <2>6, SimilarAssumption DEF SimilarAssumption
    <3>2. Near(w.day, crawled[r])
      <4>1. crawled[r] - w.day \in -Window .. Window
        BY <1>5, <2>6
      <4> QED
        BY <2>2, <2>3, <2>6, <4>1 DEF Near
    <3>3. w.run # r /\ <<w.run, r>> \in met
      BY <2>1, <2>6, <3>1, <3>2
    <3>4. <<r, w.run>> \in met
      BY <3>3 DEF RaceInv, MetIsMutual
    <3> QED
      BY <1>5, <2>6, <3>3, <3>4
  <2> QED
    BY <1>4, <2>4, <2>5, <2>6
<1> QED
  BY <1>8, <1>9, <1>10, <1>11, <1>12 DEF RaceInv

\* The other steps take a run out of flight, or leave rows, hands and verdicts alone.
LEMMA RestKeepsRaces ==
  ASSUME RaceInv, TypeOK', HandsOK',
         UNCHANGED vars \/ Tick \/ \E r \in Runs : NextSource(r) \/ Finish(r) \/ Fail(r)
  PROVE  RaceInv'
<1> DEFINE Quiet ==
        /\ UNCHANGED <<hand, index, rows, met>>
        /\ \A r \in Runs : left'[r] \subseteq left[r]
        /\ \A r \in Runs : InFlight(r)' => InFlight(r)
        /\ \A r \in Runs : pc'[r] = pc[r] \/ pc'[r] \in {"done", "failed"}
        /\ \A r \in Runs : pc[r] \in {"index", "store"} => pc'[r] = "failed" \/ crawled'[r] = crawled[r]
<1>1. Quiet
  <2>1. CASE UNCHANGED vars \/ Tick
    BY <2>1 DEF vars, Tick, InFlight
  <2>2. ASSUME NEW r \in Runs, NextSource(r) PROVE Quiet
    BY <2>2 DEF NextSource, RaceInv, TypeOK, InFlight
  <2>3. ASSUME NEW r \in Runs, Finish(r) \/ Fail(r) PROVE Quiet
    BY <2>3 DEF Finish, Fail, RaceInv, TypeOK, InFlight
  <2> QED
    BY <2>1, <2>2, <2>3
<1>2. MetInFlight' /\ MetIsMutual'
  BY <1>1 DEF RaceInv, MetInFlight, MetIsMutual
<1>3. TakenOnce'
  <2>1. \A w \in rows : w.run \in Runs
    BY DEF RaceInv, TypeOK
  <2> QED
    BY <1>1, <2>1 DEF RaceInv, TakenOnce
<1>4. RowsAreIndexed'
  BY <1>1 DEF RaceInv, RowsAreIndexed
<1>5. PassedApart'
  BY <1>1 DEF RaceInv, PassedApart
<1>6. SiblingsNeedRace'
  BY <1>1 DEF RaceInv, SiblingsNeedRace
<1> QED
  BY <1>2, <1>3, <1>4, <1>5, <1>6 DEF RaceInv

\* Two similar stories near each other in time both get rows only in a race of two runs,
\* for any stories, similarity, window and number of runs, whatever fails.
THEOREM SiblingsOnlyByRace == Spec => []SiblingsNeedRace
<1>1. Init => RaceInv
  <2> SUFFICES ASSUME Init PROVE RaceInv
    OBVIOUS
  <2>1. TypeOK
    BY BoundsAssumption DEF Init, TypeOK
  <2> QED
    BY <2>1 DEF Init, RaceInv, HandsOK, States, InFlight, MetInFlight, MetIsMutual, TakenOnce,
                RowsAreIndexed, PassedApart, SiblingsNeedRace
<1>2. RaceInv /\ [Next]_vars /\ TypeOK' /\ HandsOK' => RaceInv'
  BY StartKeepsRaces, SearchKeepsRaces, ClaimKeepsRaces, IndexKeepsRaces, StoreKeepsRaces,
     RestKeepsRaces DEF Next
<1>3. RaceInv => SiblingsNeedRace
  BY DEF RaceInv
<1>4. Spec => []HandsOK
  <2>1. Inv => HandsOK
    BY DEF Inv
  <2> QED
    BY <2>1, Coverage, PTL
<1> QED
  BY <1>1, <1>2, <1>3, <1>4, PipelineTypeCorrect, PTL DEF Spec
=============================================================================
