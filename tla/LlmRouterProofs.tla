---------------------------- MODULE LlmRouterProofs ----------------------------
(***************************************************************************)
(* Proofs about LlmRouter, for any calls, caps, slots and flag changes: what *)
(* bounds a caller holds whichever way, and at whichever await, a call ends. *)
(***************************************************************************)
EXTENDS LlmRouter, FiniteSetTheorems, TLAPS

\* Where a call may be, and the semaphore of a chat that is under way.
WhereCallsAre ==
    /\ \A c \in Calls : pc[c] \in {"capWait", "rateWait", "fallback"} => c \in Chats
    /\ \A c \in InFlight \cap Chats : sem[c] \in 1..Newest

\* Unless the flag changed while chats were under way, they are all on one semaphore.
OneSemaphore ==
    ~busy => \A c \in InFlight \cap Chats : sem[c] = Newest /\ sems[Newest].cap = flag

PeakIsPeak == Cardinality(InFlight \cap Chats) <= peak

RouterInv ==
    TypeOK /\ WhereCallsAre /\ PermitsBalance /\ OneSemaphore /\ PeakIsPeak /\ OverspendBounded

-----------------------------------------------------------------------------
LEMMA ChatsFinite ==
    /\ IsFiniteSet(Chats)
    /\ \A S \in SUBSET Chats : IsFiniteSet(S) /\ Cardinality(S) \in Nat
    /\ \A S \in SUBSET Chats : \A c \in Chats \ S :
          S \cup {c} \in SUBSET Chats /\ Cardinality(S \cup {c}) = Cardinality(S) + 1
    /\ \A S \in SUBSET Chats : \A c \in S : Cardinality(S \ {c}) = Cardinality(S) - 1
<1>1. IsFiniteSet(Chats)
  <2>1. Chats \subseteq Chats \cup Embeds
      OBVIOUS
  <2> QED
      BY <2>1, RouterAssumption, FS_Subset DEF RouterAssumption, Calls
<1>2. \A S \in SUBSET Chats : IsFiniteSet(S) /\ Cardinality(S) \in Nat
    BY <1>1, FS_Subset, FS_CardinalityType
<1>3. \A S \in SUBSET Chats : \A c \in Chats \ S :
          S \cup {c} \in SUBSET Chats /\ Cardinality(S \cup {c}) = Cardinality(S) + 1
    BY <1>2, FS_AddElement
<1>4. \A S \in SUBSET Chats : \A c \in S : Cardinality(S \ {c}) = Cardinality(S) - 1
    BY <1>2, FS_RemoveElement
<1> QED
    BY <1>1, <1>2, <1>3, <1>4

LEMMA HoldersAreChats ==
    /\ \A g : Holders(g) \in SUBSET Chats
    /\ SlotHolders \in SUBSET Chats
    /\ InFlight \cap Chats \in SUBSET Chats
    BY DEF Holders, SlotHolders

\* What changes when one call goes somewhere, and its semaphore stays.
LEMMA Moves ==
    ASSUME TypeOK, NEW c \in Calls, NEW s \in States, Goto(c, s), sem' = sem
    PROVE  /\ pc' \in [Calls -> States]
           /\ pc'[c] = s /\ \A d \in Calls \ {c} : pc'[d] = pc[d]
           /\ c \notin Chats =>
                 /\ \A g : Holders(g)' = Holders(g)
                 /\ SlotHolders' = SlotHolders
                 /\ (InFlight \cap Chats)' = InFlight \cap Chats
           /\ c \in Chats /\ s \in Ended =>
                 /\ \A g : Holders(g)' = Holders(g) \ {c}
                 /\ SlotHolders' = SlotHolders \ {c}
                 /\ (InFlight \cap Chats)' = (InFlight \cap Chats) \ {c}
<1>1. /\ pc' \in [Calls -> States]
      /\ pc'[c] = s /\ \A d \in Calls \ {c} : pc'[d] = pc[d]
    BY DEF TypeOK, Goto
<1>2. ASSUME c \notin Chats
      PROVE  /\ \A g : Holders(g)' = Holders(g)
             /\ SlotHolders' = SlotHolders
             /\ (InFlight \cap Chats)' = InFlight \cap Chats
    BY <1>1, <1>2 DEF Holders, SlotHolders, InFlight, Calls
<1>3. ASSUME c \in Chats, s \in Ended
      PROVE  /\ \A g : Holders(g)' = Holders(g) \ {c}
             /\ SlotHolders' = SlotHolders \ {c}
             /\ (InFlight \cap Chats)' = (InFlight \cap Chats) \ {c}
    BY <1>1, <1>3 DEF Holders, SlotHolders, InFlight, Calls, Ended
<1> QED
    BY <1>1, <1>2, <1>3

-----------------------------------------------------------------------------
(* Call c lets go of what it holds.                                        *)

LEMMA ReleaseStep ==
    ASSUME RouterInv, NEW c \in Calls, pc[c] # "idle", pc[c] \notin Ended,
           NEW s \in Ended, Goto(c, s), ReleaseAll(c)
    PROVE  /\ Newest' = Newest /\ DOMAIN sems' = DOMAIN sems
           /\ \A g \in 1..Newest : /\ sems'[g] \in [cap : CallerCaps, free : Nat]
                                   /\ sems'[g].cap = sems[g].cap
           /\ slots' \in Nat /\ pc' \in [Calls -> States] /\ sem' = sem
           /\ WhereCallsAre' /\ PermitsBalance'
           /\ (InFlight \cap Chats)' \subseteq InFlight \cap Chats
           /\ c \in Chats => (InFlight \cap Chats)' = (InFlight \cap Chats) \ {c} /\ c \in InFlight
           /\ c \notin Chats => (InFlight \cap Chats)' = InFlight \cap Chats
<1> USE DEF RouterInv
<1>1. /\ slots' = IF c \in SlotHolders THEN slots + 1 ELSE slots
      /\ sems' = [g \in DOMAIN sems |-> IF c \in Holders(g) THEN [sems[g] EXCEPT !.free = @ + 1] ELSE sems[g]]
      /\ sem' = sem
    BY DEF ReleaseAll, ReleasedSlots
<1>2. s \in States
    BY DEF States
<1>3. /\ pc' \in [Calls -> States] /\ pc'[c] = s /\ \A d \in Calls \ {c} : pc'[d] = pc[d]
      /\ c \notin Chats => /\ \A g : Holders(g)' = Holders(g)
                           /\ SlotHolders' = SlotHolders
                           /\ (InFlight \cap Chats)' = InFlight \cap Chats
      /\ c \in Chats => /\ \A g : Holders(g)' = Holders(g) \ {c}
                        /\ SlotHolders' = SlotHolders \ {c}
                        /\ (InFlight \cap Chats)' = (InFlight \cap Chats) \ {c}
    BY <1>1, <1>2, Moves
<1>4. DOMAIN sems' = DOMAIN sems /\ Newest' = Newest
    BY <1>1 DEF Newest
<1>5. Newest \in Nat /\ DOMAIN sems = 1..Newest /\ slots \in Nat
      /\ \A g \in 1..Newest : sems[g] \in [cap : CallerCaps, free : Nat]
    BY DEF TypeOK
<1>6. ASSUME NEW g \in 1..Newest
      PROVE  /\ sems'[g] \in [cap : CallerCaps, free : Nat]
             /\ sems'[g].cap = sems[g].cap
             /\ sems'[g].free = IF c \in Holders(g) THEN sems[g].free + 1 ELSE sems[g].free
  <2>1. sems[g] \in [cap : CallerCaps, free : Nat]
      BY <1>5
  <2>2. sems'[g] = IF c \in Holders(g) THEN [sems[g] EXCEPT !.free = @ + 1] ELSE sems[g]
      BY <1>1, <1>5
  <2> QED
      BY <2>1, <2>2
<1>7. WhereCallsAre'
    BY <1>1, <1>3, <1>4 DEF WhereCallsAre, InFlight, Ended
<1>8. slots' + Cardinality(SlotHolders)' = Slots
  <2>1. slots + Cardinality(SlotHolders) = Slots
      BY DEF PermitsBalance
  <2>2. CASE c \in SlotHolders
    <3>1. c \in Chats
        BY <2>2 DEF SlotHolders
    <3>2. Cardinality(SlotHolders)' = Cardinality(SlotHolders) - 1 /\ Cardinality(SlotHolders) \in Nat
        BY <1>3, <2>2, <3>1, ChatsFinite, HoldersAreChats
    <3> QED
        BY <1>1, <1>5, <2>1, <2>2, <3>2
  <2>3. CASE c \notin SlotHolders
    <3>1. SlotHolders' = SlotHolders
        BY <1>3, <2>3
    <3> QED
        BY <1>1, <2>1, <2>3, <3>1
  <2> QED
      BY <2>2, <2>3
<1>9. ASSUME NEW g \in 1..Newest
      PROVE  sems'[g].free + Cardinality(Holders(g))' = sems'[g].cap
  <2>1. sems[g].free + Cardinality(Holders(g)) = sems[g].cap /\ sems[g].free \in Nat
      BY <1>5 DEF PermitsBalance
  <2>2. CASE c \in Holders(g)
    <3>1. c \in Chats
        BY <2>2 DEF Holders
    <3>2. Cardinality(Holders(g))' = Cardinality(Holders(g)) - 1 /\ Cardinality(Holders(g)) \in Nat
        BY <1>3, <2>2, <3>1, ChatsFinite, HoldersAreChats
    <3> QED
        BY <1>6, <2>1, <2>2, <3>2
  <2>3. CASE c \notin Holders(g)
    <3>1. Holders(g)' = Holders(g)
        BY <1>3, <2>3
    <3> QED
        BY <1>6, <2>1, <2>3, <3>1
  <2> QED
      BY <2>2, <2>3
<1>10. PermitsBalance'
    BY <1>4, <1>5, <1>8, <1>9 DEF PermitsBalance
<1>11. c \in InFlight
    BY DEF InFlight
<1>12. slots' \in Nat
    BY <1>1, <1>5
<1> QED
    BY <1>1, <1>3, <1>4, <1>5, <1>6, <1>7, <1>10, <1>11, <1>12

\* Chats that leave, and semaphores that stay, keep what the other invariants say.
LEMMA FewerChats ==
    ASSUME RouterInv, flag' = flag, busy' = busy, peak' = peak, sem' = sem, Newest' = Newest,
           \A g \in 1..Newest : sems'[g].cap = sems[g].cap, WhereCallsAre,
           (InFlight \cap Chats)' \subseteq InFlight \cap Chats
    PROVE  /\ OneSemaphore' /\ PeakIsPeak'
           /\ Total' = Total => OverspendBounded'
<1> USE DEF RouterInv
<1>1. OneSemaphore'
  <2> SUFFICES ASSUME ~busy, NEW c \in (InFlight \cap Chats)'
               PROVE  sem'[c] = Newest' /\ sems'[Newest'].cap = flag'
      BY DEF OneSemaphore
  <2>1. c \in InFlight \cap Chats /\ sem[c] = Newest /\ sems[Newest].cap = flag
      BY DEF OneSemaphore
  <2>2. Newest \in 1..Newest
      BY <2>1 DEF WhereCallsAre
  <2> QED
      BY <2>1, <2>2
<1>2. /\ Cardinality(InFlight \cap Chats)' \in Nat /\ Cardinality(InFlight \cap Chats) \in Nat
      /\ Cardinality(InFlight \cap Chats)' <= Cardinality(InFlight \cap Chats)
    BY HoldersAreChats, ChatsFinite, FS_Subset
<1>3. PeakIsPeak'
    BY <1>2 DEF PeakIsPeak, TypeOK
<1>4. ASSUME Total' = Total PROVE OverspendBounded'
  <2>1. Total \in Nat /\ peak \in Nat /\ Cap \in Nat
      BY RouterAssumption DEF RouterAssumption, TypeOK, Total
  <2> QED
      BY <1>2, <1>4, <2>1 DEF OverspendBounded
<1> QED
    BY <1>1, <1>3, <1>4

LEMMA EndStep ==
    ASSUME RouterInv, NEW c \in Calls, pc[c] # "idle", pc[c] \notin Ended,
           NEW s \in Ended, Goto(c, s), ReleaseAll(c),
           breaker' \in {"closed", "open", "half_open"}, cooled' \in BOOLEAN, spent' = spent,
           UNCHANGED <<flag, changes, history>>
    PROVE  RouterInv'
<1> USE DEF RouterInv
<1>1. /\ Newest' = Newest /\ DOMAIN sems' = DOMAIN sems
      /\ \A g \in 1..Newest : /\ sems'[g] \in [cap : CallerCaps, free : Nat]
                              /\ sems'[g].cap = sems[g].cap
      /\ slots' \in Nat /\ pc' \in [Calls -> States] /\ sem' = sem
      /\ WhereCallsAre' /\ PermitsBalance'
      /\ (InFlight \cap Chats)' \subseteq InFlight \cap Chats
    BY ReleaseStep
<1>2. /\ flag' = flag /\ changes' = changes /\ busy' = busy /\ peak' = peak
    BY DEF history
<1>3. TypeOK'
    BY <1>1, <1>2 DEF TypeOK
<1>4. Total' = Total
    BY DEF Total
<1>5. OneSemaphore' /\ PeakIsPeak' /\ OverspendBounded'
    BY <1>1, <1>2, <1>4, FewerChats
<1> QED
    BY <1>1, <1>3, <1>5

LEMMA SucceedStep == ASSUME RouterInv, NEW c \in Calls, Succeed(c) PROVE RouterInv'
<1> USE DEF RouterInv
<1>1. /\ pc[c] \in {"primary", "fallback"} /\ Goto(c, "ok") /\ ReleaseAll(c)
      /\ UNCHANGED <<breaker, cooled, flag, changes, history>>
      /\ IF c \in Embeds THEN spent' = spent ELSE spent' = [spent EXCEPT ![pc[c]] = @ + 1]
    BY DEF Succeed, Record
<1>2. pc[c] # "idle" /\ pc[c] \notin Ended /\ "ok" \in Ended
    BY <1>1 DEF Ended
<1>3. CASE c \in Embeds
  <2>1. breaker' \in {"closed", "open", "half_open"} /\ cooled' \in BOOLEAN
      BY <1>1 DEF TypeOK
  <2> QED
      BY <1>1, <1>2, <1>3, <2>1, EndStep
<1>4. CASE c \notin Embeds
  <2>1. c \in Chats
      BY <1>4 DEF Calls
  <2>2. /\ Newest' = Newest /\ DOMAIN sems' = DOMAIN sems
        /\ \A g \in 1..Newest : /\ sems'[g] \in [cap : CallerCaps, free : Nat]
                                /\ sems'[g].cap = sems[g].cap
        /\ slots' \in Nat /\ pc' \in [Calls -> States] /\ sem' = sem
        /\ WhereCallsAre' /\ PermitsBalance'
        /\ (InFlight \cap Chats)' = (InFlight \cap Chats) \ {c} /\ c \in InFlight
      BY <1>1, <1>2, <2>1, ReleaseStep
  <2>3. /\ flag' = flag /\ changes' = changes /\ busy' = busy /\ peak' = peak
        /\ breaker' = breaker /\ cooled' = cooled
      BY <1>1 DEF history
  <2>4. /\ spent.primary \in Nat /\ spent.fallback \in Nat
        /\ spent' \in [primary : Nat, fallback : Nat] /\ Total' = Total + 1
    <3>1. spent \in [primary : Nat, fallback : Nat]
        BY DEF TypeOK
    <3>2. CASE pc[c] = "primary"
        BY <1>1, <1>4, <3>1, <3>2 DEF Total
    <3>3. CASE pc[c] = "fallback"
        BY <1>1, <1>4, <3>1, <3>3 DEF Total
    <3> QED
        BY <1>1, <3>1, <3>2, <3>3
  <2>5. TypeOK'
      BY <2>2, <2>3, <2>4 DEF TypeOK
  <2>6. OneSemaphore' /\ PeakIsPeak'
      BY <2>2, <2>3, FewerChats
  <2>7. /\ Cardinality(InFlight \cap Chats) \in Nat
        /\ Cardinality(InFlight \cap Chats)' = Cardinality(InFlight \cap Chats) - 1
      BY <2>1, <2>2, HoldersAreChats, ChatsFinite
  <2>8. Total \in Nat /\ peak \in Nat /\ Cap \in Nat
      BY <2>4, RouterAssumption DEF RouterAssumption, TypeOK, Total
  <2>9. OverspendBounded'
      BY <2>3, <2>4, <2>7, <2>8 DEF OverspendBounded, PeakIsPeak
  <2> QED
      BY <2>2, <2>5, <2>6, <2>9
<1> QED
    BY <1>3, <1>4

\* The cost meter stays well typed, whatever the gate says.
LEMMA GateStep ==
    ASSUME TypeOK, NEW fallback \in BOOLEAN, Allow(fallback) \/ Deny(fallback)
    PROVE  /\ breaker' \in {"closed", "open", "half_open"} /\ cooled' \in BOOLEAN
           /\ spent' = spent
    BY DEF TypeOK, Allow, Deny, StateRead, meter

LEMMA CancelStep == ASSUME RouterInv, NEW c \in Calls, Cancel(c) PROVE RouterInv'
<1>1. /\ c \in InFlight /\ Goto(c, "skipped") /\ ReleaseAll(c)
      /\ UNCHANGED <<meter, flag, changes, history>>
    BY DEF Cancel
<1>2. breaker' \in {"closed", "open", "half_open"} /\ cooled' \in BOOLEAN /\ spent' = spent
    BY <1>1 DEF meter, RouterInv, TypeOK
<1>3. pc[c] # "idle" /\ pc[c] \notin Ended /\ "skipped" \in Ended
    BY <1>1 DEF InFlight, Ended
<1> QED
    BY <1>1, <1>2, <1>3, EndStep

LEMMA BreakStep == ASSUME RouterInv, NEW c \in Calls, Break(c) PROVE RouterInv'
<1>1. /\ pc[c] \in {"primary", "fallback"} /\ Goto(c, "failed") /\ ReleaseAll(c)
      /\ UNCHANGED <<meter, flag, changes, history>>
    BY DEF Break
<1>2. breaker' \in {"closed", "open", "half_open"} /\ cooled' \in BOOLEAN /\ spent' = spent
    BY <1>1 DEF meter, RouterInv, TypeOK
<1>3. pc[c] # "idle" /\ pc[c] \notin Ended /\ "failed" \in Ended
    BY <1>1 DEF Ended
<1> QED
    BY <1>1, <1>2, <1>3, EndStep

\* Call c goes on to a state in which it holds what it held.
LEMMA GoesOn ==
    ASSUME RouterInv, NEW c \in Calls, NEW s \in States,
           \/ pc[c] \in {"throttled", "primary", "fallback"} /\ s \in {"primary", "fallback"}
           \/ pc[c] = "idle" /\ s \in Ended
           \/ c \notin Chats,
           s \in {"capWait", "rateWait", "fallback"} => c \in Chats,
           Goto(c, s), breaker' \in {"closed", "open", "half_open"}, cooled' \in BOOLEAN, spent' = spent,
           UNCHANGED <<flag, changes, limits, history>>
    PROVE  RouterInv'
<1> USE DEF RouterInv
<1>1. /\ sems' = sems /\ sem' = sem /\ slots' = slots /\ flag' = flag /\ changes' = changes
      /\ busy' = busy /\ peak' = peak
    BY DEF limits, history
<1>2. pc' \in [Calls -> States] /\ pc'[c] = s /\ \A d \in Calls \ {c} : pc'[d] = pc[d]
    BY <1>1, Moves
<1>3. /\ \A g : Holders(g)' = Holders(g)
      /\ SlotHolders' = SlotHolders
      /\ (InFlight \cap Chats)' = InFlight \cap Chats
  <2>1. CASE c \notin Chats
      BY <1>1, <2>1, Moves
  <2>2. CASE c \in Chats
      BY <1>1, <1>2, <2>2 DEF Holders, SlotHolders, InFlight, Calls, Ended
  <2> QED
      BY <2>1, <2>2
<1>4. Newest' = Newest /\ Total' = Total
    BY <1>1 DEF Newest, Total
<1>5. TypeOK'
    BY <1>1, <1>2, <1>4 DEF TypeOK
<1>6. WhereCallsAre'
    BY <1>1, <1>2, <1>3, <1>4 DEF WhereCallsAre
<1>7. PermitsBalance'
    BY <1>1, <1>3 DEF PermitsBalance
<1>8. OneSemaphore' /\ PeakIsPeak' /\ OverspendBounded'
    BY <1>1, <1>3, <1>4, FewerChats
<1> QED
    BY <1>5, <1>6, <1>7, <1>8

LEMMA CallPrimaryStep == ASSUME RouterInv, NEW c \in Calls, CallPrimary(c) PROVE RouterInv'
<1>1. /\ pc[c] = "throttled" /\ Goto(c, "primary")
      /\ UNCHANGED <<meter, flag, changes, limits, history>>
    BY DEF CallPrimary
<1>2. breaker' \in {"closed", "open", "half_open"} /\ cooled' \in BOOLEAN /\ spent' = spent
    BY <1>1 DEF meter, RouterInv, TypeOK
<1>3. "primary" \in States
    BY DEF States
<1> QED
    BY <1>1, <1>2, <1>3, GoesOn

LEMMA PrimaryDownStep == ASSUME RouterInv, NEW c \in Calls, PrimaryDown(c) PROVE RouterInv'
<1>1. /\ pc[c] = "primary" /\ c \in Chats
      /\ \/ Allow(TRUE) /\ Goto(c, "fallback") /\ UNCHANGED limits
         \/ Deny(TRUE) /\ Goto(c, "denied") /\ ReleaseAll(c)
      /\ UNCHANGED <<flag, changes, history>>
    BY DEF PrimaryDown
<1>2. breaker' \in {"closed", "open", "half_open"} /\ cooled' \in BOOLEAN /\ spent' = spent
    BY <1>1, GateStep DEF RouterInv
<1>3. "fallback" \in States /\ "denied" \in Ended /\ pc[c] # "idle" /\ pc[c] \notin Ended
    BY <1>1 DEF States, Ended
<1>4. CASE Goto(c, "fallback") /\ UNCHANGED limits
    BY <1>1, <1>2, <1>3, <1>4, GoesOn
<1>5. CASE Goto(c, "denied") /\ ReleaseAll(c)
    BY <1>1, <1>2, <1>3, <1>5, EndStep
<1> QED
    BY <1>1, <1>4, <1>5

LEMMA EnterEmbedStep == ASSUME RouterInv, NEW c \in Calls, EnterEmbed(c) PROVE RouterInv'
<1>1. /\ c \in Embeds /\ Allow(FALSE) /\ Goto(c, "throttled")
      /\ UNCHANGED <<flag, changes, limits, history>>
    BY DEF EnterEmbed
<1>2. breaker' \in {"closed", "open", "half_open"} /\ cooled' \in BOOLEAN /\ spent' = spent
    BY <1>1, GateStep DEF RouterInv
<1>3. "throttled" \in States /\ c \notin Chats
    BY <1>1, RouterAssumption DEF States, RouterAssumption
<1> QED
    BY <1>1, <1>2, <1>3, GoesOn

LEMMA TurnAwayStep == ASSUME RouterInv, NEW c \in Calls, TurnAway(c) PROVE RouterInv'
<1>1. /\ pc[c] = "idle" /\ Deny(FALSE) /\ Goto(c, "denied")
      /\ UNCHANGED <<flag, changes, limits, history>>
    BY DEF TurnAway
<1>2. breaker' \in {"closed", "open", "half_open"} /\ cooled' \in BOOLEAN /\ spent' = spent
    BY <1>1, GateStep DEF RouterInv
<1>3. "denied" \in States /\ "denied" \in Ended
    BY DEF States, Ended
<1> QED
    BY <1>1, <1>2, <1>3, GoesOn

LEMMA TakeSemStep == ASSUME RouterInv, NEW c \in Calls, TakeSem(c) PROVE RouterInv'
<1> USE DEF RouterInv
<1>0. PICK h : h = sem[c]
    OBVIOUS
<1>1. /\ pc[c] = "capWait" /\ sems[h].free > 0
      /\ sems' = [sems EXCEPT ![h].free = @ - 1]
      /\ Goto(c, "rateWait")
      /\ sem' = sem /\ slots' = slots /\ flag' = flag /\ changes' = changes
      /\ busy' = busy /\ peak' = peak
      /\ breaker' = breaker /\ cooled' = cooled /\ spent' = spent
    BY <1>0 DEF TakeSem, meter, history
<1>2. c \in Chats /\ c \in InFlight /\ h \in 1..Newest
    BY <1>0, <1>1 DEF WhereCallsAre, InFlight, Ended
<1>3. pc' \in [Calls -> States] /\ pc'[c] = "rateWait" /\ \A d \in Calls \ {c} : pc'[d] = pc[d]
    BY <1>1, Moves DEF States
<1>4. /\ \A g : g # h => Holders(g)' = Holders(g)
      /\ Holders(h)' = Holders(h) \cup {c} /\ c \notin Holders(h)
      /\ SlotHolders' = SlotHolders /\ (InFlight \cap Chats)' = InFlight \cap Chats
  <2>1. \A d \in Chats : d \in Calls
      BY DEF Calls
  <2> QED
      BY <1>0, <1>1, <1>2, <1>3, <2>1 DEF Holders, SlotHolders, InFlight, Ended
<1>5. /\ Newest \in Nat /\ DOMAIN sems = 1..Newest
      /\ \A g \in 1..Newest : sems[g] \in [cap : CallerCaps, free : Nat]
    BY DEF TypeOK
<1>6. /\ DOMAIN sems' = DOMAIN sems /\ Newest' = Newest
      /\ \A g \in 1..Newest : g # h => sems'[g] = sems[g]
      /\ sems'[h] = [sems[h] EXCEPT !.free = sems[h].free - 1]
    BY <1>1, <1>2, <1>5 DEF Newest
<1>7. sems'[h].cap = sems[h].cap /\ sems'[h].free = sems[h].free - 1
      /\ sems'[h] \in [cap : CallerCaps, free : Nat]
  <2>1. sems[h] \in [cap : CallerCaps, free : Nat]
      BY <1>2, <1>5
  <2> QED
      BY <1>1, <1>6, <2>1
<1>8. TypeOK'
    BY <1>1, <1>3, <1>5, <1>6, <1>7 DEF TypeOK
<1>9. WhereCallsAre'
    BY <1>1, <1>2, <1>3, <1>4, <1>6 DEF WhereCallsAre
<1>10. PermitsBalance'
  <2>1. \A g \in 1..Newest : sems[g].free + Cardinality(Holders(g)) = sems[g].cap
      BY <1>5 DEF PermitsBalance
  <2>2. Cardinality(Holders(h))' = Cardinality(Holders(h)) + 1 /\ Cardinality(Holders(h)) \in Nat
      BY <1>2, <1>4, ChatsFinite, HoldersAreChats
  <2>3. sems[h].free \in Nat
      BY <1>2, <1>5
  <2>4. sems'[h].free + Cardinality(Holders(h))' = sems'[h].cap
      BY <1>2, <1>7, <2>1, <2>2, <2>3
  <2>5. \A g \in 1..Newest : sems'[g].free + Cardinality(Holders(g))' = sems'[g].cap
    <3> TAKE g \in 1..Newest
    <3>1. CASE g = h
        BY <2>4, <3>1
    <3>2. CASE g # h
      <4>1. Holders(g)' = Holders(g)
          BY <1>4, <3>2
      <4>2. sems'[g] = sems[g]
          BY <1>6, <3>2
      <4> QED
          BY <2>1, <4>1, <4>2
    <3> QED
        BY <3>1, <3>2
  <2> QED
      BY <1>1, <1>4, <1>5, <1>6, <2>5 DEF PermitsBalance
<1>11. OneSemaphore' /\ PeakIsPeak' /\ OverspendBounded'
  <2>1. Total' = Total /\ \A g \in 1..Newest : sems'[g].cap = sems[g].cap
      BY <1>1, <1>6, <1>7 DEF Total
  <2> QED
      BY <1>1, <1>4, <1>6, <2>1, FewerChats
<1> QED
    BY <1>8, <1>9, <1>10, <1>11

LEMMA TakeSlotStep == ASSUME RouterInv, NEW c \in Calls, TakeSlot(c) PROVE RouterInv'
<1> USE DEF RouterInv
<1>1. /\ pc[c] = "rateWait" /\ slots > 0 /\ slots' = slots - 1
      /\ Goto(c, "throttled")
      /\ sem' = sem /\ sems' = sems /\ flag' = flag /\ changes' = changes
      /\ busy' = busy /\ peak' = peak
      /\ breaker' = breaker /\ cooled' = cooled /\ spent' = spent
    BY DEF TakeSlot, meter, history
<1>2. c \in Chats /\ c \in InFlight
    BY <1>1 DEF WhereCallsAre, InFlight, Ended
<1>3. pc' \in [Calls -> States] /\ pc'[c] = "throttled" /\ \A d \in Calls \ {c} : pc'[d] = pc[d]
    BY <1>1, Moves DEF States
<1>4. /\ \A g : Holders(g)' = Holders(g)
      /\ SlotHolders' = SlotHolders \cup {c} /\ c \notin SlotHolders
      /\ (InFlight \cap Chats)' = InFlight \cap Chats
  <2>1. \A d \in Chats : d \in Calls
      BY DEF Calls
  <2> QED
      BY <1>1, <1>2, <1>3, <2>1 DEF Holders, SlotHolders, InFlight, Ended
<1>5. Newest' = Newest /\ Total' = Total
    BY <1>1 DEF Newest, Total
<1>6. slots \in Nat /\ slots' \in Nat
    BY <1>1 DEF TypeOK
<1>7. TypeOK'
    BY <1>1, <1>3, <1>5, <1>6 DEF TypeOK
<1>8. WhereCallsAre'
    BY <1>1, <1>2, <1>3, <1>4, <1>5 DEF WhereCallsAre
<1>9. PermitsBalance'
  <2>1. Cardinality(SlotHolders)' = Cardinality(SlotHolders) + 1 /\ Cardinality(SlotHolders) \in Nat
      BY <1>2, <1>4, ChatsFinite, HoldersAreChats
  <2>2. slots' + Cardinality(SlotHolders)' = Slots
      BY <1>1, <1>6, <2>1 DEF PermitsBalance
  <2> QED
      BY <1>1, <1>4, <2>2 DEF PermitsBalance
<1>10. OneSemaphore' /\ PeakIsPeak' /\ OverspendBounded'
    BY <1>1, <1>4, <1>5, FewerChats
<1> QED
    BY <1>7, <1>8, <1>9, <1>10

LEMMA NewestOf == ASSUME NEW n \in Nat PROVE Cardinality(1..n) = n
    BY FS_Interval

\* The semaphore that a chat picks, after any change of the flag.
LEMMA PickSemStep ==
    ASSUME TypeOK, NEW c \in Calls, PickSem(c)
    PROVE  /\ Newest' \in Nat /\ DOMAIN sems' = 1..Newest' /\ Newest <= Newest'
           /\ \A g \in 1..Newest' : sems'[g] \in [cap : CallerCaps, free : Nat]
           /\ \A g \in 1..Newest : sems'[g] = sems[g]
           /\ Newest' \in 1..Newest' /\ sem' = [sem EXCEPT ![c] = Newest']
           /\ \A g \in 1..Newest' : g \notin 1..Newest => sems'[g].free = sems'[g].cap
           /\ sems'[Newest'].cap = flag
           /\ ~Stale => Newest' = Newest
<1>1. Newest \in Nat /\ DOMAIN sems = 1..Newest /\ flag \in CallerCaps
      /\ \A g \in 1..Newest : sems[g] \in [cap : CallerCaps, free : Nat]
    BY DEF TypeOK
<1>2. CASE Stale
  <2>1. /\ sems' = [g \in 1..Newest + 1 |-> IF g <= Newest THEN sems[g] ELSE [cap |-> flag, free |-> flag]]
        /\ sem' = [sem EXCEPT ![c] = Newest + 1]
      BY <1>2 DEF PickSem
  <2>2. DOMAIN sems' = 1..Newest + 1
      BY <2>1
  <2>3. Newest' = Newest + 1
      BY <1>1, <2>2, NewestOf DEF Newest
  <2>4. flag \in Nat
      BY <1>1, RouterAssumption DEF RouterAssumption
  <2>5. \A g \in 1..Newest : sems'[g] = sems[g]
      BY <1>1, <2>1
  <2>6. sems'[Newest + 1] = [cap |-> flag, free |-> flag]
      BY <1>1, <2>1
  <2>7. \A g \in 1..Newest + 1 : g \in 1..Newest \/ g = Newest + 1
      BY <1>1
  <2> QED
      BY <1>1, <1>2, <2>1, <2>2, <2>3, <2>4, <2>5, <2>6, <2>7
<1>3. CASE ~Stale
  <2>1. sems' = sems /\ sem' = [sem EXCEPT ![c] = Newest]
      BY <1>3 DEF PickSem
  <2>2. Newest' = Newest /\ Newest # 0 /\ sems[Newest].cap = flag
      BY <1>3, <2>1 DEF Newest, Stale
  <2> QED
      BY <1>1, <2>1, <2>2
<1> QED
    BY <1>2, <1>3

LEMMA EnterStep == ASSUME RouterInv, NEW c \in Calls, Enter(c) PROVE RouterInv'
<1> USE DEF RouterInv
<1>1. /\ pc[c] = "idle" /\ c \in Chats /\ Allow(FALSE) /\ Goto(c, "capWait") /\ PickSem(c)
      /\ peak' = IF Cardinality(InFlight \cap Chats) = peak THEN peak + 1 ELSE peak
      /\ flag' = flag /\ changes' = changes /\ slots' = slots /\ busy' = busy
    BY DEF Enter
<1>2. /\ breaker' \in {"closed", "open", "half_open"} /\ cooled' \in BOOLEAN
      /\ spent' = spent /\ Total < Cap
    BY <1>1, GateStep DEF Allow, Affordable
<1>3. /\ Newest' \in Nat /\ DOMAIN sems' = 1..Newest' /\ Newest <= Newest'
      /\ \A g \in 1..Newest' : sems'[g] \in [cap : CallerCaps, free : Nat]
      /\ \A g \in 1..Newest : sems'[g] = sems[g]
      /\ Newest' \in 1..Newest' /\ sem' = [sem EXCEPT ![c] = Newest']
      /\ \A g \in 1..Newest' : g \notin 1..Newest => sems'[g].free = sems'[g].cap
      /\ sems'[Newest'].cap = flag
      /\ ~Stale => Newest' = Newest
    BY <1>1, PickSemStep
<1>4. /\ pc' \in [Calls -> States] /\ pc'[c] = "capWait" /\ \A d \in Calls \ {c} : pc'[d] = pc[d]
      /\ sem' \in [Calls -> Nat] /\ sem'[c] = Newest' /\ \A d \in Calls \ {c} : sem'[d] = sem[d]
    BY <1>1, <1>3 DEF TypeOK, Goto, States
<1>5. \A d \in Chats : d \in Calls
    BY DEF Calls
<1>6. /\ \A g : Holders(g)' = Holders(g)
      /\ SlotHolders' = SlotHolders
      /\ (InFlight \cap Chats)' = (InFlight \cap Chats) \cup {c} /\ c \notin InFlight
    BY <1>1, <1>4, <1>5 DEF Holders, SlotHolders, InFlight, Ended
<1>7. /\ Cardinality(InFlight \cap Chats) \in Nat
      /\ Cardinality(InFlight \cap Chats)' = Cardinality(InFlight \cap Chats) + 1
    BY <1>1, <1>6, ChatsFinite, HoldersAreChats
<1>8. PeakIsPeak' /\ peak' \in Nat
    BY <1>1, <1>7 DEF PeakIsPeak, TypeOK
<1>9. TypeOK'
    BY <1>1, <1>2, <1>3, <1>4, <1>8 DEF TypeOK
<1>10. Newest \in Nat /\ \A d \in InFlight \cap Chats : sem[d] \in 1..Newest
    BY DEF TypeOK, WhereCallsAre
<1>11. WhereCallsAre'
  <2>1. \A d \in Calls : pc'[d] \in {"capWait", "rateWait", "fallback"} => d \in Chats
      BY <1>1, <1>4 DEF WhereCallsAre
  <2>2. \A d \in (InFlight \cap Chats)' : sem'[d] \in 1..Newest'
      BY <1>3, <1>4, <1>5, <1>6, <1>10
  <2> QED
      BY <2>1, <2>2 DEF WhereCallsAre
<1>12. PermitsBalance'
  <2>1. slots' + Cardinality(SlotHolders)' = Slots
      BY <1>1, <1>6 DEF PermitsBalance
  <2>2. ASSUME NEW g \in 1..Newest' PROVE sems'[g].free + Cardinality(Holders(g))' = sems'[g].cap
    <3>1. CASE g \in 1..Newest
      <4>1. sems[g].free + Cardinality(Holders(g)) = sems[g].cap
          BY <3>1 DEF PermitsBalance, TypeOK
      <4> QED
          BY <1>3, <1>6, <3>1, <4>1
    <3>2. CASE g \notin 1..Newest
      <4>1. Holders(g) = {}
          BY <1>5, <1>10, <3>2 DEF Holders, InFlight, Ended
      <4>2. Cardinality(Holders(g))' = 0
          BY <1>6, <4>1, FS_EmptySet
      <4>3. sems'[g].free \in Nat /\ sems'[g].free = sems'[g].cap
          BY <1>3, <3>2
      <4> QED
          BY <4>2, <4>3
    <3> QED
        BY <3>1, <3>2
  <2> QED
      BY <1>3, <2>1, <2>2 DEF PermitsBalance
<1>13. OneSemaphore'
  <2> SUFFICES ASSUME ~busy, NEW d \in InFlight \cap Chats, d # c PROVE sem[d] = Newest'
      BY <1>1, <1>3, <1>4, <1>5, <1>6 DEF OneSemaphore
  <2>1. sem[d] = Newest /\ sems[Newest].cap = flag /\ Newest \in 1..Newest
      BY <1>10 DEF OneSemaphore
  <2> QED
      BY <1>3, <2>1 DEF Stale
<1>14. OverspendBounded'
    BY <1>2 DEF OverspendBounded, Total
<1> QED
    BY <1>8, <1>9, <1>11, <1>12, <1>13, <1>14

LEMMA ChangeFlagStep == RouterInv /\ ChangeFlag => RouterInv'
<1> SUFFICES ASSUME RouterInv, ChangeFlag PROVE RouterInv'
    OBVIOUS
<1> USE DEF RouterInv
<1>1. /\ flag' \in CallerCaps /\ changes' = changes + 1
      /\ pc' = pc /\ sems' = sems /\ sem' = sem /\ slots' = slots /\ peak' = peak
      /\ breaker' = breaker /\ cooled' = cooled /\ spent' = spent
    BY DEF ChangeFlag, meter, limits
<1>2. /\ busy' \in BOOLEAN
      /\ ~busy' => InFlight \cap Chats = {}
  <2>1. busy' = (busy \/ InFlight \cap Chats # {}) /\ busy \in BOOLEAN
      BY DEF ChangeFlag, TypeOK
  <2> QED
      BY <2>1
<1>3. /\ Newest' = Newest /\ Total' = Total
      /\ \A g : Holders(g)' = Holders(g)
      /\ SlotHolders' = SlotHolders
      /\ (InFlight \cap Chats)' = InFlight \cap Chats
    BY <1>1 DEF Newest, Total, Holders, SlotHolders, InFlight
<1>4. TypeOK'
  <2>1. changes' \in Nat
      BY <1>1 DEF TypeOK
  <2> QED
      BY <1>1, <1>2, <1>3, <2>1 DEF TypeOK
<1>5. WhereCallsAre' /\ PermitsBalance'
    BY <1>1, <1>3 DEF WhereCallsAre, PermitsBalance
<1>6. OneSemaphore'
    BY <1>2, <1>3 DEF OneSemaphore
<1>7. PeakIsPeak' /\ OverspendBounded'
    BY <1>1, <1>3 DEF PeakIsPeak, OverspendBounded
<1> QED
    BY <1>4, <1>5, <1>6, <1>7

\* Whatever leaves the calls, the permits and the flag alone, and spends nothing.
LEMMA MeterStep ==
    ASSUME RouterInv, breaker' \in {"closed", "open", "half_open"}, cooled' \in BOOLEAN,
           spent' \in [primary : Nat, fallback : Nat], Total' <= Total,
           UNCHANGED <<pc, flag, changes, limits, history>>
    PROVE  RouterInv'
<1> USE DEF RouterInv
<1>1. /\ pc' = pc /\ sems' = sems /\ sem' = sem /\ slots' = slots /\ flag' = flag
      /\ changes' = changes /\ busy' = busy /\ peak' = peak
    BY DEF limits, history
<1>2. /\ Newest' = Newest
      /\ \A g : Holders(g)' = Holders(g)
      /\ SlotHolders' = SlotHolders
      /\ (InFlight \cap Chats)' = InFlight \cap Chats
    BY <1>1 DEF Newest, Holders, SlotHolders, InFlight
<1>3. TypeOK'
    BY <1>1, <1>2 DEF TypeOK
<1>4. WhereCallsAre' /\ PermitsBalance' /\ OneSemaphore' /\ PeakIsPeak'
    BY <1>1, <1>2 DEF WhereCallsAre, PermitsBalance, OneSemaphore, PeakIsPeak
<1>5. OverspendBounded'
  <2>1. Total \in Nat /\ Total' \in Nat
      BY DEF TypeOK, Total
  <2>2. Cap \in Nat /\ peak \in Nat /\ Cardinality(InFlight \cap Chats) \in Nat
      BY RouterAssumption, HoldersAreChats, ChatsFinite DEF RouterAssumption, TypeOK
  <2>3. Cardinality(InFlight \cap Chats)' = Cardinality(InFlight \cap Chats) /\ peak' = peak
      BY <1>1, <1>2
  <2> QED
      BY <2>1, <2>2, <2>3 DEF OverspendBounded
<1> QED
    BY <1>3, <1>4, <1>5

LEMMA EnvironmentStep ==
    RouterInv /\ (CooldownPasses \/ WindowSlides \/ Reset \/ UNCHANGED vars) => RouterInv'
<1> SUFFICES ASSUME RouterInv, CooldownPasses \/ WindowSlides \/ Reset \/ UNCHANGED vars PROVE RouterInv'
    OBVIOUS
<1>1. /\ breaker \in {"closed", "open", "half_open"} /\ cooled \in BOOLEAN
      /\ spent \in [primary : Nat, fallback : Nat] /\ Total \in Nat
    BY DEF RouterInv, TypeOK, Total
<1>2. CASE CooldownPasses
  <2>1. breaker' = breaker /\ cooled' = TRUE /\ spent' = spent /\ Total' = Total
      BY <1>2 DEF CooldownPasses, Total
  <2> QED
      BY <1>1, <1>2, <2>1, MeterStep DEF CooldownPasses
<1>3. CASE Reset
  <2>1. breaker' = "closed" /\ cooled' = FALSE /\ spent' = spent /\ Total' = Total
      BY <1>3 DEF Reset, Total
  <2>2. UNCHANGED <<pc, flag, changes, limits, history>>
      BY <1>3 DEF Reset
  <2>3. breaker' \in {"closed", "open", "half_open"} /\ cooled' \in BOOLEAN
      BY <2>1
  <2>4. spent' \in [primary : Nat, fallback : Nat] /\ Total' <= Total
      BY <1>1, <2>1
  <2> QED
      BY <2>2, <2>3, <2>4, MeterStep
<1>4. CASE WindowSlides
  <2>1. PICK state \in {"primary", "fallback"} :
          spent[state] > 0 /\ spent' = [spent EXCEPT ![state] = @ - 1]
      BY <1>4 DEF WindowSlides
  <2>2. /\ breaker' = breaker /\ cooled' = cooled
        /\ UNCHANGED <<pc, flag, changes, limits, history>>
      BY <1>4 DEF WindowSlides
  <2>3. spent' \in [primary : Nat, fallback : Nat] /\ Total' <= Total
    <3>1. CASE state = "primary"
        BY <1>1, <2>1, <3>1 DEF Total
    <3>2. CASE state = "fallback"
        BY <1>1, <2>1, <3>2 DEF Total
    <3> QED
        BY <3>1, <3>2
  <2> QED
      BY <1>1, <2>2, <2>3, MeterStep
<1>5. CASE UNCHANGED vars
  <2>1. /\ breaker' = breaker /\ cooled' = cooled /\ spent' = spent /\ Total' = Total
        /\ UNCHANGED <<pc, flag, changes, limits, history>>
      BY <1>5 DEF vars, meter, Total
  <2> QED
      BY <1>1, <2>1, MeterStep
<1> QED
    BY <1>2, <1>3, <1>4, <1>5

-----------------------------------------------------------------------------
LEMMA RouterInvIsInvariant == Spec => []RouterInv
<1>1. Init => RouterInv
  <2> SUFFICES ASSUME Init PROVE RouterInv
      OBVIOUS
  <2>1. DOMAIN sems = {} /\ 1..0 = {} /\ Newest = 0
      BY FS_EmptySet DEF Init, Newest
  <2>2. \A g : Holders(g) = {}
      BY DEF Init, Holders, Calls
  <2>3. SlotHolders = {} /\ InFlight \cap Chats = {}
      BY DEF Init, SlotHolders, InFlight, Calls
  <2>4. Slots \in Nat /\ Cap \in Nat /\ Cardinality({}) = 0
      BY RouterAssumption, FS_EmptySet DEF RouterAssumption
  <2>5. TypeOK
      BY <2>1, <2>4 DEF Init, TypeOK, States
  <2>6. PermitsBalance
      BY <2>1, <2>3, <2>4 DEF Init, PermitsBalance
  <2>7. WhereCallsAre
      BY <2>3 DEF Init, WhereCallsAre
  <2>0. Cardinality(InFlight \cap Chats) = 0 /\ peak = 0 /\ Total = 0
    <3>1. Cardinality(InFlight \cap Chats) = 0
        BY <2>3, FS_EmptySet
    <3>2. spent.primary = 0 /\ spent.fallback = 0 /\ peak = 0
        BY DEF Init
    <3> QED
        BY <3>1, <3>2 DEF Total
  <2>8. OneSemaphore /\ PeakIsPeak
      BY <2>0, <2>3 DEF OneSemaphore, PeakIsPeak
  <2>9. OverspendBounded
    <3>1. Cap > 0
        BY RouterAssumption DEF RouterAssumption
    <3> QED
        BY <2>0, <3>1 DEF OverspendBounded
  <2> QED
      BY <2>5, <2>6, <2>7, <2>8, <2>9 DEF RouterInv
<1>2. RouterInv /\ [Next]_vars => RouterInv'
    BY EnterStep, EnterEmbedStep, TurnAwayStep, TakeSemStep, TakeSlotStep, CallPrimaryStep,
       SucceedStep, PrimaryDownStep, BreakStep, CancelStep, ChangeFlagStep, EnvironmentStep
       DEF Next
<1> QED
    BY <1>1, <1>2, PTL DEF Spec

\* No permit is lost or given twice, whatever a call does and wherever it is cancelled.
THEOREM PermitsKept == Spec => []PermitsBalance
<1>1. RouterInv => PermitsBalance
    BY DEF RouterInv
<1> QED
    BY <1>1, RouterInvIsInvariant, PTL

\* The permits, the caller's cap and the budget bound what a caller holds, for any calls,
\* caps, slots and changes of the flag.
THEOREM LimitsAlwaysHold == Spec => []LimitsHold
<1>1. RouterInv => LimitsHold
  <2> SUFFICES ASSUME RouterInv PROVE CallerCapHolds
      BY DEF RouterInv, LimitsHold
  <2> SUFFICES ASSUME ~busy
               PROVE  Cardinality(UNION {Holders(g) : g \in DOMAIN sems}) <= flag
      BY DEF CallerCapHolds
  <2> DEFINE all == UNION {Holders(g) : g \in DOMAIN sems}
  <2>1. flag \in Nat /\ \A g : Holders(g) \subseteq InFlight \cap Chats
    <3>1. flag \in Nat
        BY RouterAssumption DEF RouterAssumption, RouterInv, TypeOK
    <3>2. \A g : Holders(g) \subseteq InFlight \cap Chats
        BY DEF Holders, InFlight, Ended, Calls
    <3> QED
        BY <3>1, <3>2
  <2>2. CASE all = {}
      BY <2>1, <2>2, FS_EmptySet
  <2>3. CASE all # {}
    <3>1. PICK c \in InFlight \cap Chats : sem[c] = Newest
        BY <2>1, <2>3 DEF RouterInv, OneSemaphore
    <3>2. Newest \in DOMAIN sems /\ sems[Newest].cap = flag /\ sems[Newest].free \in Nat
        BY <3>1 DEF RouterInv, OneSemaphore, WhereCallsAre, TypeOK
    <3>3. all \subseteq Holders(Newest)
        BY <2>1 DEF Holders, RouterInv, OneSemaphore
    <3>4. sems[Newest].free + Cardinality(Holders(Newest)) = flag
        BY <3>2 DEF RouterInv, PermitsBalance
    <3>5. /\ Cardinality(Holders(Newest)) \in Nat /\ Cardinality(all) \in Nat
          /\ Cardinality(all) <= Cardinality(Holders(Newest))
        BY <3>3, HoldersAreChats, ChatsFinite, FS_Subset
    <3> QED
        BY <2>1, <3>2, <3>4, <3>5
  <2> QED
      BY <2>2, <2>3
<1> QED
    BY <1>1, RouterInvIsInvariant, PTL
=============================================================================
