----------------------------- MODULE SyncProofs -----------------------------
(***************************************************************************)
(* Proofs about SourceSync for any number of requests, any plan limit and  *)
(* any number of operations: the types, that items settle oldest first,    *)
(* and that a stored workbook is never older than its operation.  And      *)
(* about OfflineQueue for any number of requests and syncs, overlapping as *)
(* they may: a queued request that nothing crossed while it was enqueued   *)
(* is kept until an answer names it.                                       *)
(***************************************************************************)
EXTENDS SourceSync, OfflineQueue, FiniteSetTheorems, WellFoundedInduction, TLAPS

-----------------------------------------------------------------------------
(* The inductive invariant *)

\* The items committed before a transaction began are older than its own.
BeforeIsOlder ==
    /\ \A t \in DOMAIN begun : begun[t] <= Len(status)
    /\ \A t \in DOMAIN begun : \A m \in 1..begun[t] : made[m] < t

\* Every item a request skipped, whose operation was over before that of one
\* it has still to sync began, is settled: a plan holds the oldest pending
\* items, and the loop passes an item only once it is synced.
PlansHaveNoGap ==
    \A w \in Worker : \A n \in plan[w] : \A m \in Before(n) :
        m \notin plan[w] => status[m] # "pending"

\* The workbooks of a plan were made when all its items existed.
BodiesCoverPlans == \A w \in Worker : \A n \in plan[w] : body[w] >= n

IInv ==
    /\ TypeOK
    /\ BeforeIsOlder
    /\ PlansHaveNoGap
    /\ BodiesCoverPlans
    /\ SettlesInOrder
    /\ WorkbookShowsOperation

-----------------------------------------------------------------------------
(* Lemmas about items and plans *)

\* A set of numbers has a least one: the sets 0..n are well founded.
LEMMA LeastElement ==
    ASSUME NEW S \in SUBSET Nat, S # {}
    PROVE  \E n \in S : \A m \in S : n <= m
<1> DEFINE Below == {0..n : n \in S}
           R == StrictSubsetOrdering(Nat)
<1>1. Below \subseteq FiniteSubsetsOf(Nat) /\ Below # {}
  <2>1. \A n \in S : 0..n \in SUBSET Nat /\ IsFiniteSet(0..n)
    BY FS_Interval
  <2> QED BY <2>1 DEF FiniteSubsetsOf
<1>2. IsWellFoundedOn(R, FiniteSubsetsOf(Nat))
  BY FS_StrictSubsetOrderingWellFounded
<1>3. \E x \in Below : \A y \in Below : ~ (<<y, x>> \in R)
  BY <1>1, <1>2, WFMin
<1>4. PICK n \in S : \A m \in S : ~ (<<0..m, 0..n>> \in R)
  BY <1>3
<1>5. ASSUME NEW m \in S, m < n PROVE FALSE
  <2>1. 0..m \subseteq 0..n /\ n \in 0..n /\ n \notin 0..m
    BY <1>5
  <2>2. <<0..m, 0..n>> \in R
    BY <2>1 DEF StrictSubsetOrdering
  <2> QED BY <2>2, <1>4
<1> QED BY <1>5

LEMMA ItemBasics ==
    ASSUME TypeOK
    PROVE  /\ Len(status) \in Nat /\ Len(begun) \in Nat
           /\ Items = 1..Len(status) /\ Items = DOMAIN made
           /\ DOMAIN begun = 1..Len(begun)
           /\ Items \subseteq Item
           /\ \A n \in Items : /\ status[n] \in {"pending", "synced", "failed"}
                               /\ made[n] \in DOMAIN begun /\ made[n] \in Nat
           /\ \A t \in DOMAIN begun : begun[t] \in Nat
<1>1. Len(status) \in Nat /\ Len(begun) \in Nat /\ DOMAIN begun = 1..Len(begun)
  BY DEF TypeOK
<1>2. Items = 1..Len(status) /\ Items = DOMAIN made
  BY DEF TypeOK, Items
<1>3. Items \subseteq Item
  BY <1>1, <1>2, PlanAssumption DEF TypeOK, Item
<1>4. \A n \in Items : status[n] \in {"pending", "synced", "failed"}
  BY <1>2 DEF TypeOK
<1>5. \A n \in Items : made[n] \in DOMAIN begun /\ made[n] \in Nat
  BY <1>1, <1>2 DEF TypeOK
<1>6. \A t \in DOMAIN begun : begun[t] \in Nat
  BY PlanAssumption DEF TypeOK
<1> QED BY <1>1, <1>2, <1>3, <1>4, <1>5, <1>6

\* What was committed before an item's transaction began is older.
LEMMA BeforeBasics ==
    ASSUME TypeOK, BeforeIsOlder, NEW n \in Items, NEW m \in Before(n)
    PROVE  m \in Items /\ made[m] < made[n] /\ ~ Older(n, m) /\ Older(m, n)
<1>1. made[n] \in DOMAIN begun /\ begun[made[n]] \in Nat
  BY ItemBasics
<1>2. m \in 1..begun[made[n]] /\ begun[made[n]] <= Len(status)
  BY <1>1 DEF Before, BeforeIsOlder
<1>3. m \in Items /\ made[m] < made[n]
  BY <1>1, <1>2, ItemBasics DEF BeforeIsOlder
<1>4. made[m] \in Nat /\ made[n] \in Nat
  BY <1>3, ItemBasics
<1> QED BY <1>3, <1>4 DEF Older

\* The item a request works on is the oldest of its plan.
LEMMA CurrentIsOldest ==
    ASSUME TypeOK, NEW w \in Worker, phase[w] # "idle"
    PROVE  /\ Current(w) \in plan[w]
           /\ Current(w) \in Items
           /\ \A m \in plan[w] : Older(Current(w), m)
<1>1. plan[w] # {} /\ plan[w] \subseteq Items
  BY DEF TypeOK
<1> DEFINE S == {made[n] : n \in plan[w]}
<1>2. S \in SUBSET Nat /\ S # {}
  BY <1>1, ItemBasics
<1> HIDE DEF S
<1>3. \E t \in S : \A u \in S : t <= u
  BY <1>2, LeastElement
<1> USE DEF S
<1>4. \E n \in plan[w] : \A m \in plan[w] : Older(n, m)
  BY <1>3 DEF Older
<1> QED BY <1>1, <1>4 DEF Current

\* A plan takes the oldest pending items.
LEMMA PlannedIsOldest ==
    ASSUME TypeOK, BeforeIsOlder
    PROVE  /\ Planned \subseteq Items
           /\ \A n \in Planned : \A m \in Before(n) :
                 m \notin Planned => status[m] # "pending"
<1>1. Planned \subseteq Pending /\ Pending \subseteq Items
  BY DEF Planned, Pending
<1>2. SUFFICES ASSUME NEW n \in Planned, NEW m \in Before(n), status[m] = "pending"
               PROVE  m \in Planned
  BY <1>1
<1>3. n \in Items /\ m \in Items /\ m \in Pending /\ made[m] < made[n]
  BY <1>1, <1>2, BeforeBasics DEF Pending
<1> DEFINE Upto(k) == {i \in Pending : Older(i, k)}
<1>4. Upto(n) \in SUBSET (1..Len(status)) /\ Upto(m) \in SUBSET Upto(n)
  <2>1. \A i \in Pending : i \in 1..Len(status) /\ made[i] \in Nat
    BY <1>1, ItemBasics
  <2>2. made[m] \in Nat /\ made[n] \in Nat
    BY <1>3, ItemBasics
  <2>3. \A i \in Upto(m) : Older(i, n)
    BY <1>3, <2>1, <2>2 DEF Older
  <2> QED BY <2>1, <2>3
<1>5. IsFiniteSet(1..Len(status))
  BY ItemBasics, FS_Interval
<1>6. IsFiniteSet(Upto(n))
  BY <1>4, <1>5, FS_Subset
<1>7. /\ Cardinality(Upto(m)) <= Cardinality(Upto(n))
      /\ Cardinality(Upto(n)) \in Nat /\ Cardinality(Upto(m)) \in Nat
  <2>1. IsFiniteSet(Upto(m)) /\ Cardinality(Upto(m)) <= Cardinality(Upto(n))
    BY <1>4, <1>6, FS_Subset
  <2> QED BY <2>1, <1>6, FS_CardinalityType
<1>8. Cardinality(Upto(n)) <= MaxPlan
  BY DEF Planned
<1>9. Cardinality(Upto(m)) <= MaxPlan
  BY <1>7, <1>8, PlanAssumption
<1> QED BY <1>3, <1>9 DEF Planned

-----------------------------------------------------------------------------
(* Settling the current item of a request *)

\* Whoever settles the oldest item of a plan settles it in order.
LEMMA SettleCurrent ==
    ASSUME IInv, NEW w \in Worker, phase[w] # "idle",
           NEW s \in {"synced", "failed"},
           status' = [status EXCEPT ![Current(w)] = s],
           UNCHANGED <<begun, made>>
    PROVE  /\ status' \in Seq({"pending", "synced", "failed"})
           /\ Len(status') = Len(status) /\ Items' = Items
           /\ SettlesInOrder'
           /\ \A m \in Items : status[m] # "pending" => status'[m] # "pending"
<1>1. /\ Current(w) \in plan[w] /\ Current(w) \in Items
      /\ \A m \in plan[w] : Older(Current(w), m)
  BY CurrentIsOldest DEF IInv
<1>2. status' \in Seq({"pending", "synced", "failed"}) /\ Len(status') = Len(status)
  BY <1>1 DEF IInv, TypeOK, Items
<1>3. Items' = Items
  BY <1>2, ItemBasics DEF IInv, Items, TypeOK
<1>4. \A m \in Items : status'[m] = IF m = Current(w) THEN s ELSE status[m]
  BY <1>1 DEF Items, IInv, TypeOK
<1>5. \A m \in Before(Current(w)) : m \notin plan[w] /\ m \in Items
  BY <1>1, BeforeBasics DEF IInv
<1>6. \A m \in Before(Current(w)) : status[m] # "pending"
  BY <1>1, <1>5 DEF IInv, PlansHaveNoGap
<1>7. ASSUME NEW n \in Items, status'[n] # "pending", NEW m \in Before(n)
      PROVE  status'[m] # "pending"
  <2>1. m \in Items
    BY <1>7, BeforeBasics DEF IInv
  <2>2. CASE n = Current(w)
    BY <2>1, <2>2, <1>4, <1>6, <1>7
  <2>3. CASE n # Current(w)
    <3>1. status[n] # "pending"
      BY <1>4, <1>7, <2>3
    <3>2. status[m] # "pending"
      BY <1>7, <3>1 DEF IInv, SettlesInOrder
    <3> QED BY <2>1, <3>2, <1>4
  <2> QED BY <2>2, <2>3
<1>8. SettlesInOrder'
  BY <1>3, <1>7 DEF SettlesInOrder, Before
<1> QED BY <1>2, <1>3, <1>4, <1>8

-----------------------------------------------------------------------------
(* The invariant holds *)

LEMMA InitInv == Init => IInv
<1> SUFFICES ASSUME Init PROVE IInv
  OBVIOUS
<1>1. /\ status = <<>> /\ made = <<>> /\ begun = <<>>
      /\ Items = {} /\ DOMAIN begun = {} /\ DOMAIN made = {}
      /\ Len(status) = 0 /\ Len(made) = 0 /\ Len(begun) = 0
  BY DEF Init, Items
<1>2. TypeOK
  <2>1. IsInjective(made)
    BY <1>1 DEF IsInjective
  <2> QED BY <1>1, <2>1, PlanAssumption DEF Init, TypeOK, Item
<1> QED BY <1>1, <1>2 DEF Init, IInv, BeforeIsOlder, PlansHaveNoGap, BodiesCoverPlans,
                           SettlesInOrder, WorkbookShowsOperation

\* A transaction begins: nothing that is committed is disturbed.
LEMMA BeginStep == IInv /\ Begin => IInv'
<1> SUFFICES ASSUME IInv, Begin PROVE IInv'
  OBVIOUS
<1>1. /\ Len(status) \in Nat /\ Len(begun) \in Nat /\ Len(status) <= MaxItems
      /\ DOMAIN begun = 1..Len(begun) /\ begun \in Seq(0..MaxItems)
      /\ MaxItems \in Nat
  BY ItemBasics, PlanAssumption DEF IInv, TypeOK
<1>2. /\ Len(begun') = Len(begun) + 1
      /\ begun' \in Seq(0..MaxItems)
      /\ DOMAIN begun' = 1..(Len(begun) + 1)
      /\ \A t \in DOMAIN begun : begun'[t] = begun[t]
      /\ begun'[Len(begun) + 1] = Len(status)
  BY <1>1 DEF Begin
<1>3. Items' = Items /\ status' = status /\ made' = made
  BY DEF Begin, Items
<1>4. DOMAIN begun \subseteq DOMAIN begun'
  BY <1>1, <1>2
<1>5. TypeOK'
  <2>1. made' \in Seq(DOMAIN begun')
    BY <1>3, <1>4 DEF IInv, TypeOK
  <2>2. Len(begun') <= MaxItems
    BY <1>1, <1>2 DEF Begin
  <2> QED BY <2>1, <2>2, <1>2, <1>3 DEF IInv, TypeOK, Begin
<1>6. \A n \in Items : made[n] \in DOMAIN begun /\ made[n] \in Nat
  BY ItemBasics DEF IInv
<1>7. \A n \in Items : Before(n)' = Before(n)
  BY <1>2, <1>3, <1>6 DEF Before
<1>8. BeforeIsOlder'
  <2>1. \A t \in DOMAIN begun' : begun'[t] <= Len(status)
    <3>1. \A t \in DOMAIN begun : begun[t] <= Len(status)
      BY DEF IInv, BeforeIsOlder
    <3>2. \A t \in DOMAIN begun' : t \in DOMAIN begun \/ t = Len(begun) + 1
      BY <1>1, <1>2
    <3>3. Len(status) <= Len(status)
      BY <1>1
    <3> QED BY <1>2, <3>1, <3>2, <3>3
  <2>2. ASSUME NEW t \in DOMAIN begun', NEW m \in 1..begun'[t] PROVE made[m] < t
    <3>1. CASE t \in DOMAIN begun
      BY <1>2, <2>2, <3>1 DEF IInv, BeforeIsOlder
    <3>2. CASE t = Len(begun) + 1
      <4>1. m \in Items
        BY <1>2, <2>2, <3>2, ItemBasics DEF IInv
      <4> QED BY <4>1, <1>1, <1>6, <3>2
    <3> QED BY <1>1, <1>2, <2>2, <3>1, <3>2
  <2> QED BY <1>3, <2>1, <2>2 DEF BeforeIsOlder
<1>9. PlansHaveNoGap' /\ BodiesCoverPlans' /\ SettlesInOrder' /\ WorkbookShowsOperation'
  <2>1. plan' = plan /\ body' = body /\ object' = object
    BY DEF Begin
  <2>2. \A w \in Worker : plan[w] \subseteq Items
    BY DEF IInv, TypeOK
  <2>3. PlansHaveNoGap'
    BY <1>3, <1>7, <2>1, <2>2 DEF IInv, PlansHaveNoGap
  <2>4. SettlesInOrder'
    BY <1>3, <1>7 DEF IInv, SettlesInOrder
  <2> QED BY <1>3, <2>1, <2>3, <2>4 DEF IInv, BodiesCoverPlans, WorkbookShowsOperation
<1> QED BY <1>5, <1>8, <1>9 DEF IInv

\* An operation commits: its item is the newest and nobody has planned it.
LEMMA QueueStep == ASSUME IInv, NEW t \in DOMAIN begun, Queue(t) PROVE IInv'
<1>1. /\ Len(status) \in Nat /\ Len(made) = Len(status)
      /\ DOMAIN made = 1..Len(status) /\ Items = 1..Len(status)
      /\ t \in 1..Len(begun) /\ Len(begun) <= MaxItems /\ Len(begun) \in Nat
  BY ItemBasics DEF IInv, TypeOK
<1>2. /\ Len(status') = Len(status) + 1
      /\ status' \in Seq({"pending", "synced", "failed"})
      /\ \A n \in Items : status'[n] = status[n]
      /\ status'[Len(status) + 1] = "pending"
      /\ Items' = 1..(Len(status) + 1)
  BY <1>1 DEF IInv, TypeOK, Queue, Items
<1>3. /\ Len(made') = Len(status) + 1
      /\ made' \in Seq(DOMAIN begun)
      /\ \A n \in Items : made'[n] = made[n]
      /\ made'[Len(status) + 1] = t
      /\ DOMAIN made' = 1..(Len(status) + 1)
  BY <1>1 DEF IInv, TypeOK, Queue
<1>4. begun' = begun /\ object' = object /\ phase' = phase /\ plan' = plan /\ body' = body
  BY DEF Queue
<1>5. \A n \in DOMAIN made : made[n] # t
  BY DEF Queue, Range
<1>6. IsInjective(made')
  <2>1. \A n, m \in 1..Len(status) : made[n] = made[m] => n = m
    BY <1>1 DEF IInv, TypeOK, IsInjective
  <2>2. ASSUME NEW n \in DOMAIN made', NEW m \in DOMAIN made', made'[n] = made'[m]
        PROVE  n = m
    <3>1. (n \in Items \/ n = Len(status) + 1) /\ (m \in Items \/ m = Len(status) + 1)
      BY <1>1, <1>3
    <3> QED BY <1>1, <1>3, <1>5, <2>1, <2>2, <3>1
  <2> QED BY <2>2 DEF IsInjective
<1>7. Len(status') <= MaxItems
  <2> DEFINE S == 1..(Len(status) + 1)
             T == 1..Len(begun)
  <2>1. made' \in [S -> T]
    BY <1>1, <1>3
  <2>2. made' \in Injection(S, T)
    BY <2>1, <1>6 DEF Injection
  <2>3. /\ IsFiniteSet(T) /\ Cardinality(T) = Len(begun)
        /\ IsFiniteSet(S) /\ Cardinality(S) = Len(status) + 1
    <3>1. \A k \in Nat : IsFiniteSet(1..k) /\ Cardinality(1..k) = k
      <4> TAKE k \in Nat
      <4>1. /\ IsFiniteSet(1..k)
            /\ Cardinality(1..k) = IF 1 > k THEN 0 ELSE k - 1 + 1
        BY FS_Interval
      <4> QED BY <4>1
    <3>2. Len(status) + 1 \in Nat
      BY <1>1
    <3> QED BY <1>1, <3>1, <3>2
  <2>4. Cardinality(S) <= Cardinality(T)
    BY <2>2, <2>3, FS_Injection
  <2> QED BY <1>1, <1>2, <2>3, <2>4, PlanAssumption
<1>8. TypeOK'
  <2>1. Items \subseteq Items'
    BY <1>1, <1>2
  <2>2. plan' \in [Worker -> SUBSET Items']
    BY <1>4, <2>1 DEF IInv, TypeOK
  <2> QED BY <1>2, <1>3, <1>4, <1>6, <1>7, <2>2 DEF IInv, TypeOK
<1>9. \A n \in Items : Before(n)' = Before(n)
  BY <1>3, <1>4 DEF Before
<1>10. BeforeIsOlder'
  <2>1. \A u \in DOMAIN begun : begun[u] \in Nat /\ begun[u] <= Len(status)
    BY ItemBasics DEF IInv, BeforeIsOlder
  <2>2. \A u \in DOMAIN begun : \A m \in 1..begun[u] : made'[m] < u
    BY <1>1, <1>3, <2>1 DEF IInv, BeforeIsOlder
  <2> QED BY <1>1, <1>2, <1>4, <2>1, <2>2 DEF BeforeIsOlder
<1>11. PlansHaveNoGap'
  <2> SUFFICES ASSUME NEW w \in Worker, NEW n \in plan[w], NEW m \in Before(n)',
                      m \notin plan[w]
               PROVE  status'[m] # "pending"
    BY <1>4 DEF PlansHaveNoGap
  <2>1. n \in Items /\ m \in Before(n)
    BY <1>9 DEF IInv, TypeOK
  <2>2. m \in Items
    BY <2>1, BeforeBasics DEF IInv
  <2>3. status[m] # "pending"
    BY <2>1 DEF IInv, PlansHaveNoGap
  <2> QED BY <1>2, <2>2, <2>3
<1>12. BodiesCoverPlans'
  BY <1>4 DEF IInv, BodiesCoverPlans
<1>13. SettlesInOrder'
  <2> SUFFICES ASSUME NEW n \in Items', status'[n] # "pending", NEW m \in Before(n)'
               PROVE  status'[m] # "pending"
    BY DEF SettlesInOrder
  <2>1. n \in Items
    BY <1>1, <1>2
  <2>2. m \in Before(n)
    BY <2>1, <1>9
  <2>3. m \in Items
    BY <2>1, <2>2, BeforeBasics DEF IInv
  <2> QED BY <1>2, <2>1, <2>2, <2>3 DEF IInv, SettlesInOrder
<1>14. WorkbookShowsOperation'
  BY <1>1, <1>2, <1>4 DEF IInv, WorkbookShowsOperation, TypeOK
<1> QED BY <1>8, <1>10, <1>11, <1>12, <1>13, <1>14 DEF IInv

LEMMA PlanStep == ASSUME IInv, NEW w \in Worker, Plan(w) PROVE IInv'
<1>1. Planned \subseteq Items /\ Planned # {} /\ Len(status) \in Nat
  BY PlannedIsOldest DEF Plan, HasWork, IInv, TypeOK
<1>2. Items' = Items /\ status' = status /\ begun' = begun /\ made' = made /\ object' = object
  BY DEF Plan, Items, itemVars
<1>3. /\ plan' = [plan EXCEPT ![w] = Planned]
      /\ body' = [body EXCEPT ![w] = Len(status)]
  BY DEF Plan, StagedRows
<1>4. TypeOK'
  BY <1>1, <1>2, <1>3, PlanAssumption DEF IInv, TypeOK, Plan, Busy
<1>5. PlansHaveNoGap'
  <2>1. \A v \in Worker : plan'[v] = plan[v] \/ plan'[v] = Planned
    BY <1>3 DEF IInv, TypeOK
  <2> QED BY <1>2, <2>1, PlannedIsOldest DEF IInv, PlansHaveNoGap, Before
<1>6. BodiesCoverPlans'
  <2>1. \A n \in Planned : Len(status) >= n
    BY <1>1, ItemBasics DEF IInv
  <2> QED BY <2>1, <1>3 DEF IInv, BodiesCoverPlans, TypeOK
<1>7. BeforeIsOlder' /\ SettlesInOrder' /\ WorkbookShowsOperation'
  BY <1>2 DEF IInv, BeforeIsOlder, SettlesInOrder, WorkbookShowsOperation, Before
<1> QED BY <1>4, <1>5, <1>6, <1>7 DEF IInv

\* A request that writes the object of its current item.
LEMMA StoreStep ==
    ASSUME IInv, NEW w \in Worker, phase[w] = "uploading",
           object' = Stored(w) \/ UNCHANGED object,
           NEW place \in Busy, phase' = [phase EXCEPT ![w] = place],
           UNCHANGED <<itemVars, plan, body>>
    PROVE  IInv'
<1>1. Current(w) \in plan[w] /\ Current(w) \in Items /\ body[w] >= Current(w)
  BY CurrentIsOldest DEF IInv, BodiesCoverPlans
<1>2. Items' = Items /\ begun' = begun /\ made' = made /\ status' = status
  BY DEF Items, itemVars
<1>3. TypeOK'
  <2>1. object' \in [Item -> 0..MaxItems]
    BY DEF IInv, TypeOK, Stored
  <2> QED BY <2>1, <1>2 DEF IInv, TypeOK, Busy
<1>4. BeforeIsOlder' /\ PlansHaveNoGap' /\ BodiesCoverPlans' /\ SettlesInOrder'
  BY <1>2 DEF IInv, BeforeIsOlder, PlansHaveNoGap, BodiesCoverPlans, SettlesInOrder, Before
<1>5. WorkbookShowsOperation'
  BY <1>1, <1>2 DEF IInv, TypeOK, WorkbookShowsOperation, Stored
<1> QED BY <1>3, <1>4, <1>5 DEF IInv

\* A request that gives up its plan, having settled its current item or not.
LEMMA LeaveStep ==
    ASSUME IInv, NEW w \in Worker, Leave(w), UNCHANGED <<begun, made, object>>,
           status' \in Seq({"pending", "synced", "failed"}),
           Len(status') = Len(status), Items' = Items, SettlesInOrder',
           \A m \in Items : status[m] # "pending" => status'[m] # "pending"
    PROVE  IInv'
<1>1. TypeOK'
  BY PlanAssumption DEF IInv, TypeOK, Leave
<1>2. PlansHaveNoGap'
  <2> SUFFICES ASSUME NEW v \in Worker, NEW n \in plan'[v], NEW m \in Before(n),
                      m \notin plan'[v]
               PROVE  status'[m] # "pending"
    BY DEF PlansHaveNoGap, Before
  <2>1. n \in plan[v] /\ m \notin plan[v]
    BY DEF Leave, IInv, TypeOK
  <2>2. m \in Items
    BY <2>1, BeforeBasics DEF IInv, TypeOK
  <2> QED BY <2>1, <2>2 DEF IInv, PlansHaveNoGap
<1>3. BodiesCoverPlans'
  BY DEF IInv, BodiesCoverPlans, TypeOK, Leave
<1>4. BeforeIsOlder' /\ WorkbookShowsOperation'
  BY DEF IInv, BeforeIsOlder, WorkbookShowsOperation
<1> QED BY <1>1, <1>2, <1>3, <1>4 DEF IInv

\* The store reports the current item synced and the loop goes on.
LEMMA SyncedStep ==
    ASSUME IInv, NEW w \in Worker, phase[w] = "completing",
           status' = [status EXCEPT ![Current(w)] = "synced"],
           Proceed(w), UNCHANGED <<begun, made, object>>
    PROVE  IInv'
<1> DEFINE rest == plan[w] \ {Current(w)}
<1>1. /\ status' \in Seq({"pending", "synced", "failed"})
      /\ Len(status') = Len(status) /\ Items' = Items
      /\ SettlesInOrder'
      /\ \A m \in Items : status[m] # "pending" => status'[m] # "pending"
  BY SettleCurrent
<1>2. CASE rest = {}
  BY <1>1, <1>2, LeaveStep DEF Proceed
<1>3. CASE rest # {}
  <2>1. /\ phase' = [phase EXCEPT ![w] = "uploading"]
        /\ plan' = [plan EXCEPT ![w] = rest]
        /\ body' = body
    BY <1>3 DEF Proceed
  <2>2. TypeOK'
    BY <1>1, <1>3, <2>1 DEF IInv, TypeOK, Busy
  <2>3. status'[Current(w)] = "synced"
    BY CurrentIsOldest DEF IInv, TypeOK, Items
  <2>4. PlansHaveNoGap'
    <3> SUFFICES ASSUME NEW v \in Worker, NEW n \in plan'[v], NEW m \in Before(n),
                        m \notin plan'[v]
                 PROVE  status'[m] # "pending"
      BY DEF PlansHaveNoGap, Before
    <3>1. n \in plan[v] /\ (m \notin plan[v] \/ m = Current(w))
      BY <2>1 DEF IInv, TypeOK
    <3>2. m \in Items
      BY <3>1, BeforeBasics DEF IInv, TypeOK
    <3> QED BY <1>1, <2>3, <3>1, <3>2 DEF IInv, PlansHaveNoGap
  <2>5. BodiesCoverPlans'
    BY <2>1 DEF IInv, BodiesCoverPlans, TypeOK
  <2>6. BeforeIsOlder' /\ WorkbookShowsOperation'
    BY <1>1 DEF IInv, BeforeIsOlder, WorkbookShowsOperation
  <2> QED BY <1>1, <2>2, <2>4, <2>5, <2>6 DEF IInv
<1> QED BY <1>2, <1>3

\* A request that only changes what it is waiting for.
LEMMA PhaseStep ==
    ASSUME IInv, NEW w \in Worker, phase[w] # "idle", NEW place \in Busy,
           phase' = [phase EXCEPT ![w] = place], UNCHANGED <<itemVars, object, plan, body>>
    PROVE  IInv'
BY DEF IInv, TypeOK, Items, Busy, BeforeIsOlder, PlansHaveNoGap, BodiesCoverPlans,
       SettlesInOrder, WorkbookShowsOperation, Before, itemVars

LEMMA FailStep == ASSUME IInv, NEW w \in Worker, Fail(w) PROVE IInv'
<1>1. phase[w] # "idle" /\ Leave(w) /\ UNCHANGED <<begun, made, object>>
  BY DEF Fail, Rethrow
<1>2. Current(w) \in Items
  BY <1>1, CurrentIsOldest DEF IInv
<1>3. CASE status[Current(w)] = "pending" /\ status' = [status EXCEPT ![Current(w)] = "failed"]
  <2>1. /\ status' \in Seq({"pending", "synced", "failed"})
        /\ Len(status') = Len(status) /\ Items' = Items
        /\ SettlesInOrder'
        /\ \A m \in Items : status[m] # "pending" => status'[m] # "pending"
    BY <1>1, <1>3, SettleCurrent
  <2> QED BY <1>1, <2>1, LeaveStep
<1>4. CASE status' = status
  BY <1>1, <1>4, LeaveStep DEF IInv, TypeOK, Items, SettlesInOrder, Before
<1>5. \/ status[Current(w)] = "pending" /\ status' = [status EXCEPT ![Current(w)] = "failed"]
      \/ status' = status
  BY <1>2 DEF Fail, IInv, TypeOK, Items
<1> QED BY <1>3, <1>4, <1>5

LEMMA StepInv == IInv /\ [Next]_vars => IInv'
<1> SUFFICES ASSUME IInv, [Next]_vars PROVE IInv'
  OBVIOUS
<1>1. CASE \/ Begin
         \/ \E t \in DOMAIN begun : Queue(t)
  BY <1>1, BeginStep, QueueStep
<1>2. ASSUME NEW w \in Worker, Plan(w) PROVE IInv'
  BY <1>2, PlanStep
<1>3. ASSUME NEW w \in Worker, Uploaded(w) PROVE IInv'
  BY <1>3, StoreStep DEF Uploaded, Busy
<1>4. ASSUME NEW w \in Worker, UploadFailed(w) PROVE IInv'
  BY <1>4, StoreStep DEF UploadFailed, Busy
<1>5. ASSUME NEW w \in Worker, Complete(w) PROVE IInv'
  <2>1. CASE CompletionAccepted /\ status[Current(w)] = "pending"
    BY <1>5, <2>1, SyncedStep DEF Complete
  <2>2. CASE ~ (CompletionAccepted /\ status[Current(w)] = "pending")
    BY <1>5, <2>2, PhaseStep DEF Complete, Busy, itemVars
  <2> QED BY <2>1, <2>2
<1>6. ASSUME NEW w \in Worker, Fail(w) PROVE IInv'
  BY <1>6, FailStep
<1>7. ASSUME NEW w \in Worker, Crash(w) PROVE IInv'
  BY <1>7, LeaveStep DEF Crash, IInv, TypeOK, Items, SettlesInOrder, Before, itemVars
<1>8. CASE UNCHANGED vars
  BY <1>8 DEF vars, itemVars, IInv, TypeOK, Items, BeforeIsOlder, PlansHaveNoGap,
              BodiesCoverPlans, SettlesInOrder, WorkbookShowsOperation, Before
<1> QED BY <1>1, <1>2, <1>3, <1>4, <1>5, <1>6, <1>7, <1>8 DEF Next, Step

LEMMA SpecInv == Spec => []IInv
BY InitInv, StepInv, PTL DEF Spec

-----------------------------------------------------------------------------
(* The theorems *)

\* The types of the sync rows, the objects and the requests.
THEOREM TypeCorrect == Spec => []TypeOK
<1>1. IInv => TypeOK
  BY DEF IInv
<1> QED BY <1>1, SpecInv, PTL

\* An item settles only after every item whose operation was over before its
\* own began, however many requests run over overlapping plans, whatever the
\* plan limit, whatever fails or crashes, and in whatever order operations
\* that wait for each other commit.
THEOREM SettledInOrder == Spec => []SettlesInOrder
<1>1. IInv => SettlesInOrder
  BY DEF IInv
<1> QED BY <1>1, SpecInv, PTL

\* The workbook stored for an operation is never older than it.
THEOREM WorkbookCurrent == Spec => []WorkbookShowsOperation
<1>1. IInv => WorkbookShowsOperation
  BY DEF IInv
<1> QED BY <1>1, SpecInv, PTL

-----------------------------------------------------------------------------
(* The worker app's queue *)

\* A queued request no answer, no spoiled entry and no crossing accounts for.
Accountable(r) == form[r] = "queued" /\ r \notin named \cup spoiled \cup crossed

\* Such a request is in the store and in every copy an operation holds, and
\* nobody is about to empty the store.
CopiesHave(r) ==
    /\ r \in store
    /\ \A q \in Enqueuing : form[q] = "saving" /\ r \in loaded[q]
    /\ \A s \in Syncing : sync[s] # "clearing" /\ r \in batch[s]

\* An enqueue that nothing has crossed is the only operation under way.
UncrossedIsAlone ==
    \A r \in Enqueuing : r \notin crossed => Enqueuing = {r} /\ Syncing = {}

\* The inductive invariant of the queue.
QueuedInv ==
    /\ QueueTypeOK
    /\ UncrossedIsAlone
    /\ \A s \in Sync : answered[s] \subseteq named
    /\ \A r \in Request : Accountable(r) => CopiesHave(r)

\* Steps that give up operations or only wait, and leave the store alone,
\* keep the invariant.
LEMMA QuietStep ==
    ASSUME QueuedInv, QueueTypeOK',
           UNCHANGED <<store, loaded, batch, answered, history>>,
           Enqueuing' = Enqueuing, Syncing' = Syncing,
           \A r \in Enqueuing : form'[r] = form[r],
           \A s \in Syncing : sync'[s] = sync[s],
           \A r \in Request : form'[r] = "queued" => form[r] = "queued"
    PROVE  QueuedInv'
BY DEF QueuedInv, UncrossedIsAlone, Accountable, CopiesHave, history

\* An operation is given up: its copy with it.
LEMMA DropStep ==
    ASSUME QueuedInv, QueueTypeOK',
           UNCHANGED <<store, history>>,
           Enqueuing' \subseteq Enqueuing, Syncing' \subseteq Syncing,
           \A r \in Enqueuing' : form'[r] = form[r] /\ loaded'[r] = loaded[r],
           \A s \in Syncing' : sync'[s] = sync[s] /\ batch'[s] = batch[s],
           \A s \in Sync : answered'[s] \subseteq answered[s],
           \A r \in Request : form'[r] = "queued" => form[r] = "queued"
    PROVE  QueuedInv'
<1>1. UncrossedIsAlone'
  BY DEF QueuedInv, UncrossedIsAlone, history
<1>2. \A s \in Sync : answered'[s] \subseteq named'
  BY DEF QueuedInv, history
<1>3. ASSUME NEW r \in Request, Accountable(r)' PROVE CopiesHave(r)'
  <2>1. CopiesHave(r)
    BY <1>3 DEF QueuedInv, Accountable, history
  <2> QED BY <2>1 DEF CopiesHave
<1> QED BY <1>1, <1>2, <1>3 DEF QueuedInv

-----------------------------------------------------------------------------
(* The invariant of the queue holds *)

\* The queue starts empty, with nobody at work.
LEMMA QueuedInit == QueueInit => QueuedInv
BY DEF QueueInit, QueuedInv, QueueTypeOK, UncrossedIsAlone, Accountable, CopiesHave,
       Enqueuing, Syncing

\* The load of an enqueue: it copies every request that is accounted for.
LEMMA EnqueueLoadStep == ASSUME QueuedInv, NEW r \in Request, EnqueueLoad(r) PROVE QueuedInv'
<1>1. /\ form[r] = "enqueuing" /\ auth' = auth /\ store' = store /\ readable' = readable
      /\ sync' = sync /\ batch' = batch /\ answered' = answered
      /\ named' = named /\ spoiled' = spoiled
      /\ \/ /\ form' = [form EXCEPT ![r] = "saving"]
            /\ loaded' = [loaded EXCEPT ![r] = store]
         \/ /\ ~ readable
            /\ form' = [form EXCEPT ![r] = "clearing"]
            /\ loaded' = loaded
      /\ crossed' = IF Idle THEN crossed ELSE crossed \cup Enqueuing \cup {r}
  BY DEF EnqueueLoad, syncVars
<1>2. QueueTypeOK'
  BY <1>1 DEF QueuedInv, QueueTypeOK, Enqueuing
<1>3. Enqueuing' = Enqueuing \cup {r} /\ Syncing' = Syncing /\ r \notin Enqueuing
  BY <1>1 DEF QueuedInv, QueueTypeOK, Enqueuing, Syncing
<1>4. UncrossedIsAlone'
  BY <1>1, <1>3 DEF UncrossedIsAlone, Idle
<1>5. ASSUME NEW q \in Request, Accountable(q)' PROVE CopiesHave(q)'
  <2>1. Accountable(q) /\ CopiesHave(q)
    BY <1>1, <1>5 DEF QueuedInv, QueueTypeOK, Accountable
  <2>2. readable
    BY <2>1 DEF CopiesHave, QueuedInv, QueueTypeOK
  <2>3. /\ form' = [form EXCEPT ![r] = "saving"]
        /\ loaded' = [loaded EXCEPT ![r] = store]
    BY <1>1, <2>2
  <2>4. form'[r] = "saving" /\ loaded'[r] = store
    BY <2>3 DEF QueuedInv, QueueTypeOK
  <2>5. \A p \in Enqueuing : form'[p] = form[p] /\ loaded'[p] = loaded[p]
    BY <1>3, <2>3 DEF QueuedInv, QueueTypeOK, Enqueuing
  <2> QED BY <1>1, <1>3, <2>1, <2>4, <2>5 DEF CopiesHave
<1> QED BY <1>1, <1>2, <1>4, <1>5 DEF QueuedInv

\* The save of an enqueue: alone or crossed.
LEMMA EnqueueSaveStep == ASSUME QueuedInv, NEW r \in Request, EnqueueSave(r) PROVE QueuedInv'
<1>1. /\ form[r] = "saving" /\ auth' = auth /\ store' = loaded[r] \cup {r} /\ readable' = TRUE
      /\ form' = [form EXCEPT ![r] = "queued"]
      /\ loaded' = [loaded EXCEPT ![r] = {}]
      /\ sync' = sync /\ batch' = batch /\ answered' = answered
      /\ named' = named /\ spoiled' = spoiled /\ crossed' = crossed
  BY DEF EnqueueSave, syncVars, history
<1>2. QueueTypeOK'
  BY <1>1 DEF QueuedInv, QueueTypeOK
<1>3. Enqueuing' = Enqueuing \ {r} /\ Syncing' = Syncing /\ r \in Enqueuing
  BY <1>1 DEF QueuedInv, QueueTypeOK, Enqueuing, Syncing
<1>4. UncrossedIsAlone'
  BY <1>1, <1>3 DEF QueuedInv, UncrossedIsAlone
<1>5. ASSUME NEW q \in Request, Accountable(q)' PROVE CopiesHave(q)'
  <2>1. CASE q = r
    <3>1. Enqueuing = {r} /\ Syncing = {}
      BY <1>1, <1>3, <1>5, <2>1 DEF QueuedInv, UncrossedIsAlone, Accountable
    <3> QED BY <1>1, <1>3, <2>1, <3>1 DEF CopiesHave
  <2>2. CASE q # r
    <3>1. CopiesHave(q)
      BY <1>1, <1>5, <2>2 DEF QueuedInv, QueueTypeOK, Accountable
    <3> QED BY <1>1, <1>3, <3>1 DEF CopiesHave, QueuedInv, QueueTypeOK, Enqueuing
  <2> QED BY <2>1, <2>2
<1> QED BY <1>1, <1>2, <1>4, <1>5 DEF QueuedInv

\* The empty queue a load saves: nobody is accounted for by then.
LEMMA EnqueueClearsStep == ASSUME QueuedInv, NEW r \in Request, EnqueueClears(r) PROVE QueuedInv'
<1>1. /\ form[r] = "clearing" /\ auth' = auth /\ form' = [form EXCEPT ![r] = "saving"]
      /\ store' = {} /\ readable' = TRUE /\ loaded' = loaded
      /\ sync' = sync /\ batch' = batch /\ answered' = answered
      /\ named' = named /\ spoiled' = spoiled /\ crossed' = crossed
  BY DEF EnqueueClears, syncVars, history
<1>2. Enqueuing' = Enqueuing /\ Syncing' = Syncing /\ r \in Enqueuing
  BY <1>1 DEF QueuedInv, QueueTypeOK, Enqueuing, Syncing
<1>3. QueueTypeOK' /\ UncrossedIsAlone'
  BY <1>1, <1>2 DEF QueuedInv, QueueTypeOK, UncrossedIsAlone
<1>4. ASSUME NEW q \in Request PROVE ~ Accountable(q)'
  BY <1>1, <1>2 DEF QueuedInv, QueueTypeOK, Accountable, CopiesHave
<1> QED BY <1>1, <1>3, <1>4 DEF QueuedInv

\* A submission.
LEMMA RequestStep ==
    ASSUME QueuedInv, NEW r \in Request,
           \/ Submit(r) \/ PostAnswered(r) \/ PostLost(r)
           \/ EnqueueLoad(r) \/ EnqueueClears(r) \/ EnqueueSave(r) \/ EnqueueFails(r)
    PROVE  QueuedInv'
<1>1. CASE Submit(r) \/ PostAnswered(r) \/ PostLost(r)
  <2>1. /\ UNCHANGED <<auth, loaded, store, readable, syncVars, history>>
        /\ form[r] \in {"new", "posting"}
        /\ \E place \in {"posting", "accepted", "refused", "enqueuing"} :
              form' = [form EXCEPT ![r] = place]
    BY <1>1 DEF Submit, PostAnswered, PostLost
  <2>2. QueueTypeOK'
    BY <2>1 DEF QueuedInv, QueueTypeOK, syncVars, history
  <2>3. Enqueuing' = Enqueuing /\ Syncing' = Syncing
    BY <2>1 DEF QueuedInv, QueueTypeOK, Enqueuing, Syncing, syncVars
  <2>4. \A q \in Request : form'[q] = "queued" => form[q] = "queued"
    BY <2>1 DEF QueuedInv, QueueTypeOK
  <2>5. \A q \in Enqueuing : form'[q] = form[q]
    BY <2>1 DEF QueuedInv, QueueTypeOK, Enqueuing
  <2> QED BY <2>1, <2>2, <2>3, <2>4, <2>5, QuietStep DEF syncVars
<1>2. CASE EnqueueFails(r)
  <2>1. /\ UNCHANGED <<auth, store, readable, syncVars, history>>
        /\ form' = [form EXCEPT ![r] = "refused"]
        /\ loaded' = [loaded EXCEPT ![r] = {}]
    BY <1>2 DEF EnqueueFails
  <2>2. QueueTypeOK'
    BY <2>1 DEF QueuedInv, QueueTypeOK, syncVars, history
  <2>3. Enqueuing' = Enqueuing \ {r} /\ Syncing' = Syncing
    BY <2>1 DEF QueuedInv, QueueTypeOK, Enqueuing, Syncing, syncVars
  <2>4. \A q \in Request : form'[q] = "queued" => form[q] = "queued"
    BY <2>1 DEF QueuedInv, QueueTypeOK
  <2>5. \A q \in Enqueuing' : form'[q] = form[q] /\ loaded'[q] = loaded[q]
    BY <2>1, <2>3 DEF QueuedInv, QueueTypeOK, Enqueuing
  <2> QED BY <2>1, <2>2, <2>3, <2>4, <2>5, DropStep DEF syncVars
<1> QED BY <1>1, <1>2, EnqueueLoadStep, EnqueueClearsStep, EnqueueSaveStep

\* The load of a sync: it copies every request that is accounted for.
LEMMA SyncLoadStep == ASSUME QueuedInv, NEW s \in Sync, SyncLoad(s) PROVE QueuedInv'
<1>1. /\ sync[s] = "started" /\ auth' = auth /\ store' = store /\ readable' = readable
      /\ form' = form /\ loaded' = loaded /\ answered' = answered
      /\ named' = named /\ spoiled' = spoiled /\ crossed' = crossed \cup Enqueuing
      /\ \/ /\ sync' = [sync EXCEPT ![s] = "sending"]
            /\ batch' = [batch EXCEPT ![s] = store]
         \/ /\ ~ readable
            /\ sync' = [sync EXCEPT ![s] = "clearing"]
            /\ batch' = batch
  BY DEF SyncLoad, formVars
<1>2. QueueTypeOK'
  BY <1>1 DEF SyncLoad, QueuedInv, QueueTypeOK, Enqueuing
<1>3. Enqueuing' = Enqueuing /\ Syncing' = Syncing \cup {s} /\ s \notin Syncing
  BY <1>1 DEF QueuedInv, QueueTypeOK, Enqueuing, Syncing
<1>4. UncrossedIsAlone'
  BY <1>1, <1>3 DEF UncrossedIsAlone
<1>5. ASSUME NEW q \in Request, Accountable(q)' PROVE CopiesHave(q)'
  <2>1. CopiesHave(q) /\ Accountable(q)
    BY <1>1, <1>5 DEF QueuedInv, Accountable
  <2>2. readable
    BY <2>1 DEF CopiesHave, QueuedInv, QueueTypeOK
  <2>3. /\ sync' = [sync EXCEPT ![s] = "sending"]
        /\ batch' = [batch EXCEPT ![s] = store]
    BY <1>1, <2>2
  <2>4. sync'[s] = "sending" /\ batch'[s] = store
    BY <2>3 DEF QueuedInv, QueueTypeOK
  <2>5. \A t \in Syncing : sync'[t] = sync[t] /\ batch'[t] = batch[t]
    BY <1>3, <2>3 DEF QueuedInv, QueueTypeOK, Syncing
  <2> QED BY <1>1, <1>3, <2>1, <2>4, <2>5 DEF CopiesHave
<1> QED BY <1>1, <1>2, <1>4, <1>5 DEF QueuedInv

\* The answer: what it names is accounted for from then on.
LEMMA SyncAnsweredStep == ASSUME QueuedInv, NEW s \in Sync, SyncAnswered(s) PROVE QueuedInv'
<1>1. PICK completed \in SUBSET batch[s] :
        /\ answered' = [answered EXCEPT ![s] = completed]
        /\ named' = named \cup completed
  BY DEF SyncAnswered
<1>2. /\ sync[s] = "sending" /\ sync' = [sync EXCEPT ![s] = "saving"]
      /\ form' = form /\ loaded' = loaded /\ store' = store /\ readable' = readable
      /\ batch' = batch /\ spoiled' = spoiled /\ crossed' = crossed /\ auth' = auth
  BY DEF SyncAnswered, formVars
<1>3. completed \subseteq Request
  BY DEF QueuedInv, QueueTypeOK
<1>4. QueueTypeOK'
  BY <1>1, <1>2, <1>3 DEF QueuedInv, QueueTypeOK
<1>5. Enqueuing' = Enqueuing /\ Syncing' = Syncing
  BY <1>2 DEF QueuedInv, QueueTypeOK, Enqueuing, Syncing
<1>6. UncrossedIsAlone' /\ \A t \in Sync : answered'[t] \subseteq named'
  BY <1>1, <1>2, <1>5 DEF QueuedInv, QueueTypeOK, UncrossedIsAlone
<1>7. ASSUME NEW q \in Request, Accountable(q)' PROVE CopiesHave(q)'
  <2>1. CopiesHave(q)
    BY <1>1, <1>2, <1>7 DEF QueuedInv, Accountable
  <2> QED BY <1>2, <1>5, <2>1 DEF CopiesHave, QueuedInv, QueueTypeOK
<1> QED BY <1>4, <1>6, <1>7 DEF QueuedInv

\* The end of a sync, with a save or without.
LEMMA SyncEndStep ==
    ASSUME QueuedInv, NEW s \in Sync,
           SyncEmpty(s) \/ SyncFails(s) \/ SyncClears(s) \/ SyncSave(s)
    PROVE  QueuedInv'
<1>1. /\ form' = form /\ loaded' = loaded /\ auth' = auth
      /\ named' = named /\ spoiled' = spoiled /\ crossed' = crossed
      /\ sync' = [sync EXCEPT ![s] = "idle"]
      /\ batch' = [batch EXCEPT ![s] = {}]
      /\ answered' = [answered EXCEPT ![s] = {}]
      /\ \/ store' = store /\ readable' = readable
         \/ sync[s] = "clearing" /\ store' = {} /\ readable' = TRUE
         \/ sync[s] = "saving" /\ store' = batch[s] \ answered[s] /\ readable' = TRUE
  BY DEF SyncEmpty, SyncFails, SyncClears, SyncSave, EndSync, Remaining, formVars, history
<1>2. QueueTypeOK'
  BY <1>1 DEF QueuedInv, QueueTypeOK
<1>3. Enqueuing' = Enqueuing /\ Syncing' = Syncing \ {s}
  BY <1>1 DEF QueuedInv, QueueTypeOK, Enqueuing, Syncing
<1>4. UncrossedIsAlone' /\ \A t \in Sync : answered'[t] \subseteq named'
  BY <1>1, <1>3 DEF QueuedInv, QueueTypeOK, UncrossedIsAlone
<1>5. ASSUME NEW q \in Request, Accountable(q)' PROVE CopiesHave(q)'
  <2>1. CopiesHave(q) /\ q \notin named
    BY <1>1, <1>5 DEF QueuedInv, Accountable
  <2>2. q \in store'
    BY <1>1, <2>1 DEF CopiesHave, Syncing, QueuedInv
  <2>3. \A t \in Syncing' : sync'[t] = sync[t] /\ batch'[t] = batch[t]
    BY <1>1, <1>3 DEF QueuedInv, QueueTypeOK, Syncing
  <2> QED BY <1>1, <1>3, <2>1, <2>2, <2>3 DEF CopiesHave
<1> QED BY <1>2, <1>4, <1>5 DEF QueuedInv

\* The app is killed: every copy is gone.
LEMMA RestartStep == ASSUME QueuedInv, NEW s \in Sync, Restart(s) PROVE QueuedInv'
<1>1. QueueTypeOK'
  BY DEF Restart, QueuedInv, QueueTypeOK, history
<1>2. Enqueuing' = {} /\ Syncing' = {}
  BY DEF Restart, Enqueuing, Syncing
<1>3. \A r \in Request : form'[r] = "queued" => form[r] = "queued"
  BY DEF Restart, QueuedInv, QueueTypeOK
<1>4. \A t \in Sync : answered'[t] = {}
  BY DEF Restart
<1>5. store' = store /\ history' = history
  BY DEF Restart, history
<1> QED BY <1>1, <1>2, <1>3, <1>4, <1>5, DropStep DEF history

LEMMA SyncStep ==
    ASSUME QueuedInv, NEW s \in Sync,
           \/ Login(s) \/ SyncEmpty(s) \/ SyncLoad(s) \/ SyncClears(s) \/ SyncAnswered(s)
           \/ SyncFails(s) \/ SyncSave(s) \/ Restart(s)
    PROVE  QueuedInv'
<1>1. CASE Login(s)
  <2>1. QueueTypeOK' /\ Enqueuing' = Enqueuing /\ Syncing' = Syncing
    BY <1>1 DEF Login, QueuedInv, QueueTypeOK, Enqueuing, Syncing, formVars, history
  <2>2. \A t \in Syncing : sync'[t] = sync[t]
    BY <1>1 DEF Login, QueuedInv, QueueTypeOK, Syncing
  <2> QED BY <1>1, <2>1, <2>2, QuietStep DEF Login, formVars
<1> QED BY <1>1, SyncLoadStep, SyncAnsweredStep, SyncEndStep, RestartStep

\* Every step keeps the queue's invariant.
LEMMA QueuedStep == QueuedInv /\ [QueueNext]_queueVars => QueuedInv'
<1> SUFFICES ASSUME QueuedInv, [QueueNext]_queueVars PROVE QueuedInv'
  OBVIOUS
<1>1. CASE Logout \/ UNCHANGED queueVars
  <2>1. QueueTypeOK' /\ UNCHANGED <<formVars, store, syncVars, history>>
    BY <1>1 DEF Logout, queueVars, formVars, syncVars, history, QueuedInv, QueueTypeOK
  <2> QED BY <2>1, QuietStep DEF formVars, syncVars, Enqueuing, Syncing
<1>2. CASE Spoil
  <2>1. QueueTypeOK' /\ UncrossedIsAlone' /\ \A s \in Sync : answered'[s] \subseteq named'
    BY <1>2 DEF Spoil, QueuedInv, QueueTypeOK, UncrossedIsAlone, Enqueuing, Syncing,
                formVars, syncVars
  <2>2. ASSUME NEW q \in Request PROVE ~ Accountable(q)'
    BY <1>2 DEF Spoil, QueuedInv, Accountable, CopiesHave, formVars
  <2> QED BY <2>1, <2>2 DEF QueuedInv
<1>3. CASE QueueNext
  BY <1>1, <1>2, <1>3, RequestStep, SyncStep DEF QueueNext
<1> QED BY <1>1, <1>3

-----------------------------------------------------------------------------
(* The theorem about the queue *)

\* A request the worker was told is queued is in the secure store until an
\* answer names it, lost and partial answers, rejected saves, restarts and
\* overlapping operations included, for any number of requests and syncs:
\* only an operation that crossed the request's own enqueue, or an entry
\* spoiled from outside, can lose it.
THEOREM QueuedKept == QueueSpec => []QueuedIsKept
<1>1. QueuedInv => QueuedIsKept
  BY DEF QueuedInv, QueuedIsKept, Accountable, CopiesHave
<1> QED BY <1>1, QueuedInit, QueuedStep, PTL DEF QueueSpec
=============================================================================
