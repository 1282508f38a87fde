---------------------- MODULE WorkflowTemplatesProofs ----------------------
(***************************************************************************)
(* Proofs about WorkflowTemplates, for any requests, steps and scopes, and *)
(* with requests that overlap in any way; at the end, what more holds when *)
(* they do not overlap.                                                    *)
(***************************************************************************)
EXTENDS WorkflowTemplates, FiniteSetTheorems, WellFoundedInduction, TLAPS

\* What a request has loaded: a version that was published, a graph without a
\* cycle, and a history that is part of the present one.
Held(r) ==
    /\ phase[r] = "rest" =>
          mem[r].version \in DOMAIN history /\ DOMAIN mem[r].steps # {}
    /\ phase[r] = "loaded" =>
          /\ mem[r].version \in DOMAIN mem[r].known
          /\ DOMAIN mem[r].known \subseteq DOMAIN history
          /\ DOMAIN mem[r].steps # {}
          /\ Acyclic(mem[r].steps)

Gapless ==
    /\ \E k \in Nat : DOMAIN history = 1..k
    /\ active = 0 => history = Empty
    /\ active # 0 => active \in DOMAIN history
    /\ \A v \in DOMAIN history : history[v].rollback < v

IInv ==
    /\ TypeOK
    /\ Gapless
    /\ GraphsSound
    /\ \A r \in Request : Held(r)

-----------------------------------------------------------------------------
(* Numbers *)

\* A nonempty set of naturals below a bound has a greatest element.
LEMMA Greatest ==
    ASSUME NEW n \in Nat, NEW S \in SUBSET (0..n), S # {}
    PROVE  \E v \in S : \A u \in S : u <= v
<1> DEFINE T == {v..n : v \in S}
<1>1. IsFiniteSet(0..n)
    BY FS_Interval
<1>2. T \subseteq SUBSET (0..n) /\ T # {}
    <2>1. \A v \in S : v..n \subseteq 0..n
        OBVIOUS
    <2>2. T \subseteq SUBSET (0..n)
        BY <2>1
    <2>3. PICK v \in S : TRUE
        OBVIOUS
    <2>4. v..n \in T
        BY <2>3
    <2> QED
        BY <2>2, <2>4
<1>3. T \subseteq FiniteSubsetsOf(0..n)
    BY <1>1, <1>2, FS_FiniteSubsetsOfFinite
<1>4. PICK X \in T : \A Y \in T : <<Y, X>> \notin StrictSubsetOrdering(0..n)
    BY <1>2, <1>3, WFMin, FS_StrictSubsetOrderingWellFounded
<1>5. PICK v \in S : X = v..n
    OBVIOUS
<1>6. ASSUME NEW u \in S, v < u
      PROVE  FALSE
    <2>1. u..n \subseteq v..n /\ v \in v..n /\ v \notin u..n
        BY <1>6
    <2>2. <<u..n, v..n>> \in StrictSubsetOrdering(0..n)
        BY <1>2, <2>1 DEF StrictSubsetOrdering
    <2> QED
        BY <1>4, <1>5, <2>2
<1>7. \A u \in S : u <= v
    BY <1>6
<1> QED
    BY <1>7

\* next_template_version is above everything it has seen, and leaves no gap.
LEMMA NextVersionIsNext ==
    ASSUME NEW m, NEW k \in Nat, DOMAIN m.known \subseteq 1..k,
           m.version \in DOMAIN m.known
    PROVE  /\ NextVersion(m) \in 1..(k + 1)
           /\ \A u \in DOMAIN m.known : u < NextVersion(m)
<1> DEFINE known == DOMAIN m.known \cup {m.version}
<1>1. PICK v \in known : \A u \in known : u <= v
    <2>1. known \in SUBSET (0..k) /\ known # {}
        OBVIOUS
    <2> QED
        BY <2>1, Greatest
<1> DEFINE new == CHOOSE w \in known : \A u \in known : u <= w
<1>2. new \in known /\ \A u \in known : u <= new
    BY <1>1
<1>3. NextVersion(m) = new + 1
    BY DEF NextVersion
<1> HIDE DEF new
<1> QED
    BY <1>2, <1>3

-----------------------------------------------------------------------------
(* Graphs *)

LEMMA GraphIntro ==
    ASSUME NEW S \in SUBSET Step, NEW g \in [S -> StepRecord]
    PROVE  g \in Graph
BY DEF Graph

LEMMA GraphElim ==
    ASSUME NEW g \in Graph
    PROVE  /\ DOMAIN g \subseteq Step
           /\ g \in [DOMAIN g -> StepRecord]
BY DEF Graph

\* Taking edges away does not make a cycle.
LEMMA FewerEdges ==
    ASSUME NEW g, NEW h, Acyclic(h),
           \A s \in DOMAIN g : g[s].next # {} => s \in DOMAIN h /\ g[s].next \subseteq h[s].next
    PROVE  Acyclic(g)
<1> SUFFICES ASSUME NEW S \in SUBSET DOMAIN g, S # {}
             PROVE  \E s \in S : g[s].next \cap S = {}
    BY DEF Acyclic
<1>1. CASE S \cap DOMAIN h = {}
    BY <1>1
<1>2. CASE S \cap DOMAIN h # {}
    <2> DEFINE R == S \cap DOMAIN h
    <2>1. PICK s \in R : h[s].next \cap R = {}
        BY <1>2 DEF Acyclic
    <2>2. CASE g[s].next \cap S = {}
        BY <2>2
    <2>3. CASE \A t \in g[s].next \cap S : g[t].next = {}
        BY <2>1, <2>3
    <2>4. CASE \E t \in g[s].next \cap S : g[t].next # {}
        BY <2>1, <2>4
    <2> QED
        BY <2>2, <2>3, <2>4
<1> QED
    BY <1>1, <1>2

\* The built-in steps are a graph, and wired in a row they have no cycle.
LEMMA DefaultStepsSound ==
    /\ DefaultSteps \in Graph
    /\ DOMAIN DefaultSteps # {}
    /\ Storable(DefaultSteps)
    /\ Acyclic(DefaultSteps)
<1> DEFINE Row == {Seed[i] : i \in DOMAIN Seed}
<1> DEFINE After(s) == {Seed[i] : i \in {j \in DOMAIN Seed : j > 1 /\ Seed[j - 1] = s}}
<1>1. /\ Seed \in Seq(Step) /\ Len(Seed) \in Nat /\ Len(Seed) # 0
      /\ DOMAIN Seed = 1..Len(Seed)
      /\ \A i, j \in DOMAIN Seed : Seed[i] = Seed[j] => i = j
    BY ConstantsAssumption
<1>2. Row \subseteq Step /\ Row # {} /\ \A s : After(s) \subseteq Row
    BY <1>1
<1>3. DefaultSteps = [s \in Row |-> [next |-> After(s), status |-> "needs_attention",
                                     enabled |-> TRUE]]
    BY DEF DefaultSteps
<1> HIDE DEF Row, After
<1>4. DefaultSteps \in [Row -> StepRecord]
    BY <1>2, <1>3 DEF StepRecord, Status
<1>5. DefaultSteps \in Graph
    BY <1>2, <1>4, GraphIntro
<1>6. Storable(DefaultSteps)
    BY <1>2, <1>3 DEF Storable, StorableStatus, Status
<1>7. ASSUME NEW S \in SUBSET Row, S # {}
      PROVE  \E s \in S : After(s) \cap S = {}
    <2> DEFINE I == {i \in DOMAIN Seed : Seed[i] \in S}
    <2>1. I \in SUBSET (0..Len(Seed)) /\ I # {}
        BY <1>1, <1>7 DEF Row
    <2>2. PICK i \in I : \A j \in I : j <= i
        BY <1>1, <2>1, Greatest
    <2>3. ASSUME NEW j \in DOMAIN Seed, j > 1, Seed[j - 1] = Seed[i]
          PROVE  Seed[j] \notin S
        <3>1. j - 1 \in DOMAIN Seed /\ i \in DOMAIN Seed
            BY <1>1, <2>3
        <3>2. j - 1 = i
            BY <1>1, <2>3, <3>1
        <3> QED
            BY <1>1, <2>2, <3>1, <3>2
    <2> QED
        BY <2>2, <2>3 DEF After
<1>8. Acyclic(DefaultSteps)
    BY <1>3, <1>7 DEF Acyclic
<1> QED
    BY <1>2, <1>3, <1>5, <1>6, <1>8

\* What the operations make of a graph is a graph, of the steps it should have.
LEMMA PlaceAfterGraph ==
    ASSUME NEW g \in Graph, NEW s \in DOMAIN g, NEW a \in DOMAIN g
    PROVE  PlaceAfter(g, s, a) \in Graph /\ DOMAIN PlaceAfter(g, s, a) = DOMAIN g
<1> DEFINE cut == [t \in DOMAIN g |-> [g[t] EXCEPT !.next = @ \ {s}]]
<1>1. DOMAIN g \subseteq Step /\ g \in [DOMAIN g -> StepRecord]
    BY GraphElim
<1>2. cut \in [DOMAIN g -> StepRecord]
    BY <1>1 DEF StepRecord
<1> DEFINE mid == [cut EXCEPT ![s].next = cut[a].next \ {a}]
<1>3. mid \in [DOMAIN g -> StepRecord]
    BY <1>2 DEF StepRecord
<1> HIDE DEF mid
<1>4. [mid EXCEPT ![a].next = {s}] \in [DOMAIN g -> StepRecord]
    BY <1>1, <1>3 DEF StepRecord
<1>5. PlaceAfter(g, s, a) = [mid EXCEPT ![a].next = {s}]
    BY DEF PlaceAfter, mid
<1> QED
    BY <1>1, <1>4, <1>5, GraphIntro

LEMMA WithoutGraph ==
    ASSUME NEW g \in Graph, NEW s \in DOMAIN g
    PROVE  Without(g, s) \in Graph /\ DOMAIN Without(g, s) = DOMAIN g \ {s}
<1>1. DOMAIN g \subseteq Step /\ g \in [DOMAIN g -> StepRecord]
    BY GraphElim
<1>2. Without(g, s) \in [DOMAIN g \ {s} -> StepRecord]
    BY <1>1 DEF Without, StepRecord
<1> QED
    BY <1>1, <1>2, GraphIntro

LEMMA AdvanceGraph ==
    ASSUME NEW g \in Graph, NEW s \in DOMAIN g
    PROVE  /\ Advance(g, s) \in Graph
           /\ DOMAIN Advance(g, s) = DOMAIN g
           /\ \A t \in DOMAIN g : Advance(g, s)[t].next = g[t].next
<1>1. DOMAIN g \subseteq Step /\ g \in [DOMAIN g -> StepRecord]
    BY GraphElim
<1>2. Advance(g, s) \in [DOMAIN g -> StepRecord]
    BY <1>1 DEF Advance, StepRecord, Status
<1>3. \A t \in DOMAIN g : Advance(g, s)[t].next = g[t].next
    BY <1>1 DEF Advance, StepRecord
<1> QED
    BY <1>1, <1>2, <1>3, GraphIntro

LEMMA EmptyStore ==
    /\ DOMAIN Empty = {} /\ Empty \in Graph
    /\ IsStore(NoStore)
<1>1. DOMAIN Empty = {} /\ Empty \in [{} -> StepRecord]
    BY DEF Empty
<1>2. Empty \in Graph
    BY <1>1, GraphIntro
<1> QED
    BY <1>1, <1>2 DEF NoStore, IsStore

-----------------------------------------------------------------------------
(* Saving *)

LEMMA UpsertedRecords ==
    ASSUME NEW rows \in SUBSET DataRecord, NEW records \in SUBSET DataRecord,
           NEW data \in Upserted(rows, records)
    PROVE  data \subseteq DataRecord
BY DEF Upserted

\* A saved version is as good as the steps it is made of.
LEMMA SavedVersion ==
    ASSUME IInv, NEW k \in Nat, DOMAIN history = 1..k,
           NEW v \in Version, v \in 1..(k + 1),
           NEW steps \in Graph, DOMAIN steps # {}, Storable(steps), Acyclic(steps),
           NEW records \in SUBSET DataRecord,
           NEW rollback \in {0} \cup Version, rollback < v,
           SaveVersion(v, steps, records, rollback)
    PROVE  /\ active' \in {0} \cup Version
           /\ DOMAIN history' \subseteq Version
           /\ \A u \in DOMAIN history' : IsPublished(history[u])'
           /\ Gapless'
           /\ GraphsSound'
           /\ DOMAIN history \cup {v} \subseteq DOMAIN history'
<1> DEFINE rows == IF v \in DOMAIN history THEN history[v].data ELSE {}
<1>1. rows \in SUBSET DataRecord
    BY DEF IInv, TypeOK, IsPublished
<1>2. PICK data \in Upserted(rows, records) :
          history' = [u \in DOMAIN history \cup {v} |->
              IF u = v THEN [steps |-> steps, rollback |-> rollback, data |-> data]
              ELSE history[u]]
    BY DEF SaveVersion
<1>3. data \subseteq DataRecord
    BY <1>1, <1>2, UpsertedRecords
<1> HIDE DEF rows
<1>4. DOMAIN history' = DOMAIN history \cup {v} /\ active' = v
    BY <1>2 DEF SaveVersion
<1>5. /\ history'[v].steps = steps /\ history'[v].rollback = rollback
      /\ history'[v].data = data
    BY <1>2
<1>6. \A u \in DOMAIN history \ {v} : history'[u] = history[u]
    BY <1>2
<1>7. \A u \in DOMAIN history' : IsPublished(history[u])'
    BY <1>3, <1>4, <1>5, <1>6 DEF IsPublished, IInv, TypeOK
<1>8. DOMAIN history' \subseteq Version
    BY <1>4 DEF IInv, TypeOK
<1>9. Gapless'
    <2>1. \E j \in Nat : DOMAIN history' = 1..j
        <3>1. CASE v = k + 1
            <4>1. DOMAIN history' = 1..(k + 1)
                BY <1>4, <3>1
            <4> QED
                BY <4>1
        <3>2. CASE v # k + 1
            <4>1. DOMAIN history' = 1..k
                BY <1>4, <3>2
            <4> QED
                BY <4>1
        <3> QED
            BY <3>1, <3>2
    <2>2. active' # 0 /\ active' \in DOMAIN history'
        BY <1>4
    <2>3. \A u \in DOMAIN history' : history'[u].rollback < u
        BY <1>4, <1>5, <1>6 DEF IInv, Gapless
    <2> QED
        BY <2>1, <2>2, <2>3 DEF Gapless
<1>10. GraphsSound'
    BY <1>4, <1>5, <1>6 DEF IInv, GraphsSound, Storable, Acyclic
<1> QED
    BY <1>4, <1>7, <1>8, <1>9, <1>10

\* The other requests do not mind a history that has grown.
LEMMA OthersHeld ==
    ASSUME IInv, NEW r \in Request, DOMAIN history \subseteq DOMAIN history',
           NEW q \in Request, q # r,
           phase'[q] = phase[q], mem'[q] = mem[q]
    PROVE  Held(q)'
BY DEF IInv, Held, Acyclic

\* Publishing a sound graph from a loaded store preserves the invariant.
LEMMA PublishSound ==
    ASSUME IInv, NEW r \in Request, phase[r] = "loaded",
           NEW steps \in Graph, DOMAIN steps # {}, Acyclic(steps),
           NEW records \in SUBSET DataRecord,
           NEW rollback \in {0} \cup DOMAIN mem[r].known,
           Publish(r, steps, records, rollback)
    PROVE  IInv'
<1> DEFINE v == NextVersion(mem[r])
<1>1. PICK k \in Nat : DOMAIN history = 1..k
    BY DEF IInv, Gapless
<1>2. /\ DOMAIN mem[r].known \subseteq 1..k
      /\ mem[r].version \in DOMAIN mem[r].known
    BY <1>1 DEF IInv, Held
<1>3. v \in 1..(k + 1) /\ \A u \in DOMAIN mem[r].known : u < v
    BY <1>1, <1>2, NextVersionIsNext
<1>4. v <= MaxVersion /\ Storable(steps) /\ SaveVersion(v, steps, records, rollback) /\ Done(r)
    BY DEF Publish
<1> HIDE DEF v
<1>5. v \in Version
    BY <1>3, <1>4, ConstantsAssumption DEF Version
<1>6. rollback \in {0} \cup Version /\ rollback < v
    BY <1>1, <1>2, <1>3 DEF IInv, TypeOK
<1>7. /\ active' \in {0} \cup Version
      /\ DOMAIN history' \subseteq Version
      /\ \A u \in DOMAIN history' : IsPublished(history[u])'
      /\ Gapless' /\ GraphsSound'
      /\ DOMAIN history \subseteq DOMAIN history'
    BY <1>1, <1>3, <1>4, <1>5, <1>6, SavedVersion
<1>8. /\ phase' \in [Request -> {"idle", "bootstrap", "rest", "loaded"}]
      /\ DOMAIN mem' = Request /\ phase'[r] = "idle" /\ mem'[r] = NoStore
      /\ \A q \in Request \ {r} : phase'[q] = phase[q] /\ mem'[q] = mem[q]
      /\ apart' = apart
    BY <1>4 DEF Done, IInv, TypeOK
<1>9. \A q \in Request : IsStore(mem[q])'
    BY <1>8, EmptyStore DEF IInv, TypeOK, IsStore
<1>10. TypeOK'
    BY <1>7, <1>8, <1>9 DEF TypeOK, IInv
<1>11. \A q \in Request : Held(q)'
    <2> TAKE q \in Request
    <2>1. CASE q = r
        BY <1>8, <2>1 DEF Held
    <2>2. CASE q # r
        BY <1>7, <1>8, <2>2, OthersHeld
    <2> QED
        BY <2>1, <2>2
<1> QED
    BY <1>7, <1>10, <1>11 DEF IInv

\* A request whose own store is replaced, the tables being left alone.
LEMMA OwnStep ==
    ASSUME IInv, NEW r \in Request, UNCHANGED <<active, history>>,
           NEW p \in {"idle", "bootstrap", "rest", "loaded"},
           NEW m, IsStore(m),
           phase' = [phase EXCEPT ![r] = p], mem' = [mem EXCEPT ![r] = m],
           apart' \in BOOLEAN, Held(r)'
    PROVE  IInv'
<1>1. /\ phase' \in [Request -> {"idle", "bootstrap", "rest", "loaded"}]
      /\ DOMAIN mem' = Request /\ mem'[r] = m
      /\ \A q \in Request \ {r} : phase'[q] = phase[q] /\ mem'[q] = mem[q]
    BY DEF IInv, TypeOK
<1>2. TypeOK'
    BY <1>1 DEF IInv, TypeOK, IsStore, IsPublished
<1>3. Gapless' /\ GraphsSound'
    BY DEF IInv, Gapless, GraphsSound, Acyclic
<1>4. \A q \in Request : Held(q)'
    BY <1>1, OthersHeld
<1> QED
    BY <1>2, <1>3, <1>4 DEF IInv

-----------------------------------------------------------------------------
(* The invariant *)

\* What a loaded request may rely on.
LEMMA LoadedStore ==
    ASSUME IInv, NEW r \in Request, phase[r] = "loaded"
    PROVE  /\ mem[r].steps \in Graph /\ DOMAIN mem[r].steps # {}
           /\ Acyclic(mem[r].steps)
           /\ mem[r].records \in SUBSET DataRecord
           /\ mem[r].version \in DOMAIN mem[r].known
           /\ DOMAIN mem[r].known \subseteq Version
           /\ \A v \in DOMAIN mem[r].known : mem[r].known[v] \in Graph
BY DEF IInv, TypeOK, IsStore, Held

LEMMA LoadStepsStep ==
    ASSUME IInv, NEW r \in Request, LoadSteps(r)
    PROVE  IInv'
<1>1. phase[r] = "idle" /\ apart' \in BOOLEAN /\ UNCHANGED <<active, history>>
    BY DEF LoadSteps, IInv, TypeOK
<1>2. CASE active = 0
    <2>1. phase' = [phase EXCEPT ![r] = "bootstrap"] /\ mem' = mem
        BY <1>2 DEF LoadSteps
    <2>2. DOMAIN mem' = Request /\ \A q \in Request : IsStore(mem[q])'
        BY <2>1 DEF IInv, TypeOK, IsStore
    <2>3. TypeOK'
        BY <1>1, <2>1, <2>2 DEF IInv, TypeOK, IsPublished
    <2>4. \A q \in Request : Held(q)'
        BY <1>1, <2>1 DEF IInv, TypeOK, Held, Acyclic
    <2>5. Gapless' /\ GraphsSound'
        BY <1>1 DEF IInv, Gapless, GraphsSound, Acyclic
    <2> QED
        BY <2>3, <2>4, <2>5 DEF IInv
<1>3. CASE active # 0
    <2> DEFINE g == history[active].steps
               bare == [s \in DOMAIN g |-> [g[s] EXCEPT !.next = {}]]
               m == [version |-> active, steps |-> bare, records |-> {}, known |-> Empty]
    <2>1. phase' = [phase EXCEPT ![r] = "rest"] /\ mem' = [mem EXCEPT ![r] = m]
        BY <1>3 DEF LoadSteps
    <2>2. active \in DOMAIN history /\ active \in Version /\ g \in Graph /\ DOMAIN g # {}
        BY <1>3 DEF IInv, TypeOK, Gapless, GraphsSound, IsPublished
    <2> HIDE DEF g
    <2>3. DOMAIN g \subseteq Step /\ g \in [DOMAIN g -> StepRecord]
        BY <2>2, GraphElim
    <2>4. bare \in [DOMAIN g -> StepRecord]
        BY <2>3 DEF StepRecord
    <2>5. bare \in Graph /\ DOMAIN bare # {}
        BY <2>2, <2>3, <2>4, GraphIntro
    <2> HIDE DEF bare
    <2>6. IsStore(m)
        BY <2>2, <2>5, EmptyStore DEF IsStore
    <2>7. phase'[r] = "rest" /\ mem'[r] = m
        BY <2>1 DEF IInv, TypeOK
    <2>8. Held(r)'
        BY <1>1, <2>2, <2>5, <2>7 DEF Held
    <2> QED
        BY <1>1, <2>1, <2>6, <2>8, OwnStep
<1> QED
    BY <1>2, <1>3

\* The edges of a version are put on nodes that may be another graph's: what
\* comes of it has no more edges than the version, so no cycle.
LEMMA LoadRestStep ==
    ASSUME IInv, NEW r \in Request, LoadRest(r)
    PROVE  IInv'
<1> DEFINE n == mem[r].version
           g == history[n].steps
           old == mem[r].steps
           steps == [s \in DOMAIN old |-> [old[s] EXCEPT
                        !.next = IF s \in DOMAIN g THEN g[s].next ELSE {}]]
           records == {[x EXCEPT !.key = n] : x \in history[n].data}
           known == [v \in DOMAIN history |-> history[v].steps]
           m == [version |-> n, steps |-> steps, records |-> records, known |-> known]
<1>1. /\ phase[r] = "rest" /\ phase' = [phase EXCEPT ![r] = "loaded"]
      /\ mem' = [mem EXCEPT ![r] = m]
      /\ UNCHANGED <<active, history, apart>>
    BY DEF LoadRest
<1>2. n \in DOMAIN history /\ n \in Version /\ old \in Graph /\ DOMAIN old # {}
    BY <1>1 DEF IInv, TypeOK, IsStore, Held
<1>3. g \in Graph /\ Acyclic(g) /\ history[n].data \subseteq DataRecord
    BY <1>2 DEF IInv, TypeOK, IsPublished, GraphsSound
<1> HIDE DEF n, g, old
<1>4. /\ DOMAIN old \subseteq Step /\ old \in [DOMAIN old -> StepRecord]
      /\ g \in [DOMAIN g -> StepRecord]
    BY <1>2, <1>3, GraphElim
<1>5. steps \in [DOMAIN old -> StepRecord]
    BY <1>4 DEF StepRecord
<1>6. steps \in Graph /\ DOMAIN steps # {}
    BY <1>2, <1>4, <1>5, GraphIntro
<1>7. \A s \in DOMAIN steps : steps[s].next = IF s \in DOMAIN g THEN g[s].next ELSE {}
    BY <1>4 DEF StepRecord
<1> HIDE DEF steps
<1>8. Acyclic(steps)
    BY <1>3, <1>7, FewerEdges
<1>9. records \subseteq DataRecord
    BY <1>2, <1>3 DEF DataRecord
<1>10. DOMAIN known = DOMAIN history /\ \A v \in DOMAIN known : known[v] \in Graph
    BY DEF IInv, TypeOK, IsPublished
<1>11. DOMAIN history \subseteq Version
    BY DEF IInv, TypeOK
<1> HIDE DEF records, known
<1>12. IsStore(m)
    BY <1>2, <1>6, <1>9, <1>10, <1>11 DEF IsStore
<1>13. phase'[r] = "loaded" /\ mem'[r] = m
    BY <1>1 DEF IInv, TypeOK
<1>14. Held(r)'
    BY <1>1, <1>2, <1>6, <1>8, <1>10, <1>13 DEF Held, Acyclic
<1> QED
    BY <1>1, <1>12, <1>14, OwnStep DEF IInv, TypeOK

\* A bootstrap may come after the first edits: version 1 is written again.
LEMMA BootstrapStep ==
    ASSUME IInv, NEW r \in Request, Bootstrap(r)
    PROVE  IInv'
<1> DEFINE m == [version |-> 1, steps |-> DefaultSteps, records |-> {},
                 known |-> [v \in {1} |-> DefaultSteps]]
<1>1. /\ SaveVersion(1, DefaultSteps, {}, 0)
      /\ phase' = [phase EXCEPT ![r] = "loaded"] /\ mem' = [mem EXCEPT ![r] = m]
      /\ apart' = apart
    BY DEF Bootstrap
<1>2. PICK k \in Nat : DOMAIN history = 1..k
    BY DEF IInv, Gapless
<1>3. /\ 1 \in Version /\ 1 \in 1..(k + 1)
      /\ 0 \in {0} \cup Version /\ 0 < 1 /\ {} \in SUBSET DataRecord
    BY ConstantsAssumption DEF Version
<1>4. /\ active' \in {0} \cup Version
      /\ DOMAIN history' \subseteq Version
      /\ \A u \in DOMAIN history' : IsPublished(history[u])'
      /\ Gapless' /\ GraphsSound'
      /\ DOMAIN history \cup {1} \subseteq DOMAIN history'
    BY <1>1, <1>2, <1>3, DefaultStepsSound, SavedVersion
<1>5. IsStore(m)
    BY <1>3, DefaultStepsSound DEF IsStore
<1>6. /\ phase' \in [Request -> {"idle", "bootstrap", "rest", "loaded"}]
      /\ DOMAIN mem' = Request /\ phase'[r] = "loaded" /\ mem'[r] = m
      /\ \A q \in Request \ {r} : phase'[q] = phase[q] /\ mem'[q] = mem[q]
    BY <1>1 DEF IInv, TypeOK
<1>7. \A q \in Request : IsStore(mem[q])'
    BY <1>5, <1>6 DEF IInv, TypeOK, IsStore
<1>8. TypeOK'
    BY <1>1, <1>4, <1>6, <1>7 DEF IInv, TypeOK
<1>9. Held(r)'
    BY <1>4, <1>6, DefaultStepsSound DEF Held, Acyclic
<1>10. \A q \in Request : Held(q)'
    BY <1>4, <1>6, <1>9, OthersHeld
<1> QED
    BY <1>4, <1>8, <1>10 DEF IInv

LEMMA AddStepStep ==
    ASSUME IInv, NEW r \in Request, AddStep(r)
    PROVE  IInv'
<1> DEFINE g == mem[r].steps
           new(next, fields) ==
               [next |-> next, status |-> fields.status, enabled |-> fields.enabled]
           added(s, next, fields) ==
               [t \in DOMAIN g \cup {s} |-> IF t = s THEN new(next, fields) ELSE g[t]]
           placed(s, next, fields, after) ==
               IF after = Keep THEN added(s, next, fields)
               ELSE PlaceAfter(added(s, next, fields), s, after)
<1>1. phase[r] = "loaded"
    BY DEF AddStep
<1>2. PICK s \in Step \ DOMAIN g, next \in SUBSET DOMAIN g, fields \in Offered,
           after \in DOMAIN g \cup {Keep} :
          /\ Acyclic(placed(s, next, fields, after))
          /\ Publish(r, placed(s, next, fields, after), mem[r].records, 0)
    BY DEF AddStep
<1>3. /\ g \in Graph /\ DOMAIN g \subseteq Step /\ g \in [DOMAIN g -> StepRecord]
      /\ mem[r].records \in SUBSET DataRecord
    BY <1>1, LoadedStore, GraphElim
<1> HIDE DEF g
<1>4. new(next, fields) \in StepRecord
    BY <1>3, ConstantsAssumption DEF StepRecord
<1> HIDE DEF new
<1>5. added(s, next, fields) \in [DOMAIN g \cup {s} -> StepRecord]
    BY <1>3, <1>4
<1>6. added(s, next, fields) \in Graph /\ DOMAIN added(s, next, fields) = DOMAIN g \cup {s}
    BY <1>3, <1>5, GraphIntro
<1> HIDE DEF added
<1>7. placed(s, next, fields, after) \in Graph /\ DOMAIN placed(s, next, fields, after) # {}
    BY <1>6, PlaceAfterGraph
<1> HIDE DEF placed
<1> QED
    BY <1>1, <1>2, <1>3, <1>7, PublishSound

LEMMA UpdateStepStep ==
    ASSUME IInv, NEW r \in Request, UpdateStep(r)
    PROVE  IInv'
<1> DEFINE g == mem[r].steps
           edited(s, fields) == [g EXCEPT ![s] = Filled(@, fields)]
           placed(s, fields, after) ==
               IF after = Keep THEN edited(s, fields)
               ELSE PlaceAfter(edited(s, fields), s, after)
           wired(s, fields, after, next) ==
               IF next = Keep THEN placed(s, fields, after)
               ELSE [placed(s, fields, after) EXCEPT ![s].next = next]
<1>1. phase[r] = "loaded"
    BY DEF UpdateStep
<1>2. PICK s \in DOMAIN g, fields \in Offered \cup {Keep} :
          \E after \in (DOMAIN g \ {s}) \cup {Keep},
             next \in {Keep} \cup SUBSET (DOMAIN g \ {s}) :
              /\ Acyclic(wired(s, fields, after, next))
              /\ Publish(r, wired(s, fields, after, next), mem[r].records, 0)
    BY DEF UpdateStep
<1>3. PICK after \in (DOMAIN g \ {s}) \cup {Keep},
         next \in {Keep} \cup SUBSET (DOMAIN g \ {s}) :
        /\ Acyclic(wired(s, fields, after, next))
        /\ Publish(r, wired(s, fields, after, next), mem[r].records, 0)
    BY <1>2
<1>4. /\ g \in Graph /\ DOMAIN g \subseteq Step /\ g \in [DOMAIN g -> StepRecord]
      /\ mem[r].records \in SUBSET DataRecord
    BY <1>1, LoadedStore, GraphElim
<1> HIDE DEF g
<1>5. edited(s, fields) \in [DOMAIN g -> StepRecord]
    <2>1. g[s] \in StepRecord
        BY <1>4
    <2>2. Filled(g[s], fields) \in StepRecord
        BY <2>1, ConstantsAssumption DEF Filled, StepRecord
    <2> QED
        BY <1>4, <2>2
<1>6. edited(s, fields) \in Graph /\ DOMAIN edited(s, fields) = DOMAIN g
    BY <1>4, <1>5, GraphIntro
<1> HIDE DEF edited
<1>7. placed(s, fields, after) \in Graph /\ DOMAIN placed(s, fields, after) = DOMAIN g
    BY <1>6, PlaceAfterGraph
<1> HIDE DEF placed
<1>8. wired(s, fields, after, next) \in Graph /\ DOMAIN wired(s, fields, after, next) = DOMAIN g
    <2>1. CASE next = Keep
        BY <1>7, <2>1
    <2>2. CASE next # Keep
        <3>1. placed(s, fields, after) \in [DOMAIN g -> StepRecord]
            BY <1>7, GraphElim
        <3>2. next \subseteq Step
            BY <1>3, <1>4, <2>2
        <3>3. wired(s, fields, after, next) \in [DOMAIN g -> StepRecord]
            BY <2>2, <3>1, <3>2 DEF StepRecord
        <3> QED
            BY <1>4, <3>3, GraphIntro
    <2> QED
        BY <2>1, <2>2
<1>9. DOMAIN wired(s, fields, after, next) # {}
    BY <1>8
<1> HIDE DEF wired
<1> QED
    BY <1>1, <1>3, <1>4, <1>8, <1>9, PublishSound

LEMMA DeleteStepStep ==
    ASSUME IInv, NEW r \in Request, DeleteStep(r)
    PROVE  IInv'
<1> DEFINE g == mem[r].steps
<1>1. phase[r] = "loaded" /\ Cardinality(DOMAIN g) > 1
    BY DEF DeleteStep
<1>2. PICK s \in DOMAIN g :
          Acyclic(Without(g, s)) /\ Publish(r, Without(g, s), mem[r].records, 0)
    BY DEF DeleteStep
<1>3. g \in Graph /\ mem[r].records \in SUBSET DataRecord
    BY <1>1, LoadedStore
<1> HIDE DEF g
<1>4. Without(g, s) \in Graph /\ DOMAIN Without(g, s) = DOMAIN g \ {s}
    BY <1>3, WithoutGraph
<1>5. DOMAIN g # {s}
    <2>1. Cardinality({s}) = 1
        BY FS_Singleton
    <2> QED
        BY <1>1, <2>1
<1>6. DOMAIN Without(g, s) # {}
    BY <1>4, <1>5
<1> QED
    BY <1>1, <1>2, <1>3, <1>4, <1>6, PublishSound

LEMMA ExecuteStepStep ==
    ASSUME IInv, NEW r \in Request, ExecuteStep(r)
    PROVE  IInv'
<1> DEFINE g == mem[r].steps
           new(s, scope) ==
               [step |-> s, scope |-> scope, at |-> mem[r].version, key |-> scope]
           rest(s, scope) == {x \in mem[r].records : ~SameId(x, new(s, scope))}
<1>1. phase[r] = "loaded"
    BY DEF ExecuteStep
<1>2. PICK s \in DOMAIN g, scope \in Scope :
          Publish(r, Advance(g, s), rest(s, scope) \cup {new(s, scope)}, 0)
    BY DEF ExecuteStep
<1>3. /\ g \in Graph /\ DOMAIN g # {} /\ Acyclic(g) /\ mem[r].records \in SUBSET DataRecord
      /\ mem[r].version \in Version
    BY <1>1, LoadedStore
<1>4. s \in Step
    BY <1>3, GraphElim
<1>5. rest(s, scope) \cup {new(s, scope)} \in SUBSET DataRecord
    BY <1>3, <1>4 DEF DataRecord
<1> HIDE DEF g, rest, new
<1>6. /\ Advance(g, s) \in Graph /\ DOMAIN Advance(g, s) = DOMAIN g
      /\ \A t \in DOMAIN g : Advance(g, s)[t].next = g[t].next
    BY <1>3, AdvanceGraph
<1>7. Acyclic(Advance(g, s))
    BY <1>3, <1>6, FewerEdges
<1>8. DOMAIN Advance(g, s) # {}
    BY <1>3, <1>6
<1> QED
    BY <1>1, <1>2, <1>5, <1>6, <1>7, <1>8, PublishSound

LEMMA RollbackStep ==
    ASSUME IInv, NEW r \in Request, RollbackTemplate(r)
    PROVE  IInv'
<1>1. phase[r] = "loaded"
    BY DEF RollbackTemplate
<1>2. PICK v \in DOMAIN mem[r].known :
          /\ DOMAIN mem[r].known[v] # {} /\ Acyclic(mem[r].known[v])
          /\ Publish(r, mem[r].known[v], mem[r].records, v)
    BY DEF RollbackTemplate
<1>3. mem[r].known[v] \in Graph /\ mem[r].records \in SUBSET DataRecord
    BY <1>1, LoadedStore
<1> QED
    BY <1>1, <1>2, <1>3, PublishSound

LEMMA LeaveStep ==
    ASSUME IInv, NEW r \in Request, Leave(r)
    PROVE  IInv'
<1>1. /\ phase' = [phase EXCEPT ![r] = "idle"] /\ mem' = [mem EXCEPT ![r] = NoStore]
      /\ UNCHANGED <<active, history>> /\ apart' = apart
    BY DEF Leave, Done
<1>2. Held(r)' /\ apart' \in BOOLEAN
    BY <1>1 DEF IInv, TypeOK, Held
<1> QED
    BY <1>1, <1>2, EmptyStore, OwnStep

\* IInv is an inductive invariant.
THEOREM Inductive == Spec => []IInv
<1>1. Init => IInv
    <2> SUFFICES ASSUME Init PROVE IInv
        OBVIOUS
    <2>1. /\ active = 0 /\ history = Empty /\ DOMAIN history = {}
          /\ \A r \in Request : phase[r] = "idle" /\ mem[r] = NoStore
        BY EmptyStore DEF Init
    <2>2. TypeOK
        BY <2>1, EmptyStore DEF Init, TypeOK, IsStore
    <2>3. DOMAIN history = 1..0
        BY <2>1
    <2> QED
        BY <2>1, <2>2, <2>3 DEF IInv, Gapless, GraphsSound, Held
<1>2. IInv /\ [Next]_vars => IInv'
    <2> SUFFICES ASSUME IInv, [Next]_vars PROVE IInv'
        OBVIOUS
    <2>1. ASSUME NEW r \in Request,
              \/ LoadSteps(r) \/ LoadRest(r) \/ Bootstrap(r)
              \/ AddStep(r) \/ UpdateStep(r) \/ DeleteStep(r)
              \/ ExecuteStep(r) \/ RollbackTemplate(r) \/ Leave(r)
          PROVE  IInv'
        BY <2>1, LoadStepsStep, LoadRestStep, BootstrapStep, AddStepStep, UpdateStepStep,
           DeleteStepStep, ExecuteStepStep, RollbackStep, LeaveStep
    <2>2. CASE UNCHANGED vars
        BY <2>2 DEF vars, IInv, TypeOK, IsStore, IsPublished, Gapless, GraphsSound,
                    Held, Acyclic
    <2> QED
        BY <2>1, <2>2 DEF Next
<1> QED
    BY <1>1, <1>2, PTL DEF Spec

\* The tables and the loaded stores are of their types.
THEOREM TypeCorrect == Spec => []TypeOK
BY Inductive, PTL DEF IInv

\* Every published version can run, however requests overlap: it has steps, no
\* dangling edge and no cycle (reject_blocking_graph_issues, and the foreign
\* keys behind save_postgres_edges).
THEOREM PublishedGraphsSound == Spec => []GraphsSound
BY Inductive, PTL DEF IInv

\* Versions are numbered without gaps, the active one exists, and a rollback
\* names an earlier version, however requests overlap.
THEOREM NumberedWithoutGaps == Spec => []HistoryGapless
<1>1. IInv => HistoryGapless
    <2> SUFFICES ASSUME IInv PROVE HistoryGapless
        OBVIOUS
    <2>1. PICK k \in Nat : DOMAIN history = 1..k
        BY DEF IInv, Gapless
    <2>2. Cardinality(1..k) = k
        BY <2>1, FS_Interval
    <2>3. history = Empty => active = 0
        BY EmptyStore DEF IInv, Gapless
    <2> QED
        BY <2>1, <2>2, <2>3 DEF IInv, Gapless, HistoryGapless
<1> QED
    BY <1>1, Inductive, PTL

-----------------------------------------------------------------------------
(* Final versions *)

\* A published version of a store somebody has loaded is not written again, and
\* nobody who loads later misses a version.
LEMMA FinalStep ==
    ASSUME IInv, NEW r \in Request,
           \/ LoadSteps(r) \/ LoadRest(r) \/ Bootstrap(r)
           \/ AddStep(r) \/ UpdateStep(r) \/ DeleteStep(r)
           \/ ExecuteStep(r) \/ RollbackTemplate(r) \/ Leave(r),
           NEW v \in DOMAIN history, Final(v)
    PROVE  Final(v)' /\ history'[v] = history[v]
<1>1. /\ \A q \in Request : phase[q] # "bootstrap"
      /\ \A q \in Request : phase[q] = "loaded" => v \in DOMAIN mem[q].known
    BY DEF Final
<1>2. ASSUME NEW steps, NEW records, NEW rollback, Publish(r, steps, records, rollback),
             phase[r] = "loaded"
      PROVE  Final(v)' /\ history'[v] = history[v]
    <2> DEFINE new == NextVersion(mem[r])
    <2>1. PICK k \in Nat : DOMAIN history = 1..k
        BY DEF IInv, Gapless
    <2>2. \A u \in DOMAIN mem[r].known : u < new
        BY <1>2, <2>1, NextVersionIsNext DEF IInv, Held
    <2>3. v \in DOMAIN mem[r].known
        BY <1>1, <1>2
    <2>4. v < new /\ v \in Nat
        BY <2>1, <2>2, <2>3
    <2>5. SaveVersion(new, steps, records, rollback) /\ Done(r)
        BY <1>2 DEF Publish
    <2>6. DOMAIN history' = DOMAIN history \cup {new} /\ history'[v] = history[v]
        BY <2>4, <2>5 DEF SaveVersion
    <2>7. /\ phase'[r] = "idle"
          /\ \A q \in Request \ {r} : phase'[q] = phase[q] /\ mem'[q] = mem[q]
        BY <2>5 DEF Done, IInv, TypeOK
    <2> QED
        BY <1>1, <2>6, <2>7 DEF Final
<1>3. CASE LoadSteps(r)
    <2>1. active # 0 /\ history' = history
        BY <1>3, EmptyStore DEF LoadSteps, IInv, Gapless
    <2>2. phase' = [phase EXCEPT ![r] = "rest"]
        BY <1>3, <2>1 DEF LoadSteps
    <2>3. \A q \in Request \ {r} : phase'[q] = phase[q] /\ mem'[q] = mem[q]
        BY <1>3, <2>1, <2>2 DEF LoadSteps, IInv, TypeOK
    <2>4. phase'[r] = "rest"
        BY <2>2 DEF IInv, TypeOK
    <2> QED
        BY <1>1, <2>1, <2>3, <2>4 DEF Final
<1>4. CASE LoadRest(r)
    <2>1. /\ phase'[r] = "loaded" /\ history' = history
          /\ \A q \in Request \ {r} : phase'[q] = phase[q] /\ mem'[q] = mem[q]
          /\ mem'[r].known = [u \in DOMAIN history |-> history[u].steps]
        BY <1>4 DEF LoadRest, IInv, TypeOK
    <2>2. v \in DOMAIN mem'[r].known
        BY <2>1
    <2> QED
        BY <1>1, <2>1, <2>2 DEF Final
<1>5. CASE Bootstrap(r)
    BY <1>1, <1>5 DEF Bootstrap
<1>6. CASE AddStep(r) \/ UpdateStep(r) \/ DeleteStep(r) \/ ExecuteStep(r) \/ RollbackTemplate(r)
    <2>1. phase[r] = "loaded"
        BY <1>6 DEF AddStep, UpdateStep, DeleteStep, ExecuteStep, RollbackTemplate
    <2>2. \E steps, records, rollback : Publish(r, steps, records, rollback)
        <3>1. AddStep(r) => \E steps : Publish(r, steps, mem[r].records, 0)
            BY DEF AddStep
        <3>2. UpdateStep(r) => \E steps : Publish(r, steps, mem[r].records, 0)
            BY DEF UpdateStep
        <3>3. DeleteStep(r) => \E steps : Publish(r, steps, mem[r].records, 0)
            BY DEF DeleteStep
        <3>4. ExecuteStep(r) => \E steps, records : Publish(r, steps, records, 0)
            BY DEF ExecuteStep
        <3>5. RollbackTemplate(r) => \E steps, u : Publish(r, steps, mem[r].records, u)
            BY DEF RollbackTemplate
        <3> QED
            BY <1>6, <3>1, <3>2, <3>3, <3>4, <3>5
    <2> QED
        BY <1>2, <2>1, <2>2
<1>7. CASE Leave(r)
    <2>1. /\ phase'[r] = "idle" /\ history' = history
          /\ \A q \in Request \ {r} : phase'[q] = phase[q] /\ mem'[q] = mem[q]
        BY <1>7 DEF Leave, Done, IInv, TypeOK
    <2> QED
        BY <1>1, <2>1 DEF Final
<1> QED
    BY <1>3, <1>4, <1>5, <1>6, <1>7

\* However requests overlap, a version is not changed once the requests that
\* had loaded the store before it was published are over.
THEOREM VersionsStay == Spec => HistoryImmutable
<1> DEFINE Kept == \A v \in DOMAIN history : Final(v) => Final(v)' /\ history'[v] = history[v]
<1>1. IInv /\ [Next]_vars => [Kept]_vars
    <2> SUFFICES ASSUME IInv, Next PROVE Kept
        OBVIOUS
    <2> QED
        BY FinalStep DEF Next
<1>2. HistoryImmutable <=> [][Kept]_vars
    BY PTL DEF HistoryImmutable
<1> QED
    BY <1>1, <1>2, Inductive, PTL DEF Spec

-----------------------------------------------------------------------------
(* Requests that do not overlap *)

StepsOf(records) == {x.step : x \in records}

\* A request that works alone holds what is published: the active version, the
\* whole history, and evidence for every step that has some.
Current(r) ==
    /\ phase[r] = "bootstrap" => active = 0
    /\ phase[r] = "rest" => mem[r].version = active
    /\ phase[r] = "loaded" =>
          /\ mem[r].version = active
          /\ mem[r].known = [v \in DOMAIN history |-> history[v].steps]
          /\ StepsOf(history[active].data) \subseteq StepsOf(mem[r].records)

\* At most one request is under way; the active version is the latest; a version
\* made by a rollback has the graph it names; no step loses its evidence.
Single == \A r, q \in Request : phase[r] # "idle" /\ phase[q] # "idle" => r = q
Latest == \A v \in DOMAIN history : v <= active
Restores == \A v \in DOMAIN history :
    history[v].rollback # 0 => history[v].steps = history[history[v].rollback].steps
Carried == \A u, v \in DOMAIN history :
    u < v => StepsOf(history[u].data) \subseteq StepsOf(history[v].data)

ApartInv == apart => /\ Single /\ Latest /\ Restores /\ Carried
                     /\ \A r \in Request : Current(r)

\* Of every id some record is saved, so that no step loses its evidence.
LEMMA UpsertedSteps ==
    ASSUME NEW rows, NEW records, NEW data \in Upserted(rows, records)
    PROVE  StepsOf(records) \subseteq StepsOf(data)
<1>1. PICK last \in SUBSET records :
          /\ \A x \in records : Cardinality({y \in last : SameId(x, y)}) = 1
          /\ data = {x \in rows : \A y \in records : ~SameId(x, y)} \cup last
    BY DEF Upserted
<1>2. Cardinality({}) = 0
    BY FS_EmptySet
<1>3. ASSUME NEW x \in records
      PROVE  \E y \in data : y.step = x.step
    <2>1. {y \in last : SameId(x, y)} # {}
        BY <1>1, <1>2
    <2> QED
        BY <1>1, <2>1 DEF SameId
<1> QED
    BY <1>3 DEF StepsOf

\* A request that works alone publishes a version of its own after the others.
LEMMA PublishApart ==
    ASSUME IInv, ApartInv, apart, NEW r \in Request, phase[r] = "loaded",
           NEW steps, NEW records, StepsOf(mem[r].records) \subseteq StepsOf(records),
           NEW rollback \in {0} \cup DOMAIN mem[r].known,
           rollback # 0 => steps = mem[r].known[rollback],
           Publish(r, steps, records, rollback)
    PROVE  ApartInv'
<1>1. PICK k \in Nat : DOMAIN history = 1..k
    BY DEF IInv, Gapless
<1>2. /\ mem[r].version = active
      /\ mem[r].known = [v \in DOMAIN history |-> history[v].steps]
      /\ StepsOf(history[active].data) \subseteq StepsOf(mem[r].records)
    BY DEF ApartInv, Current
<1>3. active \in 1..k /\ DOMAIN mem[r].known = 1..k
    BY <1>1, <1>2 DEF IInv, Held
<1>4. active = k
    <2>1. k \in DOMAIN history
        BY <1>1, <1>3
    <2> QED
        BY <1>3, <2>1 DEF ApartInv, Latest
<1>5. NextVersion(mem[r]) = k + 1
    <2>1. /\ NextVersion(mem[r]) \in 1..(k + 1)
          /\ \A u \in DOMAIN mem[r].known : u < NextVersion(mem[r])
        BY <1>2, <1>3, NextVersionIsNext
    <2>2. k < NextVersion(mem[r])
        BY <1>3, <1>4, <2>1
    <2> QED
        BY <2>1, <2>2
<1>6. SaveVersion(k + 1, steps, records, rollback) /\ Done(r)
    BY <1>5 DEF Publish
<1>7. PICK data \in Upserted({}, records) :
          history' = [u \in DOMAIN history \cup {k + 1} |->
              IF u = k + 1 THEN [steps |-> steps, rollback |-> rollback, data |-> data]
              ELSE history[u]]
    BY <1>1, <1>6 DEF SaveVersion
<1>8. /\ active' = k + 1 /\ DOMAIN history' = 1..(k + 1)
      /\ \A u \in 1..k : history'[u] = history[u]
      /\ history'[k + 1].steps = steps /\ history'[k + 1].rollback = rollback
      /\ history'[k + 1].data = data
    BY <1>1, <1>6, <1>7 DEF SaveVersion
<1>9. /\ apart' = apart /\ phase'[r] = "idle"
      /\ \A q \in Request \ {r} : phase'[q] = phase[q]
    BY <1>6 DEF Done, IInv, TypeOK
<1>10. \A q \in Request : phase'[q] = "idle"
    BY <1>9 DEF ApartInv, Single
<1>11. Restores'
    <2>1. \A v \in 1..k : history[v].rollback # 0 => history[v].rollback \in 1..k
        BY <1>1 DEF IInv, TypeOK, IsPublished, Gapless, Version
    <2>2. ASSUME NEW v \in 1..(k + 1), history'[v].rollback # 0
          PROVE  history'[v].steps = history'[history'[v].rollback].steps
        <3>1. CASE v \in 1..k
            BY <1>1, <1>8, <2>1, <2>2, <3>1 DEF ApartInv, Restores
        <3>2. CASE v = k + 1
            BY <1>1, <1>2, <1>3, <1>8, <2>2, <3>2
        <3> QED
            BY <3>1, <3>2
    <2> QED
        BY <1>8, <2>2 DEF Restores
<1>12. Carried'
    <2>1. StepsOf(history[active].data) \subseteq StepsOf(data)
        BY <1>2, <1>7, UpsertedSteps
    <2>2. ASSUME NEW u \in 1..(k + 1), NEW v \in 1..(k + 1), u < v
          PROVE  StepsOf(history'[u].data) \subseteq StepsOf(history'[v].data)
        <3>1. u \in 1..k
            BY <2>2
        <3>2. CASE v \in 1..k
            BY <1>1, <1>8, <2>2, <3>1, <3>2 DEF ApartInv, Carried
        <3>3. CASE v = k + 1
            <4>1. StepsOf(history[u].data) \subseteq StepsOf(history[active].data)
                BY <1>1, <1>3, <1>4, <3>1 DEF ApartInv, Carried
            <4> QED
                BY <1>8, <2>1, <3>1, <3>3, <4>1
        <3> QED
            BY <3>2, <3>3
    <2>3. Carried' <=> \A u, v \in 1..(k + 1) : u < v =>
              StepsOf(history'[u].data) \subseteq StepsOf(history'[v].data)
        BY <1>8 DEF Carried, StepsOf
    <2> QED
        BY <2>2, <2>3
<1>13. Single' /\ Latest' /\ \A q \in Request : Current(q)'
    BY <1>8, <1>10 DEF Single, Latest, Current
<1> QED
    BY <1>11, <1>12, <1>13 DEF ApartInv

\* A step that leaves the tables alone keeps what is said of them.
LEMMA TablesKept ==
    ASSUME ApartInv, UNCHANGED <<active, history>>, apart' => apart,
           apart' => Single' /\ \A r \in Request : Current(r)'
    PROVE  ApartInv'
<1>1. apart' => Latest' /\ Restores' /\ Carried'
    BY DEF ApartInv, Latest, Restores, Carried, StepsOf
<1> QED
    BY <1>1 DEF ApartInv

\* The others, who do nothing, hold what they held.
LEMMA OthersCurrent ==
    ASSUME ApartInv, apart, UNCHANGED <<active, history>>, NEW q \in Request,
           phase'[q] = phase[q], mem'[q] = mem[q]
    PROVE  Current(q)'
BY DEF ApartInv, Current, StepsOf

LEMMA ApartStep ==
    ASSUME IInv, ApartInv, NEW r \in Request,
           \/ LoadSteps(r) \/ LoadRest(r) \/ Bootstrap(r)
           \/ AddStep(r) \/ UpdateStep(r) \/ DeleteStep(r)
           \/ ExecuteStep(r) \/ RollbackTemplate(r) \/ Leave(r)
    PROVE  ApartInv'
<1>1. apart' => apart
    <2>1. Done(r) => (apart' => apart)
        BY DEF Done
    <2>2. /\ LoadSteps(r) => (apart' => apart)
          /\ LoadRest(r) => (apart' => apart)
          /\ Bootstrap(r) => (apart' => apart)
        BY DEF LoadSteps, LoadRest, Bootstrap
    <2>3. AddStep(r) => Done(r)
        BY DEF AddStep, Publish
    <2>4. UpdateStep(r) => Done(r)
        BY DEF UpdateStep, Publish
    <2>5. /\ DeleteStep(r) => Done(r)
          /\ ExecuteStep(r) => Done(r)
          /\ RollbackTemplate(r) => Done(r)
          /\ Leave(r) => Done(r)
        BY DEF DeleteStep, ExecuteStep, RollbackTemplate, Leave, Publish
    <2> QED
        BY <2>1, <2>2, <2>3, <2>4, <2>5
<1>2. CASE ~apart'
    BY <1>2 DEF ApartInv
<1> SUFFICES ASSUME apart' PROVE ApartInv'
    BY <1>2
<1>3. apart /\ Single /\ Latest /\ Restores /\ Carried /\ \A q \in Request : Current(q)
    BY <1>1 DEF ApartInv
<1>4. CASE LoadSteps(r)
    <2>1. /\ UNCHANGED <<active, history>> /\ Running = {}
          /\ \A q \in Request \ {r} : phase'[q] = phase[q]
          /\ phase'[r] = "bootstrap" => active = 0
          /\ phase'[r] = "rest" => mem'[r].version = active
          /\ phase'[r] \in {"bootstrap", "rest"}
        <3>1. UNCHANGED <<active, history>> /\ Running = {}
            BY <1>4 DEF LoadSteps
        <3>2. \E p \in {"bootstrap", "rest"} :
                  /\ phase' = [phase EXCEPT ![r] = p]
                  /\ p = "bootstrap" <=> active = 0
            BY <1>4 DEF LoadSteps
        <3>3. \A q \in Request \ {r} : phase'[q] = phase[q]
            BY <3>2 DEF IInv, TypeOK
        <3>4. phase'[r] \in {"bootstrap", "rest"} /\ (phase'[r] = "bootstrap" <=> active = 0)
            BY <3>2 DEF IInv, TypeOK
        <3>5. active # 0 => mem'[r].version = active
            BY <1>4 DEF LoadSteps, IInv, TypeOK
        <3> QED
            BY <3>1, <3>3, <3>4, <3>5
    <2>2. \A q \in Request \ {r} : phase'[q] = "idle"
        BY <2>1 DEF Running
    <2>3. Single' /\ \A q \in Request : Current(q)'
        BY <2>1, <2>2 DEF Single, Current
    <2> QED
        BY <1>3, <2>1, <2>3, TablesKept
<1>5. CASE LoadRest(r)
    <2> DEFINE n == mem[r].version
               records == {[x EXCEPT !.key = n] : x \in history[n].data}
    <2>1. /\ phase[r] = "rest" /\ phase'[r] = "loaded" /\ UNCHANGED <<active, history>>
          /\ \A q \in Request \ {r} : phase'[q] = phase[q] /\ mem'[q] = mem[q]
          /\ mem'[r].version = n /\ mem'[r].records = records
          /\ mem'[r].known = [v \in DOMAIN history |-> history[v].steps]
        BY <1>5 DEF LoadRest, IInv, TypeOK
    <2>2. n = active
        BY <1>3, <2>1 DEF Current
    <2>3. history[n].data \subseteq DataRecord
        BY <2>1 DEF IInv, TypeOK, IsPublished, Held
    <2>4. StepsOf(history[n].data) \subseteq StepsOf(records)
        <3>1. \A x \in history[n].data : [x EXCEPT !.key = n].step = x.step
            BY <2>3 DEF DataRecord
        <3> QED
            BY <3>1 DEF StepsOf
    <2> HIDE DEF n, records
    <2>5. Current(r)'
        BY <2>1, <2>2, <2>4 DEF Current, StepsOf
    <2>6. Single' /\ \A q \in Request : Current(q)'
        BY <1>3, <2>1, <2>5, OthersCurrent DEF Single
    <2> QED
        BY <1>3, <2>1, <2>6, TablesKept
<1>6. CASE Bootstrap(r)
    <2>1. /\ phase[r] = "bootstrap" /\ SaveVersion(1, DefaultSteps, {}, 0)
          /\ phase'[r] = "loaded"
          /\ \A q \in Request \ {r} : phase'[q] = phase[q]
          /\ mem'[r].version = 1 /\ mem'[r].known = [v \in {1} |-> DefaultSteps]
        BY <1>6 DEF Bootstrap, IInv, TypeOK
    <2>2. history = Empty /\ DOMAIN history = {}
        BY <1>3, <2>1, EmptyStore DEF Current, IInv, Gapless
    <2>3. PICK data \in Upserted({}, {}) :
              history' = [u \in {1} |-> [steps |-> DefaultSteps, rollback |-> 0, data |-> data]]
        BY <2>1, <2>2 DEF SaveVersion
    <2>4. data = {}
        BY <2>3 DEF Upserted
    <2>5. /\ active' = 1 /\ DOMAIN history' = {1} /\ history'[1].data = {}
          /\ history'[1].steps = DefaultSteps /\ history'[1].rollback = 0
        BY <2>1, <2>3, <2>4 DEF SaveVersion
    <2>6. \A q \in Request \ {r} : phase'[q] = "idle"
        BY <1>3, <2>1 DEF Single
    <2>7. Current(r)'
        <3>1. mem'[r].known = [v \in DOMAIN history' |-> history'[v].steps]
            BY <2>1, <2>5
        <3> QED
            BY <2>1, <2>5, <3>1 DEF Current, StepsOf
    <2>8. Single' /\ \A q \in Request : Current(q)'
        BY <2>6, <2>7 DEF Single, Current
    <2>9. Latest' /\ Restores' /\ Carried'
        BY <2>5 DEF Latest, Restores, Carried
    <2> QED
        BY <2>8, <2>9 DEF ApartInv
<1>7. CASE AddStep(r)
    <2>1. phase[r] = "loaded" /\ \E steps : Publish(r, steps, mem[r].records, 0)
        BY <1>7 DEF AddStep
    <2> QED
        BY <1>3, <2>1, PublishApart
<1>8. CASE UpdateStep(r)
    <2>1. phase[r] = "loaded" /\ \E steps : Publish(r, steps, mem[r].records, 0)
        BY <1>8 DEF UpdateStep
    <2> QED
        BY <1>3, <2>1, PublishApart
<1>9. CASE DeleteStep(r)
    <2>1. phase[r] = "loaded" /\ \E steps : Publish(r, steps, mem[r].records, 0)
        BY <1>9 DEF DeleteStep
    <2> QED
        BY <1>3, <2>1, PublishApart
<1>10. CASE ExecuteStep(r)
    <2>1. PICK s \in DOMAIN mem[r].steps, scope \in Scope :
              LET new == [step |-> s, scope |-> scope, at |-> mem[r].version, key |-> scope]
              IN  Publish(r, Advance(mem[r].steps, s),
                          {x \in mem[r].records : ~SameId(x, new)} \cup {new}, 0)
        BY <1>10 DEF ExecuteStep
    <2> DEFINE new == [step |-> s, scope |-> scope, at |-> mem[r].version, key |-> scope]
               records == {x \in mem[r].records : ~SameId(x, new)} \cup {new}
    <2>2. StepsOf(mem[r].records) \subseteq StepsOf(records)
        BY DEF StepsOf, SameId
    <2>3. phase[r] = "loaded" /\ Publish(r, Advance(mem[r].steps, s), records, 0)
        BY <1>10, <2>1 DEF ExecuteStep
    <2> HIDE DEF records
    <2> QED
        BY <1>3, <2>2, <2>3, PublishApart
<1>11. CASE RollbackTemplate(r)
    <2>1. PICK v \in DOMAIN mem[r].known : Publish(r, mem[r].known[v], mem[r].records, v)
        BY <1>11 DEF RollbackTemplate
    <2>2. phase[r] = "loaded"
        BY <1>11 DEF RollbackTemplate
    <2> QED
        BY <1>3, <2>1, <2>2, PublishApart
<1>12. CASE Leave(r)
    <2>1. /\ UNCHANGED <<active, history>> /\ phase'[r] = "idle"
          /\ \A q \in Request \ {r} : phase'[q] = phase[q] /\ mem'[q] = mem[q]
        BY <1>12 DEF Leave, Done, IInv, TypeOK
    <2>2. Current(r)'
        BY <2>1 DEF Current
    <2>3. Single' /\ \A q \in Request : Current(q)'
        BY <1>3, <2>1, <2>2, OthersCurrent DEF Single
    <2> QED
        BY <1>3, <2>1, <2>3, TablesKept
<1> QED
    BY <1>4, <1>5, <1>6, <1>7, <1>8, <1>9, <1>10, <1>11, <1>12

LEMMA ApartNext == IInv /\ ApartInv /\ [Next]_vars => ApartInv'
<1> SUFFICES ASSUME IInv, ApartInv, [Next]_vars PROVE ApartInv'
    OBVIOUS
<1>1. CASE UNCHANGED vars
    BY <1>1 DEF vars, ApartInv, Single, Latest, Restores, Carried, Current, StepsOf
<1>2. CASE Next
    BY <1>2, ApartStep DEF Next
<1> QED
    BY <1>1, <1>2

\* ApartInv holds beside IInv for ever.
THEOREM ApartInductive == Spec => []ApartInv
<1>1. Init => ApartInv
    BY EmptyStore DEF Init, ApartInv, Single, Latest, Restores, Carried, Current
<1> QED
    BY <1>1, ApartNext, Inductive, PTL DEF Spec

\* While requests do not overlap, a rollback restores what it names.
THEOREM RollbacksRestore == Spec => []RollbackRestores
<1>1. ApartInv => RollbackRestores
    BY DEF ApartInv, Restores, RollbackRestores
<1> QED
    BY <1>1, ApartInductive, PTL

\* While requests do not overlap, no step loses the evidence of its executions,
\* whatever is edited, deleted or rolled back.
THEOREM EvidenceStays == Spec => []EvidenceCarried
<1>1. ApartInv => EvidenceCarried
    BY DEF ApartInv, Carried, StepsOf, EvidenceCarried
<1> QED
    BY <1>1, ApartInductive, PTL
=============================================================================
