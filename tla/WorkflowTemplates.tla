------------------------- MODULE WorkflowTemplates -------------------------
(***************************************************************************)
(* The workflow template editor on PostgreSQL (run_postgres_async of       *)
(* workflow_template_store.rs).  Every request is a store program of its   *)
(* own: it loads the whole store in several statements, changes one        *)
(* template in memory, publishes the result as a new version and saves it  *)
(* in one transaction.  Nothing is locked between the load and the save,   *)
(* and the save does not look at what is there: it upserts.                *)
(*                                                                         *)
(* default_store makes one template and no operation makes another, so     *)
(* the store is that template.  A step keeps what the operations decide    *)
(* by: its next steps, its status and whether it is enabled.  The order of *)
(* steps and next steps, which no operation decides by, is left out.       *)
(***************************************************************************)
EXTENDS Integers, Sequences, FiniteSets

CONSTANTS
    Request,     \* store programs
    Step,        \* step ids
    Seed,        \* the built-in steps in their default order
    Scope,       \* tenant, workplace and period a step is executed for
    Offered,     \* the statuses and enabled flags an edit may ask for
    Keep,        \* a field the input of an edit leaves out
    MaxVersion   \* bound: published versions

Status == {"blocked", "completed", "needs_attention", "ready", "waiting"}
StorableStatus == Status \ {"ready"}  \* the CHECK of workflow_node.status

ASSUME ConstantsAssumption ==
    /\ Seed \in Seq(Step) /\ Seed # <<>>
    /\ \A i, j \in DOMAIN Seed : Seed[i] = Seed[j] => i = j
    /\ Offered \subseteq [status : Status, enabled : BOOLEAN]
    /\ MaxVersion \in Nat \ {0}

VARIABLES
    active,   \* workflow_template.active_version; 0: no template row yet
    history,  \* the published versions: steps, rollback_of, data records
    phase,    \* how far each request is
    mem,      \* the store each request has loaded
    apart     \* no request has started while another one was running

vars == <<active, history, phase, mem, apart>>

Version == 1..MaxVersion
StepRecord == [next : SUBSET Step, status : Status, enabled : BOOLEAN]
Graph == UNION {[S -> StepRecord] : S \in SUBSET Step}

\* A data record: the step and scope it is evidence of, the version that was
\* loaded when the step ran, and what its id is made of: the scope when it is
\* new, the version it was read from when it was read back.
DataRecord == [step : Step, scope : Scope, at : Version, key : Scope \cup Version]

\* A published version: its steps, what it restored, its data records.
IsPublished(p) ==
    /\ p.steps \in Graph
    /\ p.rollback \in {0} \cup Version
    /\ p.data \subseteq DataRecord

\* A store as a request holds it: one version, and the steps of all versions.
IsStore(m) ==
    /\ m.version \in {0} \cup Version
    /\ m.steps \in Graph
    /\ m.records \subseteq DataRecord
    /\ DOMAIN m.known \subseteq Version
    /\ \A v \in DOMAIN m.known : m.known[v] \in Graph

\* Records saved under one id replace each other.
SameId(x, y) == x.step = y.step /\ x.key = y.key

Empty == [v \in {} |-> v]
NoStore == [version |-> 0, steps |-> Empty, records |-> {}, known |-> Empty]

-----------------------------------------------------------------------------
(* Graphs *)

\* graph_has_cycle finds none: every set of steps has one without a next
\* step in the set.
Acyclic(g) ==
    \A S \in SUBSET DOMAIN g : S # {} => \E s \in S : g[s].next \cap S = {}

\* (Mutant: a status that is not one of the workflow's.)
DefaultStepsPending ==
    [s \in {Seed[i] : i \in DOMAIN Seed} |->
        [next |-> {}, status |-> "pending", enabled |-> TRUE]]

\* default_steps, wired one after the other.
DefaultSteps ==
    [s \in {Seed[i] : i \in DOMAIN Seed} |->
        [next |-> {Seed[i] : i \in {j \in DOMAIN Seed : j > 1 /\ Seed[j - 1] = s}},
         status |-> "needs_attention", enabled |-> TRUE]]

\* place_step_after: s is cut out of the graph and put between a and a's next.
PlaceAfter(g, s, a) ==
    LET cut == [t \in DOMAIN g |-> [g[t] EXCEPT !.next = @ \ {s}]]
    IN [cut EXCEPT ![s].next = cut[a].next \ {a}, ![a].next = {s}]

\* A deleted step leaves its next steps to the steps before it.
Without(g, s) ==
    [t \in DOMAIN g \ {s} |->
        IF s \in g[t].next
        THEN [g[t] EXCEPT !.next = (@ \ {s}) \cup (g[s].next \ {t})]
        ELSE g[t]]

\* An executed step is completed and calls for attention to the next ones.
Advance(g, s) ==
    [t \in DOMAIN g |->
        IF t = s THEN [g[t] EXCEPT !.status = "completed"]
        ELSE IF t \in g[s].next /\ g[t].status = "waiting"
        THEN [g[t] EXCEPT !.status = "needs_attention"]
        ELSE g[t]]

\* The fields of a step after an update that asks for them, or leaves them.
Filled(record, fields) ==
    IF fields = Keep THEN record
    ELSE [record EXCEPT !.status = fields.status, !.enabled = fields.enabled]

-----------------------------------------------------------------------------
(* Loading *)

Running == {r \in Request : phase[r] # "idle"}

\* The first statements of load_postgres_store: the active version and its
\* nodes.  Without a template the store is the default one.
LoadSteps(r) ==
    /\ phase[r] = "idle"
    /\ MaxVersion \notin DOMAIN history  \* bound: a version is left to publish
    /\ apart' = (apart /\ Running = {})
    /\ IF active = 0
       THEN /\ phase' = [phase EXCEPT ![r] = "bootstrap"]
            /\ UNCHANGED mem
       ELSE /\ phase' = [phase EXCEPT ![r] = "rest"]
            /\ LET g == history[active].steps
               IN mem' = [mem EXCEPT ![r] =
                      [version |-> active,
                       steps |-> [s \in DOMAIN g |-> [g[s] EXCEPT !.next = {}]],
                       records |-> {}, known |-> Empty]]
    /\ UNCHANGED <<active, history>>

\* The statements after it: the edges of that version, its data records and
\* the history.  The version may have been saved again in between.
LoadRest(r) ==
    /\ phase[r] = "rest"
    /\ LET m == mem[r]
           g == history[m.version].steps
       IN mem' = [mem EXCEPT ![r] =
              [version |-> m.version,
               steps |-> [s \in DOMAIN m.steps |-> [m.steps[s] EXCEPT
                   !.next = IF s \in DOMAIN g THEN g[s].next ELSE {}]],
               records |-> {[x EXCEPT !.key = m.version] : x \in history[m.version].data},
               known |-> [v \in DOMAIN history |-> history[v].steps]]]
    /\ phase' = [phase EXCEPT ![r] = "loaded"]
    /\ UNCHANGED <<active, history, apart>>

-----------------------------------------------------------------------------
(* Saving *)

\* The rows of a version once records have been upserted into rows: of several
\* records with one id any may come last, the order of a load is not fixed.
Upserted(rows, records) ==
    {{x \in rows : \A y \in records : ~SameId(x, y)} \cup last :
        last \in {C \in SUBSET records :
            \A x \in records : Cardinality({y \in C : SameId(x, y)}) = 1}}

\* save_postgres_template: the transaction that makes version v the active one.
\* It replaces the nodes and edges v may already have, and keeps its data rows.
SaveVersion(v, steps, records, rollback) ==
    /\ active' = v
    /\ \E data \in Upserted(IF v \in DOMAIN history THEN history[v].data ELSE {}, records) :
           history' = [u \in DOMAIN history \cup {v} |->
               IF u = v THEN [steps |-> steps, rollback |-> rollback, data |-> data]
               ELSE history[u]]

\* (Mutant: after the loaded version, whatever has been published since.)
NextAfterLoaded(m) == m.version + 1

\* (Mutant: the loaded version is edited in place.)
SameVersion(m) == m.version

\* next_template_version: after the active one and all those it knows.
NextVersion(m) ==
    LET known == DOMAIN m.known \cup {m.version}
    IN (CHOOSE v \in known : \A u \in known : u <= v) + 1

\* (Mutant: edges to steps that are not there are kept.)
StorableDangling(g) == \A s \in DOMAIN g : g[s].status \in StorableStatus

\* The columns' CHECKs, and an edge to a step that is not there.
Storable(g) ==
    \A s \in DOMAIN g : g[s].status \in StorableStatus /\ g[s].next \subseteq DOMAIN g

Done(r) ==
    /\ phase' = [phase EXCEPT ![r] = "idle"]
    /\ mem' = [mem EXCEPT ![r] = NoStore]
    /\ UNCHANGED apart

\* publish_template_version and the save that follows it.
Publish(r, steps, records, rollback) ==
    /\ NextVersion(mem[r]) <= MaxVersion
    /\ Storable(steps)
    /\ SaveVersion(NextVersion(mem[r]), steps, records, rollback)
    /\ Done(r)

\* A store without templates is filled before the request is served.
Bootstrap(r) ==
    /\ phase[r] = "bootstrap"
    /\ SaveVersion(1, DefaultSteps, {}, 0)
    /\ mem' = [mem EXCEPT ![r] =
           [version |-> 1, steps |-> DefaultSteps, records |-> {},
            known |-> [v \in {1} |-> DefaultSteps]]]
    /\ phase' = [phase EXCEPT ![r] = "loaded"]
    /\ UNCHANGED apart

-----------------------------------------------------------------------------
(* The operations on the loaded store *)

AddStep(r) ==
    /\ phase[r] = "loaded"
    /\ LET g == mem[r].steps
       IN \E s \in Step \ DOMAIN g, next \in SUBSET DOMAIN g,
             fields \in Offered, after \in DOMAIN g \cup {Keep} :
             LET new == [next |-> next, status |-> fields.status, enabled |-> fields.enabled]
                 added == [t \in DOMAIN g \cup {s} |-> IF t = s THEN new ELSE g[t]]
                 placed == IF after = Keep THEN added ELSE PlaceAfter(added, s, after)
             IN /\ Acyclic(placed)
                /\ Publish(r, placed, mem[r].records, 0)

UpdateStep(r) ==
    /\ phase[r] = "loaded"
    /\ LET g == mem[r].steps
       IN \E s \in DOMAIN g, fields \in Offered \cup {Keep} :
          \E after \in (DOMAIN g \ {s}) \cup {Keep},
             next \in {Keep} \cup SUBSET (DOMAIN g \ {s}) :
             LET edited == [g EXCEPT ![s] = Filled(@, fields)]
                 placed == IF after = Keep THEN edited ELSE PlaceAfter(edited, s, after)
                 wired == IF next = Keep THEN placed ELSE [placed EXCEPT ![s].next = next]
             IN /\ Acyclic(wired)
                /\ Publish(r, wired, mem[r].records, 0)

\* (Mutant: the data records of the step go with it.)
DeleteStepAndRecords(r) ==
    /\ phase[r] = "loaded"
    /\ Cardinality(DOMAIN mem[r].steps) > 1
    /\ \E s \in DOMAIN mem[r].steps :
          Publish(r, Without(mem[r].steps, s), {x \in mem[r].records : x.step # s}, 0)

DeleteStep(r) ==
    /\ phase[r] = "loaded"
    /\ Cardinality(DOMAIN mem[r].steps) > 1
    /\ \E s \in DOMAIN mem[r].steps :
          LET left == Without(mem[r].steps, s)
          IN /\ Acyclic(left)
             /\ Publish(r, left, mem[r].records, 0)

\* The graph is not checked here.  The new record replaces one that has its
\* id in memory (apply_data_operations).
ExecuteStep(r) ==
    /\ phase[r] = "loaded"
    /\ \E s \in DOMAIN mem[r].steps, scope \in Scope :
          LET m == mem[r]
              new == [step |-> s, scope |-> scope, at |-> m.version, key |-> scope]
          IN /\ m.steps[s].enabled
             /\ Publish(r, Advance(m.steps, s),
                        {x \in m.records : ~SameId(x, new)} \cup {new}, 0)

\* (Mutant: steps added since the version are kept.)
RollbackKeepsAdded(r) ==
    /\ phase[r] = "loaded"
    /\ \E v \in DOMAIN mem[r].known :
          LET old == mem[r].known[v]
              now == mem[r].steps
          IN Publish(r, [s \in DOMAIN old \cup DOMAIN now |->
                             IF s \in DOMAIN old THEN old[s] ELSE now[s]],
                     mem[r].records, v)

RollbackTemplate(r) ==
    /\ phase[r] = "loaded"
    /\ \E v \in DOMAIN mem[r].known :
          /\ DOMAIN mem[r].known[v] # {}
          /\ Acyclic(mem[r].known[v])
          /\ Publish(r, mem[r].known[v], mem[r].records, v)

\* A request that saves nothing: a read (get, preflight, validate), a refused
\* edit, a failed statement, a store program that is killed.
Leave(r) ==
    /\ phase[r] # "idle"
    /\ Done(r)
    /\ UNCHANGED <<active, history>>

-----------------------------------------------------------------------------

Init ==
    /\ active = 0
    /\ history = Empty
    /\ phase = [r \in Request |-> "idle"]
    /\ mem = [r \in Request |-> NoStore]
    /\ apart = TRUE

Next ==
    \E r \in Request :
        \/ LoadSteps(r) \/ LoadRest(r) \/ Bootstrap(r)
        \/ AddStep(r) \/ UpdateStep(r) \/ DeleteStep(r)
        \/ ExecuteStep(r) \/ RollbackTemplate(r) \/ Leave(r)

Spec == Init /\ [][Next]_vars

-----------------------------------------------------------------------------
(* Properties *)

\* The variables hold what the tables and the store structure can hold.
TypeOK ==
    /\ active \in {0} \cup Version
    /\ DOMAIN history \subseteq Version
    /\ \A v \in DOMAIN history : IsPublished(history[v])
    /\ phase \in [Request -> {"idle", "bootstrap", "rest", "loaded"}]
    /\ DOMAIN mem = Request
    /\ \A r \in Request : IsStore(mem[r])
    /\ apart \in BOOLEAN

\* Every published version is a workflow that can run: it has a step, its edges
\* lead to its own steps, and it has no cycle.  Execution publishes without a
\* check, and a load may take nodes and edges of different graphs.
GraphsSound ==
    \A v \in DOMAIN history :
        LET g == history[v].steps
        IN /\ DOMAIN g # {}
           /\ \A s \in DOMAIN g : g[s].next \subseteq DOMAIN g
           /\ Acyclic(g)

\* Whoever publishes, in whatever order: version numbers have no gaps, the
\* active version is one of them, and a version restores an earlier one
\* (next_template_version, and the join a load depends on).
HistoryGapless ==
    /\ DOMAIN history = 1..Cardinality(DOMAIN history)
    /\ (active = 0) <=> (history = Empty)
    /\ active # 0 => active \in DOMAIN history
    /\ \A v \in DOMAIN history : history[v].rollback < v

\* Version v is published, and whoever may still save has loaded it: no request
\* works on a store from before v.
Final(v) ==
    /\ v \in DOMAIN history
    /\ \A r \in Request : /\ phase[r] # "bootstrap"
                          /\ phase[r] = "loaded" => v \in DOMAIN mem[r].known

\* However requests overlap: once the requests that had loaded the store
\* before a version was published are over, the version is never changed again,
\* by no save, no rollback and no request that comes later.  (Before that, an
\* overlapping save may replace it.)
HistoryImmutable ==
    [][\A v \in DOMAIN history : Final(v) => Final(v)' /\ history'[v] = history[v]]_vars

\* While requests do not overlap, a rollback restores the steps of the version
\* it names, and that version still has them
\* (graph_edits_preserve_text_version_history_and_rollback_restores_prior_graph).
RollbackRestores ==
    apart => \A v \in DOMAIN history :
        history[v].rollback # 0 => history[v].steps = history[history[v].rollback].steps

\* While requests do not overlap, a step with evidence of an execution keeps
\* some in every later version, through edits, deletion and rollback
\* (load_postgres_data_records and save_postgres_data_records carry it over).
EvidenceCarried ==
    apart => \A u, v \in DOMAIN history :
        u < v => {x.step : x \in history[u].data} \subseteq {x.step : x \in history[v].data}

\* Executing a step again for the same scope updates its data record
\* (repeated_execution_upserts_business_data_record_for_same_scope).
OneRecordPerScope ==
    \A v \in DOMAIN history : \A x, y \in history[v].data :
        x.step = y.step /\ x.scope = y.scope => x = y
=============================================================================
