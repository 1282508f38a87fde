----------------------------- MODULE SourceSync -----------------------------
(***************************************************************************)
(* The source-file sync of one intake: every admission and rollback queues *)
(* a row of archive_source_sync, and a request to the preview server's     *)
(* source-syncs route (syncArchiveSourceVersions of server.js) asks the    *)
(* Rust store for a plan, uploads one derived workbook per item to RustFS  *)
(* and reports each outcome to the store.  Every await, and every store    *)
(* process, lets other requests and admissions run in between.             *)
(*                                                                         *)
(* Item n is the n-th sync row to be committed.  Its operation changes the *)
(* staged rows in the same transaction and nothing else does, so the rows' *)
(* version is the number of items, and a workbook is reduced to the        *)
(* version of the rows it shows.  created_at, by which items are planned,  *)
(* is now(), the time of the transaction's BEGIN: operations that wait for *)
(* the intake's row lock may commit in another order than they began.      *)
(***************************************************************************)
EXTENDS Naturals, Sequences, FiniteSets, Functions

CONSTANTS
    Worker,    \* requests to the source-syncs route
    MaxPlan,   \* LIMIT of the plan query (25 in the code)
    MaxItems   \* bound: transactions of admissions and rollbacks begun

ASSUME PlanAssumption == MaxPlan \in Nat \ {0} /\ MaxItems \in Nat

VARIABLES
    begun,    \* the transactions begun, in that order: the number of items
              \* committed at the BEGIN of each
    made,     \* archive_source_sync.created_at of the items, in commit order:
              \* the number of the transaction that made each
    status,   \* archive_source_sync.status of the items, in commit order
    object,   \* the RustFS object under each item's key; 0: none
    phase,    \* what each request is waiting for
    plan,     \* the items each request has still to sync
    body      \* the version of the rows in the workbooks of that plan

itemVars == <<begun, made, status>>
vars == <<itemVars, object, phase, plan, body>>

Item == 1..MaxItems
Items == DOMAIN status
Pending == {n \in Items : status[n] = "pending"}
Busy == {"uploading", "completing", "put_failed", "complete_failed"}

-----------------------------------------------------------------------------
(* Shared steps of a request *)

\* The columns of archive_source_sync (migration 006), and those that
\* complete_postgres_source_sync names in its UPDATE.
SyncColumns ==
    {"id", "intake_id", "tenant_id", "source_version", "target_table",
     "operation", "status", "source_object_uri", "generated_object_uri",
     "change_payload", "requested_by", "created_at", "updated_at"}
CompletionColumns ==
    {"status", "generated_object_uri", "synced_at", "change_payload",
     "tenant_id", "id"}
CompletionAccepted == CompletionColumns \subseteq SyncColumns

\* ORDER BY created_at.
Older(n, m) == made[n] <= made[m]

\* The oldest MaxPlan pending items.
Planned == {n \in Pending : Cardinality({m \in Pending : Older(m, n)}) <= MaxPlan}

HasWork == Planned # {}

\* (Mutant: the rows are read before the pending items, in a statement of
\* their own, and an operation commits in between.)
RowsReadBefore == Len(status) - 1

\* The version of the staged rows.
StagedRows == Len(status)

\* The item a request is working on.
Current(w) == CHOOSE n \in plan[w] : \A m \in plan[w] : Older(n, m)

Leave(w) ==
    /\ phase' = [phase EXCEPT ![w] = "idle"]
    /\ plan' = [plan EXCEPT ![w] = {}]
    /\ body' = [body EXCEPT ![w] = 0]

\* The next item of the loop, or the end of the request.
Proceed(w) ==
    LET rest == plan[w] \ {Current(w)}
    IN IF rest = {} THEN Leave(w)
       ELSE /\ phase' = [phase EXCEPT ![w] = "uploading"]
            /\ plan' = [plan EXCEPT ![w] = rest]
            /\ UNCHANGED body

-----------------------------------------------------------------------------
(* Actions *)

\* BEGIN of an admission or a rollback, which then waits for the intake.
Begin ==
    /\ Len(begun) < MaxItems
    /\ begun' = Append(begun, Len(status))
    /\ UNCHANGED <<made, status, object, phase, plan, body>>

\* The operation begun as the t-th commits: its sync item with it.
Queue(t) ==
    /\ t \notin Range(made)
    /\ made' = Append(made, t)
    /\ status' = Append(status, "pending")
    /\ UNCHANGED <<begun, object, phase, plan, body>>

\* "source-sync-plan": one statement reads the items and the rows.
Plan(w) ==
    /\ phase[w] = "idle"
    /\ HasWork
    /\ phase' = [phase EXCEPT ![w] = "uploading"]
    /\ plan' = [plan EXCEPT ![w] = Planned]
    /\ body' = [body EXCEPT ![w] = StagedRows]
    /\ UNCHANGED <<itemVars, object>>

Stored(w) == [object EXCEPT ![Current(w)] = body[w]]

\* putRustFsObject resolves.
Uploaded(w) ==
    /\ phase[w] = "uploading"
    /\ object' = Stored(w)
    /\ phase' = [phase EXCEPT ![w] = "completing"]
    /\ UNCHANGED <<itemVars, plan, body>>

\* putRustFsObject rejects; RustFS may have stored the object all the same.
UploadFailed(w) ==
    /\ phase[w] = "uploading"
    /\ \/ object' = Stored(w)
       \/ UNCHANGED object
    /\ phase' = [phase EXCEPT ![w] = "put_failed"]
    /\ UNCHANGED <<itemVars, plan, body>>

\* "source-sync-complete": the loop goes on only if the row was pending and
\* the UPDATE is accepted; every other outcome throws.
Complete(w) ==
    /\ phase[w] = "completing"
    /\ IF CompletionAccepted /\ status[Current(w)] = "pending"
       THEN /\ status' = [status EXCEPT ![Current(w)] = "synced"]
            /\ Proceed(w)
       ELSE /\ phase' = [phase EXCEPT ![w] = "complete_failed"]
            /\ UNCHANGED <<status, plan, body>>
    /\ UNCHANGED <<begun, made, object>>

\* (Mutant: the catch block continues with the next item.)
ContinueLoop(w) == Proceed(w)

\* (Mutant: the catch block tries the same item again.)
TryAgain(w) ==
    /\ phase' = [phase EXCEPT ![w] = "uploading"]
    /\ UNCHANGED <<plan, body>>

\* The catch block throws: the request is over, whatever is left of its plan.
Rethrow(w) == Leave(w)

\* "source-sync-fail": its result is not looked at, so a store that cannot
\* be reached (the second disjunct) goes unnoticed.
Fail(w) ==
    /\ phase[w] \in {"put_failed", "complete_failed"}
    /\ \/ status' = [status EXCEPT ![Current(w)] =
                       IF @ = "pending" THEN "failed" ELSE @]
       \/ UNCHANGED status
    /\ Rethrow(w)
    /\ UNCHANGED <<begun, made, object>>

\* The server process ends: the request is gone, the stores stay.
Crash(w) ==
    /\ phase[w] # "idle"
    /\ Leave(w)
    /\ UNCHANGED <<itemVars, object>>

-----------------------------------------------------------------------------
(* Specification *)

Init ==
    /\ begun = <<>>
    /\ made = <<>>
    /\ status = <<>>
    /\ object = [n \in Item |-> 0]
    /\ phase = [w \in Worker |-> "idle"]
    /\ plan = [w \in Worker |-> {}]
    /\ body = [w \in Worker |-> 0]

\* What a request does once it has its plan.
Step(w) == Uploaded(w) \/ UploadFailed(w) \/ Complete(w) \/ Fail(w)

Next ==
    \/ Begin
    \/ \E t \in DOMAIN begun : Queue(t)
    \/ \E w \in Worker : Plan(w) \/ Step(w) \/ Crash(w)

Spec == Init /\ [][Next]_vars

\* A store process answers or is killed after its timeout, and the event loop
\* resumes the request.  Nothing bounds an upload: putRustFsObject sets no
\* timeout and does not listen for an aborted response, so there is no
\* fairness on Uploaded and UploadFailed; and nothing makes anybody ask for a
\* sync, so there is none on Plan.
FairSpec == Spec /\ \A w \in Worker : WF_vars(Complete(w) \/ Fail(w))

-----------------------------------------------------------------------------
(* Properties *)

\* Types; every item has a transaction of its own, which had begun when the
\* item was committed; a request under way has an item left, a finished one
\* has none.
TypeOK ==
    /\ begun \in Seq(0..MaxItems) /\ Len(begun) <= MaxItems
    /\ made \in Seq(DOMAIN begun)
    /\ IsInjective(made)
    /\ status \in Seq({"pending", "synced", "failed"})
    /\ Len(status) = Len(made) /\ Len(status) <= MaxItems
    /\ object \in [Item -> 0..MaxItems]
    /\ phase \in [Worker -> Busy \cup {"idle"}]
    /\ plan \in [Worker -> SUBSET Items]
    /\ body \in [Worker -> 0..MaxItems]
    /\ \A w \in Worker : phase[w] = "idle" <=> plan[w] = {}

\* The items committed before the transaction of item n began.
Before(n) == 1..begun[made[n]]

\* An item settles only after every item whose operation was over before its
\* own began, however many requests run over overlapping plans and whatever
\* fails: nobody who waits for an admission or a rollback to answer before
\* asking for the next sees their source versions reported in another order.
\* (Operations that overlap settle in either order.)
SettlesInOrder ==
    \A n \in Items : status[n] # "pending" =>
        \A m \in Before(n) : status[m] # "pending"

\* The workbook stored for an operation shows the staged rows as of that
\* operation or later, never as they were before it.
WorkbookShowsOperation ==
    \A n \in Item : object[n] # 0 => n \in Items /\ object[n] >= n

\* A request whose uploads are all answered ends: no failure or race with
\* another request keeps it looping.
RequestEnds ==
    \A w \in Worker : []<>(phase[w] # "uploading") =>
        (phase[w] # "idle" ~> phase[w] = "idle")

\* An item is marked failed only by a request whose upload failed.
FailedMeansUploadFailed ==
    [][\A n \in Items : status[n] = "pending" /\ status'[n] = "failed" =>
          \E w \in Worker : /\ phase[w] = "put_failed" /\ phase'[w] = "idle"
                            /\ n = Current(w)]_vars
=============================================================================
