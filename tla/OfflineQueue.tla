---------------------------- MODULE OfflineQueue ----------------------------
(***************************************************************************)
(* The worker app's offline queue (localQueue.ts): a request whose POST    *)
(* gets no answer is saved in the device's secure store, and every login   *)
(* and every start of the app sends the queue to the server.  Both load    *)
(* the queue, wait, and save it whole, and nothing keeps one from starting *)
(* while the other waits.  A load that cannot parse the stored entry saves *)
(* an empty queue first.                                                   *)
(*                                                                         *)
(* The server (/requests and /sync/offline) is not in the repository: its  *)
(* answer to a sync may name any of the requests sent, with any status.    *)
(***************************************************************************)
EXTENDS FiniteSets

CONSTANTS
    Request,    \* requests a worker submits on this device
    Sync        \* runs of syncQueuedOfflineRequests

VARIABLES
    auth,       \* whether somebody is logged in
    form,       \* where the submission of each request is
    store,      \* the queue in the secure store
    readable,   \* whether the stored entry is an array in JSON
    loaded,     \* the queue each enqueue has loaded
    sync,       \* where each sync is
    batch,      \* the queue each sync has loaded
    answered,   \* the requests the server's answer to it names
    named,      \* history: the requests some answer has named
    spoiled,    \* history: the requests queued when the entry was spoiled
    crossed     \* history: the requests during whose enqueue, from its load to
                \* its save, another operation on the queue was under way

formVars == <<form, loaded>>
syncVars == <<sync, batch, answered>>
history == <<named, spoiled, crossed>>
queueVars == <<auth, formVars, store, readable, syncVars, history>>

\* The operations between their load and their save; "clearing" is the save
\* of an empty queue inside a load.
Enqueuing == {r \in Request : form[r] \in {"clearing", "saving"}}
Syncing == {s \in Sync : sync[s] \in {"clearing", "sending", "saving"}}
Idle == Enqueuing = {} /\ Syncing = {}

-----------------------------------------------------------------------------
(* A submission: submit of RequestScreen.tsx, enqueueOfflineRequest *)

Submit(r) ==
    /\ auth
    /\ form[r] = "new"
    /\ form' = [form EXCEPT ![r] = "posting"]
    /\ UNCHANGED <<auth, loaded, store, readable, syncVars, history>>

\* The server answers: accepted, or an ApiError the worker is shown.
PostAnswered(r) ==
    /\ form[r] = "posting"
    /\ \E answer \in {"accepted", "refused"} : form' = [form EXCEPT ![r] = answer]
    /\ UNCHANGED <<auth, loaded, store, readable, syncVars, history>>

\* No answer: the request is queued, whether or not the server has it.
PostLost(r) ==
    /\ form[r] = "posting"
    /\ form' = [form EXCEPT ![r] = "enqueuing"]
    /\ UNCHANGED <<auth, loaded, store, readable, syncVars, history>>

\* loadOfflineQueue reads the entry.  One that does not parse is cleared
\* first; one that parses to something else counts as empty.
EnqueueLoad(r) ==
    /\ form[r] = "enqueuing"
    /\ \/ /\ form' = [form EXCEPT ![r] = "saving"]
          /\ loaded' = [loaded EXCEPT ![r] = store]
       \/ /\ ~ readable
          /\ form' = [form EXCEPT ![r] = "clearing"]
          /\ UNCHANGED loaded
    /\ crossed' = IF Idle THEN crossed ELSE crossed \cup Enqueuing \cup {r}
    /\ UNCHANGED <<auth, store, readable, syncVars, named, spoiled>>

\* saveQueue([]) in the catch block of loadOfflineQueue.
EnqueueClears(r) ==
    /\ form[r] = "clearing"
    /\ form' = [form EXCEPT ![r] = "saving"]
    /\ store' = {}
    /\ readable' = TRUE
    /\ UNCHANGED <<auth, loaded, syncVars, history>>

\* The worker is told that the request is queued.
EnqueueSave(r) ==
    /\ form[r] = "saving"
    /\ store' = loaded[r] \cup {r}
    /\ readable' = TRUE
    /\ form' = [form EXCEPT ![r] = "queued"]
    /\ loaded' = [loaded EXCEPT ![r] = {}]
    /\ UNCHANGED <<auth, syncVars, history>>

\* The secure store rejects a read or a save: the worker is shown an error.
EnqueueFails(r) ==
    /\ form[r] \in {"enqueuing", "clearing", "saving"}
    /\ form' = [form EXCEPT ![r] = "refused"]
    /\ loaded' = [loaded EXCEPT ![r] = {}]
    /\ UNCHANGED <<auth, store, readable, syncVars, history>>

-----------------------------------------------------------------------------
(* A sync: the effect of App.tsx on auth, syncQueuedOfflineRequests *)

Login(s) ==
    /\ ~ auth
    /\ sync[s] = "idle"
    /\ auth' = TRUE
    /\ sync' = [sync EXCEPT ![s] = "started"]
    /\ UNCHANGED <<formVars, store, readable, batch, answered, history>>

\* What was started goes on.
Logout ==
    /\ auth
    /\ auth' = FALSE
    /\ UNCHANGED <<formVars, store, readable, syncVars, history>>

EndSync(s) ==
    /\ sync' = [sync EXCEPT ![s] = "idle"]
    /\ batch' = [batch EXCEPT ![s] = {}]
    /\ answered' = [answered EXCEPT ![s] = {}]

\* Nothing to send: the sync returns.
SyncEmpty(s) ==
    /\ sync[s] = "started"
    /\ store = {}
    /\ EndSync(s)
    /\ UNCHANGED <<auth, formVars, store, readable, history>>

SyncLoad(s) ==
    /\ sync[s] = "started"
    /\ \/ /\ store # {}
          /\ sync' = [sync EXCEPT ![s] = "sending"]
          /\ batch' = [batch EXCEPT ![s] = store]
       \/ /\ ~ readable
          /\ sync' = [sync EXCEPT ![s] = "clearing"]
          /\ UNCHANGED batch
    /\ crossed' = crossed \cup Enqueuing
    /\ UNCHANGED <<auth, formVars, store, readable, answered, named, spoiled>>

\* saveQueue([]) in the catch block of loadOfflineQueue; nothing to send.
SyncClears(s) ==
    /\ sync[s] = "clearing"
    /\ store' = {}
    /\ readable' = TRUE
    /\ EndSync(s)
    /\ UNCHANGED <<auth, formVars, history>>

\* The answer names some of the requests sent, whatever became of them.
SyncAnswered(s) ==
    /\ sync[s] = "sending"
    /\ \E completed \in SUBSET batch[s] :
         /\ answered' = [answered EXCEPT ![s] = completed]
         /\ named' = named \cup completed
    /\ sync' = [sync EXCEPT ![s] = "saving"]
    /\ UNCHANGED <<auth, formVars, store, readable, batch, spoiled, crossed>>

\* No answer, an error, or the secure store rejects: App.tsx swallows it.
SyncFails(s) ==
    /\ sync[s] # "idle"
    /\ EndSync(s)
    /\ UNCHANGED <<auth, formVars, store, readable, history>>

\* (Mutant: the queue is emptied whatever the answer names.)
NothingLeft(s) == {}

\* The rows the answer does not name: their status is not looked at.
Remaining(s) == batch[s] \ answered[s]

\* The save of what is left.
SyncSave(s) ==
    /\ sync[s] = "saving"
    /\ store' = Remaining(s)
    /\ readable' = TRUE
    /\ EndSync(s)
    /\ UNCHANGED <<auth, formVars, history>>

-----------------------------------------------------------------------------
(* Specification *)

\* Something outside the app leaves an entry that is no array in JSON.
Spoil ==
    /\ readable
    /\ readable' = FALSE
    /\ store' = {}
    /\ spoiled' = spoiled \cup store
    /\ UNCHANGED <<auth, formVars, syncVars, named, crossed>>

\* The app is killed and started again: what was in memory is gone, the
\* login and the queue are kept, and a kept login starts a sync.
Restart(s) ==
    /\ form' = [r \in Request |->
          IF form[r] \in {"posting", "enqueuing", "clearing", "saving"} THEN "forgotten"
          ELSE form[r]]
    /\ loaded' = [r \in Request |-> {}]
    /\ sync' = [x \in Sync |-> IF auth /\ x = s THEN "started" ELSE "idle"]
    /\ batch' = [x \in Sync |-> {}]
    /\ answered' = [x \in Sync |-> {}]
    /\ UNCHANGED <<auth, store, readable, history>>

QueueInit ==
    /\ auth = FALSE
    /\ form = [r \in Request |-> "new"]
    /\ store = {}
    /\ readable = TRUE
    /\ loaded = [r \in Request |-> {}]
    /\ sync = [s \in Sync |-> "idle"]
    /\ batch = [s \in Sync |-> {}]
    /\ answered = [s \in Sync |-> {}]
    /\ named = {}
    /\ spoiled = {}
    /\ crossed = {}

QueueNext ==
    \/ \E r \in Request :
        \/ Submit(r) \/ PostAnswered(r) \/ PostLost(r)
        \/ EnqueueLoad(r) \/ EnqueueClears(r) \/ EnqueueSave(r) \/ EnqueueFails(r)
    \/ \E s \in Sync :
        \/ Login(s) \/ SyncEmpty(s) \/ SyncLoad(s) \/ SyncClears(s) \/ SyncAnswered(s)
        \/ SyncFails(s) \/ SyncSave(s) \/ Restart(s)
    \/ Logout \/ Spoil

QueueSpec == QueueInit /\ [][QueueNext]_queueVars

-----------------------------------------------------------------------------
(* Properties *)

\* Types; an entry that is no array holds no request.
QueueTypeOK ==
    /\ auth \in BOOLEAN
    /\ form \in [Request -> {"new", "posting", "accepted", "refused", "enqueuing",
                            "clearing", "saving", "queued", "forgotten"}]
    /\ store \subseteq Request
    /\ readable \in BOOLEAN
    /\ store # {} => readable
    /\ loaded \in [Request -> SUBSET Request]
    /\ sync \in [Sync -> {"idle", "started", "clearing", "sending", "saving"}]
    /\ batch \in [Sync -> SUBSET Request]
    /\ answered \in [Sync -> SUBSET Request]
    /\ named \subseteq Request
    /\ spoiled \subseteq Request
    /\ crossed \subseteq Request

\* A request the worker was told is queued is in the secure store until an
\* answer of the server names it, through lost and partial answers, rejected
\* saves and restarts.  An operation on the queue that is under way while the
\* request itself is enqueued can lose it; operations that overlap later
\* cannot.  (And an entry spoiled from outside is lost.)
QueuedIsKept ==
    \A r \in Request :
        form[r] = "queued" => r \in store \cup named \cup spoiled \cup crossed
=============================================================================
