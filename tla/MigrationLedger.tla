-------------------------- MODULE MigrationLedger ---------------------------
(***************************************************************************)
(* The migration runner of postgres_repository.rs.  Every store program    *)
(* runs apply_required_migrations when it starts, so that programs of      *)
(* several builds may run it at once, on one database.  A program first    *)
(* creates the ledger table (transaction 0), then takes its migrations in  *)
(* order, each in a transaction of its own under one advisory lock.        *)
(***************************************************************************)
EXTENDS Naturals, Sequences

CONSTANTS
    Migrator,    \* programs that run the migrations when they start
    Build,       \* builds of the system
    List,        \* the checksums of each build's migrations, in order
    Checksum,    \* checksums of migration texts
    NoChecksum,  \* no ledger row
    NoMigrator   \* the lock is free

ASSUME ListAssumption ==
    /\ List \in [Build -> Seq(Checksum)]
    /\ NoChecksum \notin Checksum
    /\ NoMigrator \notin Migrator

VARIABLES
    registry,   \* whether the ledger table exists
    ledger,     \* its rows: the checksum recorded for each migration
    schema,     \* the migrations whose SQL has taken effect, in commit order
    lock,       \* the holder of the advisory lock
    pc,         \* where each program is
    build,      \* the build it is of
    at,         \* the transaction it is in, or has to begin next
    wrote,      \* whether that transaction holds a migration and its row
    asked       \* the number of ledger rows when it asked for the lock

vars == <<registry, ledger, schema, lock, pc, build, at, wrote, asked>>

Own(p) == List[build[p]]
Number == UNION {DOMAIN List[b] : b \in Build}
Recorded == {n \in Number : ledger[n] # NoChecksum}

InTransaction == {"locked", "applying", "recording", "committing"}
Running == {"between", "waiting"} \cup InTransaction
Places == Running \cup {"off", "done", "failed"}

-----------------------------------------------------------------------------
(* Shared steps *)

\* (Mutant: the migrations run without the advisory lock.)
NoLock(p) == TRUE
LockFree(p) == lock = NoMigrator

\* (Mutant: a session lock, which the end of a transaction does not free.)
KeptLock(p) == lock
Released(p) == NoMigrator

\* (Mutant: BEGIN without READ COMMITTED, in a database that defaults to
\* REPEATABLE READ: the lookup reads the snapshot the lock was asked in.)
TransactionSnapshot(n, p) == IF n <= asked[p] THEN ledger[n] ELSE NoChecksum
\* The row the lookup finds: the statement reads what is committed by then.
Lookup(n, p) == ledger[n]

\* (Mutant: a ledger row counts, whatever its checksum.)
AnyRow(found, own) == found # NoChecksum
AlreadyApplied(found, own) == found = own

\* (Mutant: the migration runs outside the transaction.)
Autocommitted(p) == Append(schema, <<at[p], Own(p)[at[p]]>>)
\* The schema others see after p's SQL has run: DDL is transactional.
VisibleAfterSql(p) == schema

Move(p, place) == pc' = [pc EXCEPT ![p] = place]

\* The transaction ends: its lock goes with it.
End(p, place) ==
    /\ Move(p, place)
    /\ wrote' = [wrote EXCEPT ![p] = FALSE]
    /\ lock' = IF lock = p THEN Released(p) ELSE lock

-----------------------------------------------------------------------------
(* Actions *)

\* A program starts, or starts again, perhaps as another build.
Start(p, b) ==
    /\ pc[p] \notin Running
    /\ Move(p, "between")
    /\ build' = [build EXCEPT ![p] = b]
    /\ at' = [at EXCEPT ![p] = 0]
    /\ UNCHANGED <<registry, ledger, schema, lock, wrote, asked>>

\* BEGIN and the statement that asks for the lock.
Begin(p) ==
    /\ pc[p] = "between"
    /\ at[p] <= Len(Own(p))
    /\ Move(p, "waiting")
    /\ asked' = [asked EXCEPT ![p] = Len(schema)]
    /\ UNCHANGED <<registry, ledger, schema, lock, build, at, wrote>>

Acquire(p) ==
    /\ pc[p] = "waiting"
    /\ LockFree(p)
    /\ Move(p, "locked")
    /\ lock' = p
    /\ UNCHANGED <<registry, ledger, schema, build, at, wrote, asked>>

\* Transaction 0: CREATE ... IF NOT EXISTS.
Bootstrap(p) ==
    /\ pc[p] = "locked"
    /\ at[p] = 0
    /\ Move(p, "committing")
    /\ UNCHANGED <<registry, ledger, schema, lock, build, at, wrote, asked>>

\* The lookup of a migration that is recorded, or is to be run.
LookUp(p) ==
    LET found == Lookup(at[p], p)
    IN /\ pc[p] = "locked"
       /\ at[p] > 0
       /\ registry
       /\ \/ /\ AlreadyApplied(found, Own(p)[at[p]])
             /\ Move(p, "committing")
          \/ /\ found = NoChecksum
             /\ Move(p, "applying")
       /\ UNCHANGED <<registry, ledger, schema, lock, build, at, wrote, asked>>

\* postgres_migration_checksum_mismatch: roll back and give up.
Mismatch(p) ==
    LET found == Lookup(at[p], p)
    IN /\ pc[p] = "locked"
       /\ at[p] > 0
       /\ registry
       /\ found # NoChecksum
       /\ ~ AlreadyApplied(found, Own(p)[at[p]])
       /\ End(p, "failed")
       /\ UNCHANGED <<registry, ledger, schema, build, at, asked>>

RunSql(p) ==
    /\ pc[p] = "applying"
    /\ Move(p, "recording")
    /\ schema' = VisibleAfterSql(p)
    /\ UNCHANGED <<registry, ledger, lock, build, at, wrote, asked>>

\* The INSERT of the ledger row, whose key must be new.
InsertRow(p) ==
    /\ pc[p] = "recording"
    /\ ledger[at[p]] = NoChecksum
    /\ Move(p, "committing")
    /\ wrote' = [wrote EXCEPT ![p] = TRUE]
    /\ UNCHANGED <<registry, ledger, schema, lock, build, at, asked>>

\* What p's transaction leaves behind when it commits.
Committed(p) ==
    /\ registry' = (registry \/ at[p] = 0)
    /\ IF wrote[p]
       THEN /\ ledger' = [ledger EXCEPT ![at[p]] = Own(p)[at[p]]]
            /\ schema' = Append(schema, <<at[p], Own(p)[at[p]]>>)
       ELSE UNCHANGED <<ledger, schema>>

Commit(p) ==
    /\ pc[p] = "committing"
    /\ Committed(p)
    /\ End(p, "between")
    /\ at' = [at EXCEPT ![p] = @ + 1]
    /\ UNCHANGED <<build, asked>>

\* COMMIT takes effect and its answer is lost: the program gives up.
CommitUnanswered(p) ==
    /\ pc[p] = "committing"
    /\ Committed(p)
    /\ End(p, "failed")
    /\ UNCHANGED <<build, at, asked>>

\* Every migration of the list has its receipt.
Finish(p) ==
    /\ pc[p] = "between"
    /\ at[p] > Len(Own(p))
    /\ Move(p, "done")
    /\ UNCHANGED <<registry, ledger, schema, lock, build, at, wrote, asked>>

\* A statement fails and is rolled back, the connection is lost, or the
\* program is killed: nothing of the open transaction stays.
Abort(p) ==
    /\ pc[p] \in Running
    /\ End(p, "failed")
    /\ UNCHANGED <<registry, ledger, schema, build, at, asked>>

-----------------------------------------------------------------------------
(* Specification *)

Init ==
    /\ registry = FALSE
    /\ ledger = [n \in Number |-> NoChecksum]
    /\ schema = <<>>
    /\ lock = NoMigrator
    /\ pc = [p \in Migrator |-> "off"]
    /\ build \in [Migrator -> Build]
    /\ at = [p \in Migrator |-> 0]
    /\ wrote = [p \in Migrator |-> FALSE]
    /\ asked = [p \in Migrator |-> 0]

\* What a program does once it has started, the wait for the lock apart.
Step(p) ==
    \/ Begin(p) \/ Bootstrap(p) \/ LookUp(p) \/ Mismatch(p)
    \/ RunSql(p) \/ InsertRow(p) \/ Commit(p) \/ Finish(p)

Next ==
    \E p \in Migrator :
        \/ \E b \in Build : Start(p, b)
        \/ Acquire(p)
        \/ Step(p)
        \/ CommitUnanswered(p)
        \/ Abort(p)

Spec == Init /\ [][Next]_vars

\* PostgreSQL queues the waiters of a lock first come, first served: who
\* waits for it gets it, though others take and free it over and over.
FairSpec ==
    Spec /\ \A p \in Migrator : WF_vars(Step(p)) /\ SF_vars(Acquire(p))

-----------------------------------------------------------------------------
(* Properties *)

\* Types; one program holds the lock exactly while it is in a transaction,
\* and a ledger row needs the table.
TypeOK ==
    /\ registry \in BOOLEAN
    /\ ledger \in [Number -> Checksum \cup {NoChecksum}]
    /\ schema \in Seq(Number \X Checksum)
    /\ lock \in Migrator \cup {NoMigrator}
    /\ pc \in [Migrator -> Places]
    /\ build \in [Migrator -> Build]
    /\ at \in [Migrator -> Nat]
    /\ wrote \in [Migrator -> BOOLEAN]
    /\ asked \in [Migrator -> Nat]
    /\ \A p \in Migrator : pc[p] \in InTransaction <=> lock = p
    /\ schema # <<>> => registry

\* A migration's SQL runs only while the ledger has no row for it: the
\* lookup under the lock sees what every other program has committed.
NeverReapplies ==
    \A p \in Migrator :
        pc[p] \in {"applying", "recording"} => ledger[at[p]] = NoChecksum

\* The ledger tells what is in the schema: migrations 1..k, each once, in
\* order, with the checksum of the text that ran.  Programs that die
\* between the SQL, its row and the COMMIT leave no difference.
LedgerMatchesSchema ==
    /\ Recorded = DOMAIN schema
    /\ \A n \in DOMAIN schema : schema[n] = <<n, ledger[n]>>

\* A program that was let through finds its whole build in the ledger,
\* whatever other builds have done meanwhile.
DoneMeansApplied ==
    \A p \in Migrator : pc[p] = "done" =>
        \A n \in DOMAIN Own(p) : ledger[n] = Own(p)[n]

\* A started program ends, let through or not; none waits for ever.
Settles == \A p \in Migrator : pc[p] \in Running ~> pc[p] \in {"done", "failed"}

\* The runner implements the ledger its callers rely on.
Promise == INSTANCE SchemaLedger
    WITH ready <- {<<p, build[p]>> : p \in {q \in Migrator : pc[q] = "done"}}
KeepsPromise == Promise!Spec
=============================================================================
