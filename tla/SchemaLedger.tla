---------------------------- MODULE SchemaLedger ----------------------------
(***************************************************************************)
(* What the migration runner promises the programs that start with it: the *)
(* database's schema is one history of migrations that only grows, each    *)
(* step of it from a build that agrees with all before it, and a program   *)
(* is let through only when the whole list of its own build is in it.      *)
(***************************************************************************)
EXTENDS Naturals, Sequences

CONSTANTS
    Migrator,   \* programs that run the migrations when they start
    Build,      \* builds of the system
    List        \* the checksums of each build's migrations, in order

VARIABLES
    schema,     \* the migrations in the database, as <<number, checksum>>
    ready       \* the <<program, build>> that were let through

\* Build b's migrations are those of the database, as far as both go.
Agrees(b) ==
    \A n \in DOMAIN schema \cap DOMAIN List[b] : schema[n] = <<n, List[b][n]>>

\* The database has all of build b's migrations.
Complete(b) == Len(schema) >= Len(List[b]) /\ Agrees(b)

Init == schema = <<>> /\ ready = {}

\* One more migration, whole.
Migrate(b) ==
    LET next == Len(schema) + 1
    IN /\ Agrees(b)
       /\ next \in DOMAIN List[b]
       /\ schema' = Append(schema, <<next, List[b][next]>>)
       /\ UNCHANGED ready

LetThrough(p, b) ==
    /\ Complete(b)
    /\ ready' = ready \cup {<<p, b>>}
    /\ UNCHANGED schema

Leave(p, b) == ready' = ready \ {<<p, b>>} /\ UNCHANGED schema

Next ==
    \/ \E b \in Build : Migrate(b)
    \/ \E p \in Migrator, b \in Build : LetThrough(p, b) \/ Leave(p, b)

Spec == Init /\ [][Next]_<<schema, ready>>
=============================================================================
