----------------------- MODULE MigrationLedgerProofs ------------------------
(***************************************************************************)
(* Proofs about MigrationLedger for any number of programs, any builds and *)
(* any lists of migrations: the invariants of the runs, and that the       *)
(* runner implements SchemaLedger.                                         *)
(***************************************************************************)
EXTENDS MigrationLedger, TLAPS

-----------------------------------------------------------------------------
(* The inductive invariant *)

\* What is known of a program at each place: the transaction it may be in,
\* the ledger rows it has gone through, and the one it is about to add.
Place(p) ==
    /\ pc[p] \in Running => at[p] <= Len(Own(p)) + 1
    /\ pc[p] \in InTransaction \cup {"waiting"} => at[p] <= Len(Own(p))
    /\ pc[p] = "done" => at[p] > Len(Own(p))
    /\ wrote[p] => pc[p] = "committing"
    /\ pc[p] \in {"applying", "recording"} \/ wrote[p] =>
         at[p] > 0 /\ registry /\ ledger[at[p]] = NoChecksum
    /\ pc[p] = "committing" /\ ~ wrote[p] /\ at[p] > 0 =>
         ledger[at[p]] = Own(p)[at[p]]
    /\ pc[p] \in Running \cup {"done"} =>
         \A n \in DOMAIN Own(p) : n < at[p] => ledger[n] = Own(p)[n]

Inv ==
    /\ TypeOK
    /\ LedgerMatchesSchema
    /\ \A p \in Migrator : Place(p)

-----------------------------------------------------------------------------
(* Lemmas about lists and commits *)

LEMMA SeqBasics ==
    ASSUME NEW S
    PROVE  <<>> \in Seq(S) /\ \A s \in Seq(S), e \in S : Append(s, e) \in Seq(S)
  OBVIOUS

LEMMA OwnList ==
    ASSUME TypeOK, NEW p \in Migrator
    PROVE  /\ Own(p) \in Seq(Checksum)
           /\ Len(Own(p)) \in Nat
           /\ DOMAIN Own(p) = 1..Len(Own(p))
           /\ DOMAIN Own(p) \subseteq Number
           /\ \A n \in DOMAIN Own(p) : Own(p)[n] \in Checksum /\ Own(p)[n] # NoChecksum
<1>1. build[p] \in Build
  BY DEF TypeOK
<1>2. Own(p) \in Seq(Checksum)
  BY <1>1, ListAssumption DEF Own
<1>3. DOMAIN Own(p) \subseteq Number
  BY <1>1 DEF Own, Number
<1> QED BY <1>2, <1>3, ListAssumption

LEMMA NumberIsNat == Number \subseteq Nat
<1> SUFFICES ASSUME NEW b \in Build PROVE DOMAIN List[b] \subseteq Nat
  BY DEF Number
<1>1. List[b] \in Seq(Checksum)
  BY ListAssumption
<1> QED BY <1>1

\* A transaction that holds a migration holds the next one.
LEMMA NextNumber ==
    ASSUME Inv, NEW p \in Migrator, pc[p] = "committing", wrote[p]
    PROVE  /\ at[p] = Len(schema) + 1
           /\ at[p] \in DOMAIN Own(p)
           /\ ledger[at[p]] = NoChecksum
           /\ registry
<1> DEFINE k == at[p]
<1>1. /\ k \in Nat /\ k > 0 /\ k <= Len(Own(p)) /\ registry
      /\ ledger[k] = NoChecksum
      /\ \A n \in DOMAIN Own(p) : n < k => ledger[n] = Own(p)[n]
  BY DEF Inv, TypeOK, Place, Running, InTransaction
<1>2. k \in DOMAIN Own(p)
  BY <1>1, OwnList DEF Inv
<1>3. /\ schema \in Seq(Number \X Checksum)
      /\ Recorded = 1..Len(schema)
      /\ Len(schema) \in Nat
  BY DEF Inv, TypeOK, LedgerMatchesSchema
<1>4. k \notin 1..Len(schema)
  BY <1>1, <1>3 DEF Recorded
<1>5. k = 1 \/ k - 1 \in 1..Len(schema)
  <2> SUFFICES ASSUME k # 1 PROVE k - 1 \in 1..Len(schema)
    OBVIOUS
  <2>1. k - 1 \in DOMAIN Own(p) /\ k - 1 < k
    BY <1>1, <1>2, OwnList DEF Inv
  <2>2. ledger[k - 1] = Own(p)[k - 1]
    BY <2>1, <1>1
  <2>3. k - 1 \in Number /\ ledger[k - 1] # NoChecksum
    BY <2>1, <2>2, OwnList DEF Inv
  <2> QED BY <2>3, <1>3 DEF Recorded
<1> QED BY <1>1, <1>2, <1>3, <1>4, <1>5

-----------------------------------------------------------------------------
(* Type correctness *)

LEMMA TypeInit == Init => TypeOK
<1> SUFFICES ASSUME Init PROVE TypeOK
  OBVIOUS
<1>1. /\ registry \in BOOLEAN /\ schema \in Seq(Number \X Checksum)
      /\ lock \in Migrator \cup {NoMigrator} /\ build \in [Migrator -> Build]
      /\ schema = <<>>
  BY SeqBasics DEF Init
<1>2. ledger \in [Number -> Checksum \cup {NoChecksum}]
  BY DEF Init
<1>3. /\ at \in [Migrator -> Nat] /\ asked \in [Migrator -> Nat]
      /\ wrote \in [Migrator -> BOOLEAN] /\ pc \in [Migrator -> Places]
  BY DEF Init, Places
<1>4. \A p \in Migrator : pc[p] \in InTransaction <=> lock = p
  BY ListAssumption DEF Init, InTransaction
<1> QED BY <1>1, <1>2, <1>3, <1>4 DEF TypeOK

LEMMA CommittedType ==
    ASSUME Inv, NEW p \in Migrator, pc[p] = "committing", Committed(p)
    PROVE  /\ registry' \in BOOLEAN
           /\ ledger' \in [Number -> Checksum \cup {NoChecksum}]
           /\ schema' \in Seq(Number \X Checksum)
           /\ schema' # <<>> => registry'
<1>1. CASE wrote[p]
  <2>1. at[p] \in Number /\ Own(p)[at[p]] \in Checksum /\ registry
    BY <1>1, NextNumber, OwnList DEF Inv
  <2>2. <<at[p], Own(p)[at[p]]>> \in Number \X Checksum
    BY <2>1
  <2>3. schema' \in Seq(Number \X Checksum)
    <3>1. schema \in Seq(Number \X Checksum)
      BY DEF Inv, TypeOK
    <3>2. schema' = Append(schema, <<at[p], Own(p)[at[p]]>>)
      BY <1>1 DEF Committed
    <3> QED BY <2>2, <3>1, <3>2, SeqBasics
  <2>4. ledger' \in [Number -> Checksum \cup {NoChecksum}]
    BY <1>1, <2>1 DEF Committed, Inv, TypeOK
  <2> QED BY <2>1, <2>3, <2>4 DEF Committed
<1>2. CASE ~ wrote[p]
  BY <1>2 DEF Committed, Inv, TypeOK
<1> QED BY <1>1, <1>2

LEMMA TypeStep == Inv /\ [Next]_vars => TypeOK'
<1> SUFFICES ASSUME Inv, [Next]_vars PROVE TypeOK'
  OBVIOUS
<1> USE DEF Places, Running, InTransaction, Move
<1>0. TypeOK
  BY DEF Inv
<1>1. ASSUME NEW p \in Migrator, NEW b \in Build, Start(p, b) PROVE TypeOK'
  BY <1>0, <1>1, ListAssumption DEF TypeOK, Start
<1>2. ASSUME NEW p \in Migrator, Begin(p) PROVE TypeOK'
  BY <1>0, <1>2, ListAssumption DEF TypeOK, Begin
<1>3. ASSUME NEW p \in Migrator, Acquire(p) PROVE TypeOK'
  BY <1>0, <1>3, ListAssumption DEF TypeOK, Acquire, LockFree
<1>4. ASSUME NEW p \in Migrator, Bootstrap(p) PROVE TypeOK'
  BY <1>0, <1>4 DEF TypeOK, Bootstrap
<1>5. ASSUME NEW p \in Migrator, LookUp(p) PROVE TypeOK'
  BY <1>0, <1>5 DEF TypeOK, LookUp
<1>6. ASSUME NEW p \in Migrator, Mismatch(p) PROVE TypeOK'
  BY <1>0, <1>6, ListAssumption DEF TypeOK, Mismatch, End, Released
<1>7. ASSUME NEW p \in Migrator, RunSql(p) PROVE TypeOK'
  BY <1>0, <1>7 DEF TypeOK, RunSql, VisibleAfterSql
<1>8. ASSUME NEW p \in Migrator, InsertRow(p) PROVE TypeOK'
  BY <1>0, <1>8 DEF TypeOK, InsertRow
<1>9. ASSUME NEW p \in Migrator, Commit(p) PROVE TypeOK'
  BY <1>0, <1>9, CommittedType, ListAssumption DEF TypeOK, Commit, End, Released
<1>10. ASSUME NEW p \in Migrator, CommitUnanswered(p) PROVE TypeOK'
  BY <1>0, <1>10, CommittedType, ListAssumption
     DEF TypeOK, CommitUnanswered, End, Released
<1>11. ASSUME NEW p \in Migrator, Finish(p) PROVE TypeOK'
  BY <1>0, <1>11 DEF TypeOK, Finish
<1>12. ASSUME NEW p \in Migrator, Abort(p) PROVE TypeOK'
  BY <1>0, <1>12, ListAssumption DEF TypeOK, Abort, End, Released
<1>13. CASE UNCHANGED vars
  BY <1>0, <1>13 DEF TypeOK, vars
<1> QED
  BY <1>1, <1>2, <1>3, <1>4, <1>5, <1>6, <1>7, <1>8, <1>9, <1>10, <1>11,
     <1>12, <1>13 DEF Next, Step
-----------------------------------------------------------------------------
(* The ledger and the schema *)

\* A commit that writes adds one migration to both; the rest leave both.
LEMMA CommittedLedger ==
    ASSUME Inv, NEW p \in Migrator, pc[p] = "committing", Committed(p)
    PROVE  /\ LedgerMatchesSchema'
           /\ \A n \in Number : ledger[n] # NoChecksum => ledger'[n] = ledger[n]
           /\ at[p] > 0 => /\ at[p] \in DOMAIN Own(p)
                          /\ ledger'[at[p]] = Own(p)[at[p]]
           /\ registry => registry'
<1>1. CASE wrote[p]
  <2> DEFINE k == at[p]
  <2>1. /\ k = Len(schema) + 1 /\ k \in DOMAIN Own(p) /\ k \in Number
        /\ Own(p)[k] \in Checksum /\ Own(p)[k] # NoChecksum
        /\ ledger[k] = NoChecksum
    BY <1>1, NextNumber, OwnList DEF Inv
  <2>2. /\ ledger' = [ledger EXCEPT ![k] = Own(p)[k]]
        /\ schema' = Append(schema, <<k, Own(p)[k]>>)
    BY <1>1 DEF Committed
  <2>3. /\ ledger \in [Number -> Checksum \cup {NoChecksum}]
        /\ schema \in Seq(Number \X Checksum)
        /\ Recorded = DOMAIN schema
        /\ \A n \in DOMAIN schema : schema[n] = <<n, ledger[n]>>
    BY DEF Inv, TypeOK, LedgerMatchesSchema
  <2>4. /\ Len(schema) \in Nat
        /\ DOMAIN schema = 1..Len(schema)
        /\ DOMAIN schema' = 1..k
        /\ schema'[k] = <<k, Own(p)[k]>>
        /\ \A n \in 1..Len(schema) : schema'[n] = schema[n]
    BY <2>1, <2>2, <2>3
  <2>5. /\ ledger'[k] = Own(p)[k]
        /\ \A n \in Number : n # k => ledger'[n] = ledger[n]
    BY <2>1, <2>2, <2>3
  <2>6. Recorded' = Recorded \cup {k}
    BY <2>1, <2>5 DEF Recorded
  <2>7. Recorded' = DOMAIN schema'
    BY <2>1, <2>3, <2>4, <2>6
  <2>8. ASSUME NEW n \in DOMAIN schema' PROVE schema'[n] = <<n, ledger'[n]>>
    <3>1. CASE n = k
      BY <3>1, <2>4, <2>5
    <3>2. CASE n # k
      <4>1. n \in 1..Len(schema)
        BY <3>2, <2>1, <2>4
      <4>2. n \in Number
        BY <4>1, <2>3, <2>4 DEF Recorded
      <4> QED BY <3>2, <4>1, <4>2, <2>3, <2>4, <2>5
    <3> QED BY <3>1, <3>2
  <2> QED BY <2>1, <2>5, <2>7, <2>8 DEF LedgerMatchesSchema, Committed
<1>2. CASE ~ wrote[p]
  <2>1. ledger' = ledger /\ schema' = schema
    BY <1>2 DEF Committed
  <2>2. LedgerMatchesSchema'
    BY <2>1 DEF Inv, LedgerMatchesSchema, Recorded
  <2>3. at[p] > 0 => /\ at[p] \in DOMAIN Own(p)
                     /\ ledger[at[p]] = Own(p)[at[p]]
    BY <1>2, OwnList DEF Inv, TypeOK, Place, InTransaction
  <2> QED BY <2>1, <2>2, <2>3 DEF Committed
<1>3. wrote[p] \in BOOLEAN
  BY DEF Inv, TypeOK
<1> QED BY <1>1, <1>2

LEMMA LedgerStep == Inv /\ [Next]_vars => LedgerMatchesSchema'
<1> SUFFICES ASSUME Inv, [Next]_vars PROVE LedgerMatchesSchema'
  OBVIOUS
<1>1. ASSUME NEW p \in Migrator, Commit(p) \/ CommitUnanswered(p)
      PROVE  LedgerMatchesSchema'
  BY <1>1, CommittedLedger DEF Commit, CommitUnanswered
<1>2. ASSUME UNCHANGED <<ledger, schema>> PROVE LedgerMatchesSchema'
  BY <1>2 DEF Inv, LedgerMatchesSchema, Recorded
<1>3. \/ \E p \in Migrator : Commit(p) \/ CommitUnanswered(p)
      \/ UNCHANGED <<ledger, schema>>
  BY DEF Next, Step, vars, Start, Begin, Acquire, Bootstrap, LookUp, Mismatch,
         RunSql, VisibleAfterSql, InsertRow, Finish, Abort
<1> QED BY <1>1, <1>2, <1>3

-----------------------------------------------------------------------------
(* The places of the programs *)

\* A step of one program does not disturb the place of another: it cannot
\* record a migration that the other, holding the lock, found missing.
LEMMA OtherPlace ==
    ASSUME Inv, NEW q \in Migrator,
           pc'[q] = pc[q], build'[q] = build[q], at'[q] = at[q],
           wrote'[q] = wrote[q], registry => registry',
           \A n \in Number : ledger[n] # NoChecksum => ledger'[n] = ledger[n],
           pc[q] \in {"applying", "recording"} \/ wrote[q] =>
               ledger'[at[q]] = ledger[at[q]]
    PROVE  Place(q)'
<1>1. Own(q)' = Own(q)
  BY DEF Own
<1>2. Place(q) /\ TypeOK
  BY DEF Inv
<1>3. \A n \in DOMAIN Own(q) : ledger[n] = Own(q)[n] => ledger'[n] = Own(q)[n]
  BY <1>2, OwnList
<1>4. pc[q] = "committing" /\ at[q] > 0 => at[q] \in DOMAIN Own(q)
  BY <1>2, OwnList DEF Place, InTransaction, TypeOK
<1> QED BY <1>1, <1>2, <1>3, <1>4 DEF Place

LEMMA PlaceStep == Inv /\ [Next]_vars => \A q \in Migrator : Place(q)'
<1> SUFFICES ASSUME Inv, [Next]_vars, NEW q \in Migrator PROVE Place(q)'
  OBVIOUS
<1> USE DEF Move
<1>0. TypeOK /\ Place(q)
  BY DEF Inv
<1>1. ASSUME NEW p \in Migrator, NEW b \in Build, Start(p, b) PROVE Place(q)'
  <2>1. CASE p = q
    <3>1. Own(q)' = List[b]
      BY <1>0, <1>1, <2>1 DEF Start, Own, TypeOK
    <3>2. /\ pc'[q] = "between" /\ at'[q] = 0 /\ wrote'[q] = wrote[q]
          /\ ~ wrote[q]
      BY <1>0, <1>1, <2>1 DEF Start, TypeOK, Place, Running, InTransaction
    <3>3. Len(List[b]) \in Nat /\ DOMAIN List[b] \subseteq Nat \ {0}
      BY ListAssumption
    <3> QED BY <3>1, <3>2, <3>3 DEF Place, Running, InTransaction
  <2>2. CASE p # q
    BY <1>0, <1>1, <2>2, OtherPlace DEF Start, TypeOK
  <2> QED BY <2>1, <2>2
<1>2. ASSUME NEW p \in Migrator, Begin(p) PROVE Place(q)'
  <2>1. Own(q)' = Own(q)
    BY <1>2 DEF Begin, Own
  <2> QED BY <1>0, <1>2, <2>1 DEF Begin, TypeOK, Place, Running, InTransaction
<1>3. ASSUME NEW p \in Migrator, Acquire(p) PROVE Place(q)'
  <2>1. Own(q)' = Own(q)
    BY <1>3 DEF Acquire, Own
  <2> QED BY <1>0, <1>3, <2>1 DEF Acquire, TypeOK, Place, Running, InTransaction
<1>4. ASSUME NEW p \in Migrator, Bootstrap(p) PROVE Place(q)'
  <2>1. Own(q)' = Own(q)
    BY <1>4 DEF Bootstrap, Own
  <2> QED BY <1>0, <1>4, <2>1 DEF Bootstrap, TypeOK, Place, Running, InTransaction
<1>5. ASSUME NEW p \in Migrator, LookUp(p) PROVE Place(q)'
  <2>1. Own(q)' = Own(q)
    BY <1>5 DEF LookUp, Own
  <2> QED BY <1>0, <1>5, <2>1
          DEF LookUp, Lookup, AlreadyApplied, TypeOK, Place, Running, InTransaction
<1>6. ASSUME NEW p \in Migrator, Mismatch(p) PROVE Place(q)'
  <2>1. Own(q)' = Own(q)
    BY <1>6 DEF Mismatch, Own
  <2> QED BY <1>0, <1>6, <2>1 DEF Mismatch, End, TypeOK, Place, Running, InTransaction
<1>7. ASSUME NEW p \in Migrator, RunSql(p) PROVE Place(q)'
  <2>1. Own(q)' = Own(q)
    BY <1>7 DEF RunSql, Own
  <2> QED BY <1>0, <1>7, <2>1 DEF RunSql, TypeOK, Place, Running, InTransaction
<1>8. ASSUME NEW p \in Migrator, InsertRow(p) PROVE Place(q)'
  <2>1. Own(q)' = Own(q)
    BY <1>8 DEF InsertRow, Own
  <2> QED BY <1>0, <1>8, <2>1 DEF InsertRow, TypeOK, Place, Running, InTransaction
<1>9. ASSUME NEW p \in Migrator, Commit(p) \/ CommitUnanswered(p), p # q
      PROVE  Place(q)'
  <2>1. lock = p /\ pc[q] \notin InTransaction
    BY <1>0, <1>9 DEF TypeOK, Commit, CommitUnanswered, InTransaction
  <2>2. ~ (pc[q] \in {"applying", "recording"} \/ wrote[q])
    BY <1>0, <2>1 DEF Place, InTransaction
  <2> QED BY <1>0, <1>9, <2>2, CommittedLedger, OtherPlace
          DEF Commit, CommitUnanswered, End, TypeOK
<1>10. ASSUME Commit(q) PROVE Place(q)'
  <2>1. Own(q)' = Own(q)
    BY <1>10 DEF Commit, Own
  <2>2. /\ pc[q] = "committing" /\ pc'[q] = "between" /\ at'[q] = at[q] + 1
        /\ wrote'[q] = FALSE /\ at[q] \in Nat
    BY <1>0, <1>10 DEF Commit, End, TypeOK
  <2>3. at[q] <= Len(Own(q)) /\ Len(Own(q)) \in Nat
    BY <1>0, <2>2, OwnList DEF Place, InTransaction
  <2>4. ASSUME NEW n \in DOMAIN Own(q), n < at[q] + 1
        PROVE  ledger'[n] = Own(q)[n]
    <3>1. n \in Nat /\ n > 0
      BY <1>0, OwnList
    <3>2. CASE n = at[q]
      BY <1>10, <2>2, <3>1, <3>2, CommittedLedger DEF Commit
    <3>3. CASE n # at[q]
      <4>1. n < at[q]
        BY <2>2, <2>4, <3>1, <3>3
      <4>2. ledger[n] = Own(q)[n]
        BY <1>0, <2>2, <4>1 DEF Place, Running, InTransaction
      <4> QED BY <1>0, <1>10, <2>2, <4>2, CommittedLedger, OwnList DEF Commit
    <3> QED BY <3>2, <3>3
  <2> QED BY <2>1, <2>2, <2>3, <2>4 DEF Place, Running, InTransaction
<1>11. ASSUME CommitUnanswered(q) PROVE Place(q)'
  BY <1>0, <1>11 DEF CommitUnanswered, End, TypeOK, Place, Running, InTransaction
<1>12. ASSUME NEW p \in Migrator, Finish(p) PROVE Place(q)'
  <2>1. Own(q)' = Own(q)
    BY <1>12 DEF Finish, Own
  <2> QED BY <1>0, <1>12, <2>1 DEF Finish, TypeOK, Place, Running, InTransaction
<1>13. ASSUME NEW p \in Migrator, Abort(p) PROVE Place(q)'
  <2>1. Own(q)' = Own(q)
    BY <1>13 DEF Abort, Own
  <2> QED BY <1>0, <1>13, <2>1 DEF Abort, End, TypeOK, Place, Running, InTransaction
<1>14. CASE UNCHANGED vars
  <2>1. Own(q)' = Own(q)
    BY <1>14 DEF vars, Own
  <2> QED BY <1>0, <1>14, <2>1 DEF vars, Place
<1>15. ASSUME NEW p \in Migrator, Commit(p) \/ CommitUnanswered(p) PROVE Place(q)'
  BY <1>9, <1>10, <1>11, <1>15
<1> QED
  BY <1>1, <1>2, <1>3, <1>4, <1>5, <1>6, <1>7, <1>8, <1>12, <1>13, <1>14,
     <1>15 DEF Next, Step

-----------------------------------------------------------------------------
(* The invariants *)

LEMMA InvInit == Init => Inv
<1> SUFFICES ASSUME Init PROVE Inv
  OBVIOUS
<1>1. TypeOK
  BY TypeInit
<1>2. LedgerMatchesSchema
  BY DEF Init, LedgerMatchesSchema, Recorded
<1>3. \A p \in Migrator : Place(p)
  BY DEF Init, Place, Running, InTransaction
<1> QED BY <1>1, <1>2, <1>3 DEF Inv

\* The inductive invariant holds of every behaviour.
THEOREM Inductive == Spec => []Inv
<1>1. Inv /\ [Next]_vars => Inv'
  BY TypeStep, LedgerStep, PlaceStep DEF Inv
<1> QED BY InvInit, <1>1, PTL DEF Spec

\* Types, and the lock: in every behaviour a program holds the advisory
\* lock exactly while its transaction runs.
THEOREM TypeCorrect == Spec => []TypeOK
<1>1. Inv => TypeOK
  BY DEF Inv
<1> QED BY <1>1, Inductive, PTL

\* No interleaving of programs makes one run a migration that is recorded.
THEOREM Reapplied == Spec => []NeverReapplies
<1>1. Inv => NeverReapplies
  BY DEF Inv, Place, NeverReapplies
<1> QED BY <1>1, Inductive, PTL

\* The ledger and the effects of the migrations agree after every step of
\* every program, a crash or an unanswered COMMIT included.
THEOREM LedgerIsTrue == Spec => []LedgerMatchesSchema
<1>1. Inv => LedgerMatchesSchema
  BY DEF Inv
<1> QED BY <1>1, Inductive, PTL

LEMMA DoneFromInv == Inv => DoneMeansApplied
<1> SUFFICES ASSUME Inv, NEW p \in Migrator, pc[p] = "done", NEW n \in DOMAIN Own(p)
             PROVE  ledger[n] = Own(p)[n]
  BY DEF DoneMeansApplied
<1>1. at[p] > Len(Own(p)) /\ at[p] \in Nat
  BY DEF Inv, Place, TypeOK
<1>2. n \in 1..Len(Own(p)) /\ Len(Own(p)) \in Nat
  BY OwnList DEF Inv
<1>3. n < at[p]
  BY <1>1, <1>2
<1> QED BY <1>3 DEF Inv, Place

\* A program that was let through has its whole build in the ledger.
THEOREM DoneIsApplied == Spec => []DoneMeansApplied
BY DoneFromInv, Inductive, PTL

-----------------------------------------------------------------------------
(* The runner implements the ledger of SchemaLedger *)

Ready == {<<p, build[p]>> : p \in {q \in Migrator : pc[q] = "done"}}

\* A program that has gone through its list up to `at` agrees with the
\* schema as far as that.
LEMMA AgreesSoFar ==
    ASSUME Inv, NEW p \in Migrator, pc[p] \in Running \cup {"done"},
           NEW n \in DOMAIN schema \cap DOMAIN Own(p), n < at[p]
    PROVE  schema[n] = <<n, Own(p)[n]>>
<1>1. schema[n] = <<n, ledger[n]>>
  BY DEF Inv, LedgerMatchesSchema
<1>2. ledger[n] = Own(p)[n]
  BY DEF Inv, Place
<1> QED BY <1>1, <1>2

LEMMA CommitRefines ==
    ASSUME Inv, NEW p \in Migrator, Commit(p) \/ CommitUnanswered(p)
    PROVE  UNCHANGED <<schema, Ready>> \/ \E b \in Build : Promise!Migrate(b)
<1>1. /\ pc[p] = "committing" /\ Committed(p) /\ UNCHANGED build
      /\ \E place \in {"between", "failed"} : pc' = [pc EXCEPT ![p] = place]
  BY DEF Commit, CommitUnanswered, End, Move
<1>2. UNCHANGED Ready
  BY <1>1 DEF Ready, Inv, TypeOK
<1>3. CASE wrote[p]
  <2>1. /\ at[p] = Len(schema) + 1 /\ at[p] \in DOMAIN Own(p)
    BY <1>1, <1>3, NextNumber
  <2>2. \A n \in DOMAIN schema \cap DOMAIN Own(p) : schema[n] = <<n, Own(p)[n]>>
    <3> SUFFICES ASSUME NEW n \in DOMAIN schema \cap DOMAIN Own(p) PROVE n < at[p]
      BY <1>1, AgreesSoFar DEF Running, InTransaction
    <3>1. schema \in Seq(Number \X Checksum)
      BY DEF Inv, TypeOK
    <3> QED BY <2>1, <3>1
  <2>3. schema' = Append(schema, <<at[p], Own(p)[at[p]]>>)
    BY <1>1, <1>3 DEF Committed
  <2>4. build[p] \in Build
    BY DEF Inv, TypeOK
  <2>5. Promise!Migrate(build[p])
    BY <1>2, <2>1, <2>2, <2>3 DEF Promise!Migrate, Promise!Agrees, Own, Ready
  <2> QED BY <2>4, <2>5
<1>4. CASE ~ wrote[p]
  BY <1>1, <1>2, <1>4 DEF Committed
<1> QED BY <1>3, <1>4

LEMMA FinishRefines ==
    ASSUME Inv, NEW p \in Migrator, Finish(p), NEW b \in Build, b = build[p]
    PROVE  Promise!LetThrough(p, b)
<1>1. /\ pc[p] = "between" /\ at[p] > Len(Own(p)) /\ at[p] \in Nat
      /\ UNCHANGED <<schema, build>> /\ pc' = [pc EXCEPT ![p] = "done"]
      /\ pc \in [Migrator -> Places] /\ schema \in Seq(Number \X Checksum)
  BY DEF Finish, Move, Inv, TypeOK
<1>2. /\ Len(Own(p)) \in Nat /\ DOMAIN Own(p) = 1..Len(Own(p))
  BY OwnList DEF Inv
<1>3. \A n \in DOMAIN Own(p) : n < at[p]
  BY <1>1, <1>2
<1>4. \A n \in DOMAIN Own(p) : n \in DOMAIN schema
  <2> SUFFICES ASSUME NEW n \in DOMAIN Own(p) PROVE n \in DOMAIN schema
    OBVIOUS
  <2>1. ledger[n] = Own(p)[n]
    BY <1>1, <1>3 DEF Inv, Place, Running
  <2>2. n \in Recorded
    BY <2>1, OwnList DEF Recorded, Inv
  <2> QED BY <2>2 DEF Inv, LedgerMatchesSchema
<1>5. Len(schema) >= Len(Own(p))
  <2>1. CASE Len(Own(p)) = 0
    BY <1>1, <2>1
  <2>2. CASE Len(Own(p)) > 0
    <3>1. Len(Own(p)) \in DOMAIN schema
      BY <1>2, <1>4, <2>2
    <3> QED BY <1>1, <1>2, <3>1
  <2> QED BY <1>2, <2>1, <2>2
<1>6. \A n \in DOMAIN schema \cap DOMAIN Own(p) : schema[n] = <<n, Own(p)[n]>>
  BY <1>1, <1>3, AgreesSoFar DEF Running
<1>7. Promise!Complete(b)
  BY <1>5, <1>6 DEF Promise!Complete, Promise!Agrees, Own
<1>8. Ready' = Ready \cup {<<p, b>>}
  BY <1>1 DEF Ready
<1> QED BY <1>1, <1>7, <1>8 DEF Promise!LetThrough, Ready

LEMMA StartRefines ==
    ASSUME Inv, NEW p \in Migrator, NEW c \in Build, Start(p, c),
           NEW b \in Build, b = build[p]
    PROVE  Promise!Leave(p, b)
<1>1. /\ pc \in [Migrator -> Places] /\ build \in [Migrator -> Build]
      /\ pc' = [pc EXCEPT ![p] = "between"] /\ build' = [build EXCEPT ![p] = c]
      /\ UNCHANGED schema
  BY DEF Start, Move, Inv, TypeOK
<1>2. Ready' = Ready \ {<<p, b>>}
  BY <1>1 DEF Ready
<1> QED BY <1>1, <1>2 DEF Promise!Leave, Ready

LEMMA StepRefines == Inv /\ [Next]_vars => [Promise!Next]_<<schema, Ready>>
<1> SUFFICES ASSUME Inv, [Next]_vars PROVE [Promise!Next]_<<schema, Ready>>
  OBVIOUS
<1>1. ASSUME NEW p \in Migrator, NEW c \in Build, Start(p, c)
      PROVE  [Promise!Next]_<<schema, Ready>>
  <2>1. PICK b \in Build : b = build[p]
    BY DEF Inv, TypeOK
  <2> QED BY <1>1, <2>1, StartRefines DEF Promise!Next
<1>2. ASSUME NEW p \in Migrator, Commit(p) \/ CommitUnanswered(p)
      PROVE  [Promise!Next]_<<schema, Ready>>
  BY <1>2, CommitRefines DEF Promise!Next
<1>3. ASSUME NEW p \in Migrator, Finish(p)
      PROVE  [Promise!Next]_<<schema, Ready>>
  <2>1. PICK b \in Build : b = build[p]
    BY DEF Inv, TypeOK
  <2> QED BY <1>3, <2>1, FinishRefines DEF Promise!Next
<1>4. ASSUME NEW p \in Migrator,
             \/ Begin(p) \/ Acquire(p) \/ Bootstrap(p) \/ LookUp(p)
             \/ Mismatch(p) \/ RunSql(p) \/ InsertRow(p) \/ Abort(p)
      PROVE  UNCHANGED <<schema, Ready>>
  <2>1. /\ UNCHANGED <<schema, build>>
        /\ pc[p] # "done"
        /\ \E place \in Places \ {"done"} : pc' = [pc EXCEPT ![p] = place]
    BY <1>4 DEF Begin, Acquire, Bootstrap, LookUp, Mismatch, RunSql,
                VisibleAfterSql, InsertRow, Abort, End, Move, Places, Running,
                InTransaction
  <2> QED BY <2>1 DEF Ready, Inv, TypeOK
<1>5. CASE UNCHANGED vars
  BY <1>5 DEF vars, Ready
<1> QED BY <1>1, <1>2, <1>3, <1>4, <1>5 DEF Next, Step

\* The runner keeps the promise its callers rely on: one history, grown by
\* builds that agree with it, and nobody let through without theirs in it.
THEOREM Refinement == Spec => KeepsPromise
<1>1. Init => Promise!Init
  BY DEF Init, Promise!Init
<1>2. Inv /\ [Next]_vars => [Promise!Next]_<<schema, Ready>>
  BY StepRefines
<1> QED
  BY <1>1, <1>2, Inductive, PTL DEF Spec, KeepsPromise, Promise!Spec, Ready
=============================================================================
