----------------------- MODULE ArchiveAdmissionProofs -----------------------
(***************************************************************************)
(* Proofs about ArchiveAdmission for every set of intakes, rows, keys and  *)
(* issues, every number of transactions in flight and every number of      *)
(* admissions and rollbacks.                                               *)
(***************************************************************************)
EXTENDS ArchiveAdmission, FiniteSetTheorems, TLAPS

-----------------------------------------------------------------------------
(* The inductive invariant *)

\* What the review, admission and rollback transactions keep true of one
\* intake.  The conjuncts support one another: an admission needs an open
\* row, an intake whose last operation was an admission has none, and only
\* a closed intake, whose last operation was an admission, is rolled back.
Life(i) ==
    /\ i \in admitting => /\ status[i] = "ready_for_staging"
                          /\ target[i] \in StagingTargets
                          /\ OpenRows(i) # {}
    /\ status[i] = "absent" => /\ journal[i] = <<>>
                               /\ \A k \in Key : point[i][k] = NoPoint
    /\ LastOp(i) = "admission" => OpenRows(i) = {}
    /\ status[i] \in Closed => LastOp(i) = "admission"

LifeInv == \A i \in Intake : Life(i)

-----------------------------------------------------------------------------
(* Type correctness *)

\* Types of the operators the actions write with.
LEMMA NoRowType ==
    /\ NoRow \in CanonRow
    /\ ManualRow \in CanonRow
    /\ NoPoint \in Point
    /\ NoSnapshot \in [Key -> CanonRow]
  BY DEF NoRow, ManualRow, CanonRow, NoPoint, Point, NoSnapshot

LEMMA ReviewType ==
    ASSUME NEW t, NEW open
    PROVE  /\ ReviewStatus(t, open) \in {"needs_guidance", "ready_for_staging", "archived"}
           /\ ReviewReady(t, open) \in BOOLEAN
           /\ ReviewReady(t, open) => /\ ReviewStatus(t, open) = "ready_for_staging"
                                      /\ t \in StagingTargets
  BY DEF ReviewStatus, ReviewReady

LEMMA WrittenTypes ==
    ASSUME TypeOK, NEW i \in Intake, target[i] \in StagingTargets
    PROVE  /\ Upserted(i) \in [Key -> CanonRow]
           /\ Captured(i) \in [Key -> Point]
           /\ Decided(i) \in [Row -> Verdicts]
           /\ Reopened(i) \in [Row -> Verdicts]
           /\ \A keys : /\ Undone(i, keys) \in [Key -> CanonRow]
                        /\ Consumed(i, keys) \in [Key -> Point]
<1>1. /\ canon[target[i]] \in [Key -> CanonRow]
      /\ snap[i] \in [Key -> CanonRow]
      /\ point[i] \in [Key -> Point]
      /\ verdict[i] \in [Row -> Verdicts]
  BY DEF TypeOK
<1>2. Upserted(i) \in [Key -> CanonRow]
  BY <1>1 DEF Upserted, CanonRow
<1>3. Captured(i) \in [Key -> Point]
  BY <1>1 DEF Captured, Point
<1>4. Decided(i) \in [Row -> Verdicts] /\ Reopened(i) \in [Row -> Verdicts]
  BY <1>1 DEF Decided, Reopened, Verdicts, Open
<1>5. ASSUME NEW keys
      PROVE  /\ Undone(i, keys) \in [Key -> CanonRow]
             /\ Consumed(i, keys) \in [Key -> Point]
  <2>1. ASSUME NEW k \in Key
        PROVE  /\ canon[target[i]][k] \in CanonRow
               /\ [canon[target[i]][k] EXCEPT !.adm = "reversed"] \in CanonRow
               /\ point[i][k] \in Point
               /\ point[i][k].before \in CanonRow
               /\ [point[i][k] EXCEPT !.state = "restored"] \in Point
    BY <1>1 DEF CanonRow, Point
  <2> QED BY <2>1 DEF Undone, Consumed
<1> QED BY <1>2, <1>3, <1>4, <1>5

LEMMA JournalType ==
    ASSUME TypeOK, NEW i \in Intake, NEW op \in {"admission", "rollback"}, Record(i, op)
    PROVE  journal' \in [Intake -> Seq({"admission", "rollback"})]
  BY DEF Record, TypeOK

LEMMA TypeInit == Init => TypeOK
  BY NoRowType DEF Init, TypeOK, Statuses, Targets, Verdicts

LEMMA TypeStep == TypeOK /\ LifeInv /\ [Next]_vars => TypeOK'
<1> SUFFICES ASSUME TypeOK, LifeInv, [Next]_vars PROVE TypeOK'
  OBVIOUS
<1>1. ASSUME NEW i \in Intake, NEW t \in OfferedTargets, NEW open \in SUBSET Issue,
             NEW dated \in BOOLEAN, NEW rows \in SUBSET Row,
             NEW keys \in [Row -> Key \cup {NoKey}],
             AddIntake(i, t, open, dated, rows, keys)
      PROVE  TypeOK'
  <2>1. t \in Targets
    BY ConstantsAssumption
  <2>2. [r \in Row |-> IF r \in rows THEN "pending_review" ELSE "none"]
          \in [Row -> Verdicts]
    BY DEF Verdicts, Open
  <2> QED BY <1>1, <2>1, <2>2, ReviewType DEF AddIntake, TypeOK, Statuses
<1>2. ASSUME NEW i \in Intake, NEW unclear \in SUBSET MappingIssue,
             MapFields(i, unclear)
      PROVE  TypeOK'
  <2>1. StillOpen(i, unclear) \in SUBSET Issue
    BY DEF TypeOK, Issue, StillOpen
  <2> QED BY <1>2, <2>1, ReviewType
          DEF MapFields, RefreshReview, TypeOK, stagingVars, Statuses
<1>3. ASSUME NEW i \in Intake, AdmitBegin(i) PROVE TypeOK'
  BY <1>3 DEF AdmitBegin, TypeOK, intakeVars, stagingVars
<1>4. ASSUME NEW i \in Intake, AdmitCommit(i) PROVE TypeOK'
  <2>1. target[i] \in StagingTargets
    BY <1>4 DEF AdmitCommit, LifeInv, Life
  <2> QED BY <1>4, <2>1, WrittenTypes, JournalType, NoRowType
          DEF AdmitCommit, TypeOK, Statuses
<1>5. ASSUME NEW i \in Intake, AdmitAbort(i) PROVE TypeOK'
  BY <1>5, NoRowType DEF AdmitAbort, TypeOK, intakeVars, stagingVars
<1>6. ASSUME NEW i \in Intake, NEW selected \in SUBSET Key, Rollback(i, selected)
      PROVE  TypeOK'
  <2>1. Available(i) \subseteq Key
    BY DEF Available
  <2>2. skipped' \in [Intake -> SUBSET Key]
    BY <1>6, <2>1 DEF Rollback, TypeOK
  <2> QED BY <1>6, <2>2, WrittenTypes, JournalType DEF Rollback, TypeOK, Statuses
<1>7. ASSUME NEW i \in Intake, NEW q \in Issue, ResolveBegin(i, q) PROVE TypeOK'
  BY <1>7 DEF ResolveBegin, TypeOK, intakeVars, stagingVars
<1>8. ASSUME NEW i \in Intake, NEW q \in Issue, ResolveCommit(i, q) PROVE TypeOK'
  BY <1>8, ReviewType DEF ResolveCommit, RefreshReview, TypeOK, stagingVars, Statuses
<1>9. ASSUME NEW i \in Intake, NEW q \in Issue, ResolveAbort(i, q) PROVE TypeOK'
  BY <1>9 DEF ResolveAbort, TypeOK, intakeVars, stagingVars
<1>10. ASSUME NEW k \in Key, HrUpdate(k) \/ HrRemove(k) PROVE TypeOK'
  <2>0. "hr_employee" \in StagingTargets /\ canon["hr_employee"][k] \in CanonRow
    BY DEF StagingTargets, TypeOK
  <2>1. [canon["hr_employee"][k] EXCEPT !.edited = TRUE] \in CanonRow
    BY <2>0 DEF CanonRow
  <2>2. PICK row \in CanonRow :
          canon' = [canon EXCEPT !["hr_employee"] = [@ EXCEPT ![k] = row]]
    BY <1>10, <2>1, NoRowType DEF HrUpdate, HrRemove
  <2>3. canon' \in [StagingTargets -> [Key -> CanonRow]]
    BY <2>0, <2>2 DEF TypeOK
  <2> QED BY <1>10, <2>3 DEF HrUpdate, HrRemove, TypeOK, intakeVars, stagingVars
<1>11. CASE UNCHANGED vars
  BY <1>11 DEF vars, intakeVars, stagingVars, TypeOK
<1> QED
  BY <1>1, <1>2, <1>3, <1>4, <1>5, <1>6, <1>7, <1>8, <1>9, <1>10, <1>11 DEF Next
-----------------------------------------------------------------------------
(* The life of an intake *)

\* What appending to the journal of one intake does.
LEMMA JournalStep ==
    ASSUME TypeOK, NEW i \in Intake, NEW op \in {"admission", "rollback"}, Record(i, op)
    PROVE  /\ LastOp(i)' = op
           /\ journal'[i] # <<>>
           /\ \A j \in Intake \ {i} : journal'[j] = journal[j] /\ LastOp(j)' = LastOp(j)
<1>1. /\ journal[i] \in Seq({"admission", "rollback"})
      /\ journal'[i] = Append(journal[i], op)
      /\ \A j \in Intake \ {i} : journal'[j] = journal[j]
  BY DEF Record, TypeOK
<1>2. /\ Len(journal'[i]) = Len(journal[i]) + 1
      /\ journal'[i][Len(journal[i]) + 1] = op
      /\ journal'[i] # <<>>
  BY <1>1
<1> QED BY <1>1, <1>2 DEF LastOp

LEMMA LifeInit == Init => LifeInv
  BY DEF Init, LifeInv, Life, LastOp, Closed, NoPoint

LEMMA LifeStep == TypeOK /\ LifeInv /\ [Next]_vars => LifeInv'
<1> SUFFICES ASSUME TypeOK, LifeInv, [Next]_vars, NEW j \in Intake PROVE Life(j)'
  BY DEF LifeInv
<1> USE DEF Life, LifeInv
<1>1. ASSUME NEW i \in Intake, NEW t \in OfferedTargets, NEW open \in SUBSET Issue,
             NEW dated \in BOOLEAN, NEW rows \in SUBSET Row,
             NEW keys \in [Row -> Key \cup {NoKey}],
             AddIntake(i, t, open, dated, rows, keys)
      PROVE  Life(j)'
  BY <1>1, ReviewType DEF AddIntake, TypeOK, LastOp, OpenRows, Closed
<1>2. ASSUME NEW i \in Intake, NEW unclear \in SUBSET MappingIssue,
             MapFields(i, unclear)
      PROVE  Life(j)'
  BY <1>2, ReviewType DEF MapFields, RefreshReview, TypeOK, LastOp, OpenRows,
                          Closed, stagingVars
<1>3. ASSUME NEW i \in Intake, AdmitBegin(i) PROVE Life(j)'
  BY <1>3 DEF AdmitBegin, TypeOK, LastOp, OpenRows, intakeVars, stagingVars
<1>4. ASSUME NEW i \in Intake, AdmitCommit(i) PROVE Life(j)'
  <2>1. CASE j = i
    BY <1>4, <2>1, JournalStep
       DEF AdmitCommit, TypeOK, OpenRows, Decided, Open, Closed
  <2>2. CASE j # i
    BY <1>4, <2>2, JournalStep DEF AdmitCommit, TypeOK, OpenRows
  <2> QED BY <2>1, <2>2
<1>5. ASSUME NEW i \in Intake, AdmitAbort(i) PROVE Life(j)'
  BY <1>5 DEF AdmitAbort, TypeOK, LastOp, OpenRows, intakeVars, stagingVars
<1>6. ASSUME NEW i \in Intake, NEW selected \in SUBSET Key, Rollback(i, selected)
      PROVE  Life(j)'
  <2>1. CASE j = i
    BY <1>6, <2>1, JournalStep DEF Rollback, TypeOK, Closed
  <2>2. CASE j # i
    BY <1>6, <2>2, JournalStep DEF Rollback, TypeOK, OpenRows
  <2> QED BY <2>1, <2>2
<1>7. ASSUME NEW i \in Intake, NEW q \in Issue, ResolveBegin(i, q) PROVE Life(j)'
  BY <1>7 DEF ResolveBegin, LastOp, OpenRows, intakeVars, stagingVars
<1>8. ASSUME NEW i \in Intake, NEW q \in Issue, ResolveCommit(i, q) PROVE Life(j)'
  BY <1>8, ReviewType DEF ResolveCommit, RefreshReview, TypeOK, LastOp, OpenRows,
                          Closed, stagingVars
<1>9. ASSUME NEW i \in Intake, NEW q \in Issue, ResolveAbort(i, q) PROVE Life(j)'
  BY <1>9 DEF ResolveAbort, LastOp, OpenRows, intakeVars, stagingVars
<1>10. ASSUME NEW k \in Key, HrUpdate(k) \/ HrRemove(k) PROVE Life(j)'
  BY <1>10 DEF HrUpdate, HrRemove, LastOp, OpenRows, intakeVars, stagingVars
<1>11. CASE UNCHANGED vars
  BY <1>11 DEF vars, LastOp, OpenRows, intakeVars, stagingVars
<1> QED
  BY <1>1, <1>2, <1>3, <1>4, <1>5, <1>6, <1>7, <1>8, <1>9, <1>10, <1>11 DEF Next

-----------------------------------------------------------------------------
(* The audit trail *)

\* Appending an operation other than the last one keeps a journal alternating.
LEMMA AlternatesStep ==
    ASSUME TypeOK, JournalAlternates, NEW i \in Intake,
           NEW op \in {"admission", "rollback"}, Record(i, op),
           LastOp(i) # op, journal[i] = <<>> => op = "admission"
    PROVE  JournalAlternates'
<1> SUFFICES ASSUME NEW j \in Intake
    PROVE  /\ journal'[j] # <<>> => journal'[j][1] = "admission"
           /\ \A n \in 1..(Len(journal'[j]) - 1) :
                journal'[j][n + 1] # journal'[j][n]
  BY DEF JournalAlternates
<1>1. CASE j # i
  BY <1>1, JournalStep DEF JournalAlternates
<1>2. CASE j = i
  <2> DEFINE jn == journal[i]
  <2>1. jn \in Seq({"admission", "rollback"}) /\ journal'[i] = Append(jn, op)
    BY DEF Record, TypeOK
  <2>2. CASE jn = <<>>
    BY <1>2, <2>1, <2>2
  <2>3. CASE jn # <<>>
    <3>1. /\ Len(jn) \in Nat \ {0}
          /\ jn[1] = "admission"
          /\ jn[Len(jn)] # op
          /\ \A n \in 1..(Len(jn) - 1) : jn[n + 1] # jn[n]
      BY <2>1, <2>3 DEF JournalAlternates, LastOp
    <3>2. /\ Len(Append(jn, op)) = Len(jn) + 1
          /\ \A n \in 1..Len(jn) : Append(jn, op)[n] = jn[n]
          /\ Append(jn, op)[Len(jn) + 1] = op
      BY <2>1
    <3>3. ASSUME NEW n \in 1..Len(jn)
          PROVE  Append(jn, op)[n + 1] # Append(jn, op)[n]
      <4>1. CASE n = Len(jn)
        BY <3>1, <3>2, <4>1
      <4>2. CASE n # Len(jn)
        BY <3>1, <3>2, <4>2
      <4> QED BY <4>1, <4>2
    <3> QED BY <1>2, <2>1, <3>1, <3>2, <3>3
  <2> QED BY <2>2, <2>3
<1> QED BY <1>1, <1>2

LEMMA JournalInv ==
    TypeOK /\ LifeInv /\ JournalAlternates /\ [Next]_vars => JournalAlternates'
<1> SUFFICES ASSUME TypeOK, LifeInv, JournalAlternates, [Next]_vars
    PROVE  JournalAlternates'
  OBVIOUS
<1>1. ASSUME NEW i \in Intake, AdmitCommit(i) PROVE JournalAlternates'
  <2>1. LastOp(i) # "admission"
    BY <1>1 DEF AdmitCommit, LifeInv, Life
  <2> QED BY <1>1, <2>1, AlternatesStep DEF AdmitCommit
<1>2. ASSUME NEW i \in Intake, NEW selected \in SUBSET Key, Rollback(i, selected)
      PROVE  JournalAlternates'
  <2>1. LastOp(i) = "admission"
    BY <1>2 DEF Rollback, LifeInv, Life
  <2>2. journal[i] # <<>>
    BY <2>1 DEF LastOp
  <2> QED BY <1>2, <2>1, <2>2, AlternatesStep DEF Rollback
<1>3. ASSUME UNCHANGED journal PROVE JournalAlternates'
  BY <1>3 DEF JournalAlternates
<1>4. ASSUME NEW i \in Intake, NEW t \in OfferedTargets, NEW open \in SUBSET Issue,
             NEW dated \in BOOLEAN, NEW rows \in SUBSET Row,
             NEW keys \in [Row -> Key \cup {NoKey}],
             AddIntake(i, t, open, dated, rows, keys)
      PROVE  UNCHANGED journal
  BY <1>4 DEF AddIntake
<1> QED
  BY <1>1, <1>2, <1>3, <1>4
     DEF Next, vars, MapFields, AdmitBegin, AdmitAbort, ResolveBegin,
         ResolveCommit, ResolveAbort, HrUpdate, HrRemove

-----------------------------------------------------------------------------
(* Recovery points and provenance *)

LEMMA ReversibleInv ==
    TypeOK /\ AdmittedRowsReversible /\ [Next]_vars => AdmittedRowsReversible'
<1> SUFFICES ASSUME TypeOK, AdmittedRowsReversible, [Next]_vars,
                    NEW j \in Intake, NEW r \in Row, verdict'[j][r] = "admitted"
    PROVE  /\ rowKey'[j][r] \in Key
           /\ point'[j][rowKey'[j][r]].state = "available"
  BY DEF AdmittedRowsReversible
<1> USE DEF AdmittedRowsReversible
<1>1. ASSUME NEW i \in Intake, NEW t \in OfferedTargets, NEW open \in SUBSET Issue,
             NEW dated \in BOOLEAN, NEW rows \in SUBSET Row,
             NEW keys \in [Row -> Key \cup {NoKey}],
             AddIntake(i, t, open, dated, rows, keys)
      PROVE  /\ rowKey'[j][r] \in Key
             /\ point'[j][rowKey'[j][r]].state = "available"
  BY <1>1 DEF AddIntake, TypeOK
<1>2. ASSUME NEW i \in Intake, AdmitCommit(i)
      PROVE  /\ rowKey'[j][r] \in Key
             /\ point'[j][rowKey'[j][r]].state = "available"
  <2>1. CASE j # i
    BY <1>2, <2>1 DEF AdmitCommit, TypeOK
  <2>2. CASE j = i /\ r \in AdmissibleRows(i)
    <3>1. rowKey[i][r] \in Key /\ rowKey[i][r] \in AdmittedKeys(i)
      BY <2>2 DEF AdmissibleRows, AdmittedKeys, OpenRows, TypeOK
    <3> QED BY <1>2, <2>2, <3>1 DEF AdmitCommit, Captured, TypeOK
  <2>3. CASE j = i /\ r \notin AdmissibleRows(i)
    <3>1. verdict[i][r] = "admitted"
      BY <1>2, <2>3 DEF AdmitCommit, Decided, TypeOK
    <3> QED BY <1>2, <2>3, <3>1 DEF AdmitCommit, Captured, TypeOK
  <2> QED BY <2>1, <2>2, <2>3
<1>3. ASSUME NEW i \in Intake, NEW selected \in SUBSET Key, Rollback(i, selected)
      PROVE  /\ rowKey'[j][r] \in Key
             /\ point'[j][rowKey'[j][r]].state = "available"
  BY <1>3 DEF Rollback, Reopened, TypeOK
<1>4. CASE UNCHANGED <<stagingVars, point>>
  BY <1>4 DEF stagingVars
<1> QED
  BY <1>1, <1>2, <1>3, <1>4
     DEF Next, vars, MapFields, AdmitBegin, AdmitAbort, ResolveBegin,
         ResolveCommit, ResolveAbort, HrUpdate, HrRemove

\* Provenance is not inductive: a rollback writes a before image into the
\* canonical table, and an admission takes its before images from an old
\* snapshot.  Both must be traced too.
Traced(t, k, row) == row.source \in Intake => SourcedBy(row.source, t, k)

TraceInv ==
    \A k \in Key :
        /\ \A t \in StagingTargets : Traced(t, k, canon[t][k])
        /\ \A i \in Intake : target[i] \in StagingTargets =>
                /\ Traced(target[i], k, point[i][k].before)
                /\ i \in admitting => Traced(target[i], k, snap[i][k])

\* No step takes a source away: accepted rows stay accepted (a rollback
\* turns them valid, an admission admitted), recovery points are never
\* deleted, and the target of an intake is fixed by its upload.
LEMMA SourceKept ==
    ASSUME TypeOK, LifeInv, [Next]_vars,
           NEW j \in Intake, NEW t \in StagingTargets, NEW k \in Key, SourcedBy(j, t, k)
    PROVE  SourcedBy(j, t, k)'
<1> PICK r \in Row : rowKey[j][r] = k /\ verdict[j][r] \in {"valid", "admitted"}
  BY DEF SourcedBy
<1> SUFFICES /\ target'[j] = target[j]
             /\ point'[j][k].state # "none"
             /\ rowKey'[j][r] = rowKey[j][r]
             /\ verdict'[j][r] \in {"valid", "admitted"}
  BY DEF SourcedBy
<1>0. point[j][k].state # "none"
  BY DEF SourcedBy
<1>1. ASSUME NEW i \in Intake, NEW tt \in OfferedTargets, NEW open \in SUBSET Issue,
             NEW dated \in BOOLEAN, NEW rows \in SUBSET Row,
             NEW keys \in [Row -> Key \cup {NoKey}],
             AddIntake(i, tt, open, dated, rows, keys)
      PROVE  UNCHANGED <<target[j], point, rowKey[j], verdict[j]>>
  <2>1. j # i
    BY <1>0, <1>1 DEF AddIntake, LifeInv, Life, NoPoint
  <2> QED BY <1>1, <2>1 DEF AddIntake, TypeOK
<1>2. ASSUME NEW i \in Intake, AdmitCommit(i)
      PROVE  /\ UNCHANGED <<target, rowKey>>
             /\ point'[j][k].state # "none"
             /\ verdict'[j][r] \in {"valid", "admitted"}
  <2>1. k # NoKey
    BY ConstantsAssumption
  <2>2. CASE j # i
    BY <1>0, <1>2, <2>2 DEF AdmitCommit, TypeOK
  <2>3. CASE j = i
    BY <1>0, <1>2, <2>1, <2>3
       DEF AdmitCommit, Captured, Decided, AdmissibleRows, OpenRows, Open, TypeOK
  <2> QED BY <1>2, <2>2, <2>3 DEF AdmitCommit
<1>3. ASSUME NEW i \in Intake, NEW selected \in SUBSET Key, Rollback(i, selected)
      PROVE  /\ UNCHANGED <<target, rowKey>>
             /\ point'[j][k].state # "none"
             /\ verdict'[j][r] \in {"valid", "admitted"}
  <2>1. point[j][k] \in Point
    BY DEF TypeOK
  <2> QED BY <1>0, <1>3, <2>1 DEF Rollback, Consumed, Reopened, TypeOK, Point
<1>4. CASE UNCHANGED <<target, stagingVars, point>>
  BY <1>0, <1>4 DEF stagingVars
<1> QED
  BY <1>0, <1>1, <1>2, <1>3, <1>4
     DEF Next, vars, MapFields, AdmitBegin, AdmitAbort, ResolveBegin,
         ResolveCommit, ResolveAbort, HrUpdate, HrRemove, intakeVars

\* Where the source of a canonical row comes from, one step later.
LEMMA CanonSource ==
    ASSUME TypeOK, LifeInv, TraceInv, [Next]_vars,
           NEW t \in StagingTargets, NEW k \in Key, NEW j \in Intake,
           canon'[t][k].source = j
    PROVE  SourcedBy(j, t, k)'
<1> DEFINE old == canon[t][k].source = j
<1>0. ASSUME old PROVE SourcedBy(j, t, k)'
  BY <1>0, SourceKept DEF TraceInv, Traced
<1>1. canon[t] \in [Key -> CanonRow] /\ canon[t][k] \in CanonRow
  BY DEF TypeOK
<1>2. ASSUME NEW i \in Intake, AdmitCommit(i) PROVE SourcedBy(j, t, k)'
  <2>1. CASE t # target[i]
    BY <1>0, <1>2, <2>1 DEF AdmitCommit, TypeOK
  <2>2. CASE t = target[i] /\ k \notin AdmittedKeys(i)
    BY <1>0, <1>2, <2>2 DEF AdmitCommit, Upserted, TypeOK
  <2>3. CASE t = target[i] /\ k \in AdmittedKeys(i)
    <3>1. i = j
      BY <1>2, <2>3 DEF AdmitCommit, Upserted, TypeOK
    <3>2. PICK r \in AdmissibleRows(i) : rowKey[i][r] = k
      BY <2>3 DEF AdmittedKeys
    <3>3. verdict'[i][r] = "admitted" /\ r \in Row
      BY <1>2, <3>2 DEF AdmitCommit, Decided, AdmissibleRows, OpenRows, TypeOK
    <3>4. point'[i][k].state = "available"
      BY <1>2, <2>3 DEF AdmitCommit, Captured, TypeOK
    <3> QED BY <1>2, <2>3, <3>1, <3>2, <3>3, <3>4 DEF AdmitCommit, SourcedBy
  <2> QED BY <2>1, <2>2, <2>3
<1>3. ASSUME NEW i \in Intake, NEW selected \in SUBSET Key, Rollback(i, selected)
      PROVE  SourcedBy(j, t, k)'
  <2> DEFINE touched == {x \in selected : Reversible(i, x)}
  <2>1. canon' = [canon EXCEPT ![target[i]] = Undone(i, touched)]
        /\ target[i] \in StagingTargets
    BY <1>3 DEF Rollback
  <2>2. CASE t # target[i]
    BY <1>0, <2>1, <2>2 DEF TypeOK
  <2>3. CASE t = target[i]
    <3> HIDE DEF touched
    <3>1. canon'[t][k] = Undone(i, touched)[k]
      BY <2>1, <2>3 DEF TypeOK
    <3>2. CASE k \notin touched
      BY <1>0, <2>3, <3>1, <3>2 DEF Undone
    <3>3. CASE k \in touched /\ point[i][k].before = NoRow
      <4>1. canon'[t][k] = [canon[t][k] EXCEPT !.adm = "reversed"]
        BY <2>3, <3>1, <3>3 DEF Undone
      <4> QED BY <1>0, <1>1, <4>1 DEF CanonRow
    <3>4. CASE k \in touched /\ point[i][k].before # NoRow
      <4>1. point[i][k].before.source = j
        BY <2>3, <3>1, <3>4 DEF Undone
      <4>2. SourcedBy(j, t, k)
        BY <2>1, <2>3, <4>1 DEF TraceInv, Traced
      <4> QED BY <4>2, SourceKept
    <3> QED BY <3>2, <3>3, <3>4
  <2> QED BY <2>2, <2>3
<1>4. ASSUME NEW x \in Key, HrUpdate(x) \/ HrRemove(x) PROVE SourcedBy(j, t, k)'
  <2>1. CASE t = "hr_employee" /\ k = x /\ HrUpdate(x)
    <3>1. canon'[t][k] = [canon[t][k] EXCEPT !.edited = TRUE]
      BY <1>1, <2>1 DEF HrUpdate, TypeOK
    <3> QED BY <1>0, <1>1, <3>1 DEF CanonRow
  <2>2. CASE t = "hr_employee" /\ k = x /\ HrRemove(x)
    <3>1. canon'[t][k] = NoRow
      BY <1>1, <2>2 DEF HrRemove, TypeOK
    <3> QED BY <3>1, ConstantsAssumption DEF NoRow
  <2>3. CASE t # "hr_employee" \/ k # x
    BY <1>0, <1>1, <1>4, <2>3 DEF HrUpdate, HrRemove, TypeOK
  <2> QED BY <1>4, <2>1, <2>2, <2>3
<1>5. ASSUME UNCHANGED canon PROVE SourcedBy(j, t, k)'
  BY <1>0, <1>5
<1>6. ASSUME NEW i \in Intake, NEW tt \in OfferedTargets, NEW open \in SUBSET Issue,
             NEW dated \in BOOLEAN, NEW rows \in SUBSET Row,
             NEW keys \in [Row -> Key \cup {NoKey}],
             AddIntake(i, tt, open, dated, rows, keys)
      PROVE  UNCHANGED canon
  BY <1>6 DEF AddIntake
<1> HIDE DEF old
<1> QED
  BY <1>2, <1>3, <1>4, <1>5, <1>6
     DEF Next, vars, MapFields, AdmitBegin, AdmitAbort, ResolveBegin,
         ResolveCommit, ResolveAbort

\* Before images and snapshots only ever hold rows that were canonical.
LEMMA ImageSource ==
    ASSUME TypeOK, LifeInv, TraceInv, [Next]_vars,
           NEW i \in Intake, NEW k \in Key, NEW j \in Intake,
           NEW t \in StagingTargets, target'[i] = t,
           \/ point'[i][k].before.source = j
           \/ i \in admitting' /\ snap'[i][k].source = j
    PROVE  SourcedBy(j, t, k)'
<1> DEFINE old == /\ target[i] = t
                  /\ \/ point[i][k].before.source = j
                     \/ i \in admitting /\ snap[i][k].source = j
                     \/ canon[t][k].source = j
<1>0. ASSUME old PROVE SourcedBy(j, t, k)'
  BY <1>0, SourceKept DEF TraceInv, Traced
<1>1. ASSUME NEW x \in Intake, NEW tt \in OfferedTargets, NEW open \in SUBSET Issue,
             NEW dated \in BOOLEAN, NEW rows \in SUBSET Row,
             NEW keys \in [Row -> Key \cup {NoKey}],
             AddIntake(x, tt, open, dated, rows, keys)
      PROVE  SourcedBy(j, t, k)'
  <2>1. CASE x = i
    <3>1. point'[i][k] = NoPoint /\ i \notin admitting'
      BY <1>1, <2>1 DEF AddIntake, LifeInv, Life
    <3> QED BY <3>1, ConstantsAssumption DEF NoPoint, NoRow
  <2>2. CASE x # i
    <3>1. old
      BY <1>1, <2>2 DEF AddIntake, TypeOK
    <3> QED BY <1>0, <3>1
  <2> QED BY <2>1, <2>2
<1>2. ASSUME NEW x \in Intake, AdmitBegin(x) PROVE old
  BY <1>2 DEF AdmitBegin, TypeOK, intakeVars
<1>3. ASSUME NEW x \in Intake, AdmitCommit(x) PROVE old
  BY <1>3 DEF AdmitCommit, Captured, TypeOK
<1>4. ASSUME NEW x \in Intake, AdmitAbort(x) PROVE old
  BY <1>4 DEF AdmitAbort, TypeOK, intakeVars
<1>5. ASSUME NEW x \in Intake, NEW selected \in SUBSET Key, Rollback(x, selected)
      PROVE  old
  <2>1. point[x][k] \in Point
    BY DEF TypeOK
  <2>2. point'[i][k].before = point[i][k].before
    BY <1>5, <2>1 DEF Rollback, Consumed, TypeOK, Point
  <2> QED BY <1>5, <2>2 DEF Rollback
<1>6. CASE UNCHANGED <<target, point, admitting, snap>>
  BY <1>0, <1>6
<1> HIDE DEF old
<1> QED
  BY <1>0, <1>1, <1>2, <1>3, <1>4, <1>5, <1>6
     DEF Next, vars, intakeVars, MapFields, ResolveBegin, ResolveCommit,
         ResolveAbort, HrUpdate, HrRemove

LEMMA TraceInit == Init => TraceInv
<1> SUFFICES ASSUME Init PROVE TraceInv
  OBVIOUS
<1>1. NoRow.source \notin Intake /\ ManualRow.source \notin Intake
  BY ConstantsAssumption DEF NoRow, ManualRow
<1> QED BY <1>1 DEF Init, TraceInv, Traced, NoPoint

LEMMA TraceStep == TypeOK /\ LifeInv /\ TraceInv /\ [Next]_vars => TraceInv'
<1> SUFFICES ASSUME TypeOK, LifeInv, TraceInv, [Next]_vars PROVE TraceInv'
  OBVIOUS
<1>1. ASSUME NEW k \in Key, NEW t \in StagingTargets PROVE Traced(t, k, canon[t][k])'
  BY CanonSource DEF Traced
<1>2. ASSUME NEW k \in Key, NEW i \in Intake, target'[i] \in StagingTargets
      PROVE  /\ Traced(target[i], k, point[i][k].before)'
             /\ i \in admitting' => Traced(target[i], k, snap[i][k])'
  <2>1. PICK t \in StagingTargets : target'[i] = t
    BY <1>2
  <2> QED BY <2>1, ImageSource DEF Traced
<1> QED BY <1>1, <1>2 DEF TraceInv

-----------------------------------------------------------------------------
(* Review under overlapping transactions *)

\* A resolution may count issues that others resolve meanwhile, but it never
\* misses one that only a person can settle: those are opened by the upload
\* alone.
SeenInv ==
    /\ \A i \in Intake, q \in Issue : <<i, q>> \in resolving =>
          /\ status[i] # "absent"
          /\ (issues[i] \cap OtherIssue) \ {q} \subseteq seen[i][q]
    /\ \A i \in Intake : status[i] = "absent" => issues[i] = {}

\* A verdict that lets a file past its review leaves no such issue open.
LEMMA ReviewStops ==
    ASSUME NEW t, NEW open, ReviewStatus(t, open) # "needs_guidance"
    PROVE  open = {}
  BY DEF ReviewStatus

LEMMA ReviewPresent ==
    ASSUME NEW t, NEW open
    PROVE  ReviewStatus(t, open) # "absent"
  BY DEF ReviewStatus

LEMMA ReviewStep ==
    TypeOK /\ LifeInv /\ SeenInv /\ ReviewNotSkipped /\ [Next]_vars =>
        SeenInv' /\ ReviewNotSkipped'
<1> SUFFICES ASSUME TypeOK, LifeInv, SeenInv, ReviewNotSkipped, [Next]_vars
             PROVE  SeenInv' /\ ReviewNotSkipped'
  OBVIOUS
<1> USE DEF SeenInv, ReviewNotSkipped
<1>1. ASSUME NEW i \in Intake, NEW t \in OfferedTargets, NEW open \in SUBSET Issue,
             NEW dated \in BOOLEAN, NEW rows \in SUBSET Row,
             NEW keys \in [Row -> Key \cup {NoKey}],
             AddIntake(i, t, open, dated, rows, keys)
      PROVE  SeenInv' /\ ReviewNotSkipped'
  <2>1. /\ status' = [status EXCEPT ![i] = ReviewStatus(t, open)]
        /\ issues' = [issues EXCEPT ![i] = open]
        /\ status[i] = "absent"
        /\ UNCHANGED <<resolving, seen>>
    BY <1>1 DEF AddIntake
  <2>2. ReviewNotSkipped'
    BY <2>1, ReviewStops DEF TypeOK, PastReview, Closed
  <2>3. SeenInv'
    BY <2>1, ReviewPresent DEF TypeOK
  <2> QED BY <2>2, <2>3
<1>2. ASSUME NEW i \in Intake, NEW unclear \in SUBSET MappingIssue,
             MapFields(i, unclear)
      PROVE  SeenInv' /\ ReviewNotSkipped'
  <2>1. /\ status' = [status EXCEPT ![i] =
                        ReviewStatus(target[i], StillOpen(i, unclear))]
        /\ issues' = [issues EXCEPT ![i] = StillOpen(i, unclear)]
        /\ status[i] # "absent"
        /\ UNCHANGED <<resolving, seen>>
    BY <1>2 DEF MapFields, RefreshReview
  <2>2. StillOpen(i, unclear) \cap OtherIssue = issues[i] \cap OtherIssue
    BY ConstantsAssumption DEF StillOpen
  <2>3. ReviewNotSkipped'
    BY <2>1, ReviewStops DEF TypeOK, PastReview, Closed
  <2>4. SeenInv'
    BY <2>1, <2>2, ReviewPresent DEF TypeOK
  <2> QED BY <2>3, <2>4
<1>3. ASSUME NEW i \in Intake, AdmitCommit(i) PROVE SeenInv' /\ ReviewNotSkipped'
  <2>1. status[i] = "ready_for_staging"
    BY <1>3 DEF AdmitCommit, LifeInv, Life
  <2>2. UNCHANGED <<issues, resolving, seen>>
    BY <1>3 DEF AdmitCommit
  <2>3. /\ status'[i] \in Closed
        /\ \A j \in Intake \ {i} : status'[j] = status[j]
    BY <1>3 DEF AdmitCommit, TypeOK, Closed
  <2> QED BY <2>1, <2>2, <2>3 DEF PastReview, Closed
<1>4. ASSUME NEW i \in Intake, NEW selected \in SUBSET Key, Rollback(i, selected)
      PROVE  SeenInv' /\ ReviewNotSkipped'
  <2>1. /\ status[i] \in Closed
        /\ status' = [status EXCEPT ![i] = "ready_for_staging"]
        /\ UNCHANGED <<issues, resolving, seen>>
    BY <1>4 DEF Rollback
  <2> QED BY <2>1 DEF PastReview, Closed, TypeOK
<1>5. ASSUME NEW i \in Intake, NEW q \in Issue, ResolveBegin(i, q)
      PROVE  SeenInv' /\ ReviewNotSkipped'
  <2>1. /\ q \in issues[i]
        /\ resolving' = resolving \cup {<<i, q>>}
        /\ seen' = [seen EXCEPT ![i][q] = issues[i] \ {q}]
        /\ UNCHANGED <<status, issues>>
    BY <1>5 DEF ResolveBegin, intakeVars
  <2>2. status[i] # "absent"
    BY <2>1
  <2>3. SeenInv'
    BY <2>1, <2>2 DEF TypeOK
  <2> QED BY <2>1, <2>3 DEF PastReview
<1>6. ASSUME NEW i \in Intake, NEW q \in Issue, ResolveCommit(i, q)
      PROVE  SeenInv' /\ ReviewNotSkipped'
  <2>1. /\ <<i, q>> \in resolving
        /\ resolving' = resolving \ {<<i, q>>}
        /\ issues' = [issues EXCEPT ![i] = @ \ {q}]
        /\ status' = [status EXCEPT ![i] = ReviewStatus(target[i], seen[i][q])]
        /\ seen' = [seen EXCEPT ![i][q] = {}]
    BY <1>6 DEF ResolveCommit, RefreshReview
  <2>2. (issues[i] \cap OtherIssue) \ {q} \subseteq seen[i][q]
    BY <2>1
  <2>3. ReviewNotSkipped'
    <3>1. ASSUME NEW j \in Intake, status'[j] \in PastReview
          PROVE  issues'[j] \cap OtherIssue = {}
      <4>1. CASE j = i
        <5>1. seen[i][q] = {}
          BY <2>1, <3>1, <4>1, ReviewStops DEF TypeOK, PastReview, Closed
        <5> QED BY <2>1, <2>2, <4>1, <5>1 DEF TypeOK
      <4>2. CASE j # i
        BY <2>1, <3>1, <4>2 DEF TypeOK
      <4> QED BY <4>1, <4>2
    <3> QED BY <3>1
  <2>4. ASSUME NEW j \in Intake, NEW p \in Issue, <<j, p>> \in resolving'
        PROVE  /\ status'[j] # "absent"
               /\ (issues'[j] \cap OtherIssue) \ {p} \subseteq seen'[j][p]
    <3>1. <<j, p>> \in resolving /\ <<j, p>> # <<i, q>>
      BY <2>1, <2>4
    <3>2. seen'[j][p] = seen[j][p]
      BY <2>1, <3>1 DEF TypeOK
    <3>3. issues'[j] \subseteq issues[j]
      BY <2>1 DEF TypeOK
    <3>4. status'[j] # "absent"
      BY <2>1, <3>1, ReviewPresent DEF TypeOK
    <3> QED BY <3>1, <3>2, <3>3, <3>4
  <2>5. ASSUME NEW j \in Intake, status'[j] = "absent" PROVE issues'[j] = {}
    <3>1. j # i
      BY <2>1, <2>5, ReviewPresent DEF TypeOK
    <3> QED BY <2>1, <2>5, <3>1 DEF TypeOK
  <2> QED BY <2>3, <2>4, <2>5
<1>7. ASSUME NEW i \in Intake, NEW q \in Issue, ResolveAbort(i, q)
      PROVE  SeenInv' /\ ReviewNotSkipped'
  <2>1. /\ resolving' = resolving \ {<<i, q>>}
        /\ seen' = [seen EXCEPT ![i][q] = {}]
        /\ UNCHANGED <<status, issues>>
    BY <1>7 DEF ResolveAbort, intakeVars
  <2>2. ASSUME NEW j \in Intake, NEW p \in Issue, <<j, p>> \in resolving'
        PROVE  <<j, p>> \in resolving /\ seen'[j][p] = seen[j][p]
    BY <2>1, <2>2 DEF TypeOK
  <2> QED BY <2>1, <2>2 DEF PastReview
<1>8. CASE UNCHANGED <<status, issues, resolving, seen>>
  BY <1>8 DEF PastReview
<1> HIDE DEF SeenInv, ReviewNotSkipped
<1> QED
  BY <1>1, <1>2, <1>3, <1>4, <1>5, <1>6, <1>7, <1>8
     DEF Next, vars, intakeVars, AdmitBegin, AdmitAbort, HrUpdate, HrRemove

-----------------------------------------------------------------------------
(* What a rollback leaves *)

\* At a key of its own that no rollback left out, neither the available
\* recovery point of an intake nor the snapshot of its admission holds a live
\* row of the intake, and a canonical row it has is one that its last
\* operation, an admission, made or replaced.
CleanAt(i, k) ==
    /\ point[i][k].state = "available" => ~Own(i, point[i][k].before)
    /\ i \in admitting => ~Own(i, snap[i][k])
    /\ target[i] \in StagingTargets /\ Own(i, canon[target[i]][k]) =>
          LastOp(i) = "admission" /\ point[i][k].state = "available"

CleanInv ==
    \A i \in Intake, k \in Key :
        k \in skipped[i] \/ Contested(i, k) \/ CleanAt(i, k)

\* Recovery points are never deleted, and with one the target is fixed.
LEMMA PointKept ==
    ASSUME TypeOK, LifeInv, [Next]_vars,
           NEW j \in Intake, NEW k \in Key, point[j][k].state # "none"
    PROVE  target'[j] = target[j] /\ point'[j][k].state # "none"
<1>1. ASSUME NEW i \in Intake, NEW t \in OfferedTargets, NEW open \in SUBSET Issue,
             NEW dated \in BOOLEAN, NEW rows \in SUBSET Row,
             NEW keys \in [Row -> Key \cup {NoKey}],
             AddIntake(i, t, open, dated, rows, keys)
      PROVE  target'[j] = target[j] /\ point'[j][k].state # "none"
  <2>1. j # i
    BY <1>1 DEF AddIntake, LifeInv, Life, NoPoint
  <2> QED BY <1>1, <2>1 DEF AddIntake, TypeOK
<1>2. ASSUME NEW i \in Intake, AdmitCommit(i)
      PROVE  target'[j] = target[j] /\ point'[j][k].state # "none"
  BY <1>2 DEF AdmitCommit, Captured, TypeOK
<1>3. ASSUME NEW i \in Intake, NEW selected \in SUBSET Key, Rollback(i, selected)
      PROVE  target'[j] = target[j] /\ point'[j][k].state # "none"
  <2>1. point[j][k] \in Point
    BY DEF TypeOK
  <2> QED BY <1>3, <2>1 DEF Rollback, Consumed, TypeOK, Point
<1>4. CASE UNCHANGED <<target, point>>
  BY <1>4
<1> QED
  BY <1>1, <1>2, <1>3, <1>4
     DEF Next, vars, MapFields, AdmitBegin, AdmitAbort, ResolveBegin,
         ResolveCommit, ResolveAbort, HrUpdate, HrRemove, intakeVars

LEMMA ContestKept ==
    ASSUME TypeOK, LifeInv, [Next]_vars, NEW i \in Intake, NEW k \in Key,
           target'[i] = target[i], Contested(i, k)
    PROVE  Contested(i, k)'
<1>1. PICK j \in Intake \ {i} : target[j] = target[i] /\ point[j][k].state # "none"
  BY DEF Contested
<1>2. target'[j] = target[j] /\ point'[j][k].state # "none"
  BY <1>1, PointKept
<1> QED BY <1>1, <1>2 DEF Contested

LEMMA SkippedKept ==
    ASSUME TypeOK, [Next]_vars, NEW i \in Intake
    PROVE  skipped[i] \subseteq skipped'[i]
<1>1. ASSUME NEW x \in Intake, NEW t \in OfferedTargets, NEW open \in SUBSET Issue,
             NEW dated \in BOOLEAN, NEW rows \in SUBSET Row,
             NEW keys \in [Row -> Key \cup {NoKey}],
             AddIntake(x, t, open, dated, rows, keys)
      PROVE  UNCHANGED skipped
  BY <1>1 DEF AddIntake
<1>2. ASSUME NEW x \in Intake, NEW selected \in SUBSET Key, Rollback(x, selected)
      PROVE  skipped[i] \subseteq skipped'[i]
  BY <1>2 DEF Rollback, TypeOK
<1> QED
  BY <1>1, <1>2
     DEF Next, vars, MapFields, AdmitBegin, AdmitCommit, AdmitAbort, ResolveBegin,
         ResolveCommit, ResolveAbort, HrUpdate, HrRemove

\* An intake that is being admitted has no live row at such a key: its last
\* operation was not an admission, for it has rows to decide.
LEMMA AdmittingOwnsNothing ==
    ASSUME LifeInv, NEW i \in Intake, OpenRows(i) # {}, NEW k \in Key,
           CleanAt(i, k), target[i] \in StagingTargets
    PROVE  ~Own(i, canon[target[i]][k])
<1>1. LastOp(i) # "admission"
  BY DEF LifeInv, Life
<1> QED BY <1>1 DEF CleanAt

\* A rollback that does not leave a key out takes the intake's row back.
LEMMA RollbackCleans ==
    ASSUME TypeOK, LifeInv, NEW i \in Intake, NEW k \in Key, CleanAt(i, k),
           NEW selected \in SUBSET Key, Rollback(i, selected), k \notin skipped'[i]
    PROVE  CleanAt(i, k)'
<1> DEFINE touched == {x \in selected : Reversible(i, x)}
<1>1. /\ i \notin admitting'
      /\ target' = target
      /\ target[i] \in StagingTargets
      /\ canon' = [canon EXCEPT ![target[i]] = Undone(i, touched)]
      /\ point' = [point EXCEPT ![i] = Consumed(i, touched)]
      /\ selected \in Selections(i)
      /\ k \in Available(i) => k \in selected
  BY DEF Rollback, TypeOK
<1>2. selected \subseteq Available(i)
  BY <1>1 DEF Selections
<1> DEFINE row == canon[target[i]][k]
<1>3. /\ point[i][k] \in Point /\ row \in CanonRow
      /\ point'[i][k] = Consumed(i, touched)[k]
      /\ canon'[target[i]][k] = Undone(i, touched)[k]
  BY <1>1 DEF TypeOK
<1>4. CASE k \in touched
  <2>1. k \in Available(i)
    BY <1>2, <1>4
  <2>2. ~Own(i, point[i][k].before)
    BY <2>1 DEF CleanAt, Available
  <2> HIDE DEF touched
  <2>3. point'[i][k].state # "available"
    BY <1>3, <1>4 DEF Consumed, Point
  <2>4. CASE point[i][k].before = NoRow
    <3>1. canon'[target[i]][k] = [row EXCEPT !.adm = "reversed"]
      BY <1>3, <1>4, <2>4 DEF Undone
    <3>2. ~Own(i, canon'[target[i]][k])
      BY <1>3, <3>1 DEF Own, Live, CanonRow
    <3> QED BY <1>1, <2>3, <3>2 DEF CleanAt
  <2>5. CASE point[i][k].before # NoRow
    <3>1. canon'[target[i]][k] = point[i][k].before
      BY <1>3, <1>4, <2>5 DEF Undone
    <3> QED BY <1>1, <2>2, <2>3, <3>1 DEF CleanAt
  <2> QED BY <2>4, <2>5
<1>5. CASE k \notin touched
  <2>1. ~Own(i, row)
    <3>1. SUFFICES ASSUME Own(i, row) PROVE FALSE
      OBVIOUS
    <3>2. k \in selected
      BY <1>1, <3>1 DEF CleanAt, Available
    <3>3. row # NoRow /\ Live(row)
      BY <3>1 DEF Own, Live, NoRow
    <3>4. Reversible(i, k)
      BY <3>3 DEF Reversible
    <3> QED BY <1>5, <3>2, <3>4
  <2> HIDE DEF touched
  <2>2. canon'[target[i]][k] = row /\ point'[i][k] = point[i][k]
    BY <1>3, <1>5 DEF Undone, Consumed
  <2> QED BY <1>1, <2>1, <2>2 DEF CleanAt
<1> QED BY <1>4, <1>5

\* A row that the HR screen edits or deletes does not become the intake's.
LEMMA HrOwnsNothing ==
    ASSUME TypeOK, NEW x \in Key, HrUpdate(x) \/ HrRemove(x),
           NEW i \in Intake, NEW k \in Key, NEW t \in StagingTargets,
           Own(i, canon'[t][k])
    PROVE  Own(i, canon[t][k])
<1>1. canon["hr_employee"][x] \in CanonRow
  BY DEF TypeOK, StagingTargets
<1>2. CASE t = "hr_employee" /\ k = x /\ HrUpdate(x)
  <2>1. canon'[t][k] = [canon[t][k] EXCEPT !.edited = TRUE]
    BY <1>2 DEF HrUpdate, TypeOK
  <2> QED BY <1>1, <1>2, <2>1 DEF Own, Live, CanonRow
<1>3. CASE t = "hr_employee" /\ k = x /\ HrRemove(x)
  <2>1. canon'[t][k] = NoRow
    BY <1>3 DEF HrRemove, TypeOK
  <2> QED BY <2>1 DEF Own, Live, NoRow
<1>4. CASE t # "hr_employee" \/ k # x
  BY <1>4 DEF HrUpdate, HrRemove, TypeOK
<1> QED BY <1>2, <1>3, <1>4

LEMMA CleanStep ==
    TypeOK /\ LifeInv /\ TraceInv /\ CleanInv /\ [Next]_vars => CleanInv'
<1> SUFFICES ASSUME TypeOK, LifeInv, TraceInv, CleanInv, [Next]_vars,
                    NEW i \in Intake, NEW k \in Key,
                    k \notin skipped'[i], ~Contested(i, k)'
             PROVE  CleanAt(i, k)'
  BY DEF CleanInv
<1>0. k \notin skipped[i]
  BY SkippedKept
<1>1. ASSUME target'[i] = target[i] PROVE CleanAt(i, k) /\ ~Contested(i, k)
  BY <1>0, <1>1, ContestKept DEF CleanInv
<1>2. ASSUME NEW x \in Intake, NEW t \in OfferedTargets, NEW open \in SUBSET Issue,
             NEW dated \in BOOLEAN, NEW rows \in SUBSET Row,
             NEW keys \in [Row -> Key \cup {NoKey}],
             AddIntake(x, t, open, dated, rows, keys)
      PROVE  CleanAt(i, k)'
  <2>1. CASE x = i
    <3>1. point[i][k] = NoPoint /\ i \notin admitting
      BY <1>2, <2>1 DEF AddIntake, LifeInv, Life
    <3>2. ASSUME NEW tt \in StagingTargets PROVE ~Own(i, canon[tt][k])
      BY <3>1 DEF Own, TraceInv, Traced, SourcedBy, NoPoint
    <3>3. UNCHANGED <<canon, point, admitting>>
      BY <1>2 DEF AddIntake
    <3> QED BY <3>1, <3>2, <3>3 DEF CleanAt, NoPoint
  <2>2. CASE x # i
    <3>1. target'[i] = target[i] /\ UNCHANGED <<canon, point, journal, admitting, snap>>
      BY <1>2, <2>2 DEF AddIntake, TypeOK
    <3> QED BY <1>1, <3>1 DEF CleanAt, LastOp
  <2> QED BY <2>1, <2>2
<1>3. ASSUME NEW x \in Intake, AdmitBegin(x) PROVE CleanAt(i, k)'
  <2>1. /\ UNCHANGED <<target, canon, point, journal>>
        /\ admitting' = admitting \cup {x}
        /\ snap' = [snap EXCEPT ![x] = canon[target[x]]]
        /\ OpenRows(x) # {} /\ target[x] \in StagingTargets
    BY <1>3 DEF AdmitBegin, intakeVars
  <2>2. CASE x = i
    <3>1. snap'[i] = canon[target[i]]
      BY <2>1, <2>2 DEF TypeOK
    <3>2. ~Own(i, canon[target[i]][k])
      BY <1>1, <2>1, <2>2, AdmittingOwnsNothing
    <3> QED BY <1>1, <2>1, <3>1, <3>2 DEF CleanAt, LastOp
  <2>3. CASE x # i
    BY <1>1, <2>1, <2>3 DEF CleanAt, LastOp, TypeOK
  <2> QED BY <2>2, <2>3
<1>4. ASSUME NEW x \in Intake, AdmitCommit(x) PROVE CleanAt(i, k)'
  <2>1. /\ x \in admitting /\ OpenRows(x) # {} /\ target[x] \in StagingTargets
        /\ target' = target
        /\ canon' = [canon EXCEPT ![target[x]] = Upserted(x)]
        /\ point' = [point EXCEPT ![x] = Captured(x)]
        /\ admitting' = admitting \ {x}
        /\ snap' = [snap EXCEPT ![x] = NoSnapshot]
        /\ Record(x, "admission")
    BY <1>4 DEF AdmitCommit, LifeInv, Life
  <2>2. CASE x = i
    <3>1. /\ i \notin admitting' /\ LastOp(i)' = "admission"
          /\ canon'[target[i]][k] = Upserted(i)[k]
          /\ point'[i][k] = Captured(i)[k]
      BY <2>1, <2>2, JournalStep DEF TypeOK
    <3>2. CASE k \in AdmittedKeys(i)
      <4>1. point'[i][k] = [state |-> "available", before |-> snap[i][k]]
        BY <3>1, <3>2 DEF Captured
      <4> QED BY <1>1, <2>1, <2>2, <3>1, <4>1 DEF CleanAt
    <3>3. CASE k \notin AdmittedKeys(i)
      <4>1. point'[i][k] = point[i][k] /\ canon'[target[i]][k] = canon[target[i]][k]
        BY <3>1, <3>3 DEF Captured, Upserted
      <4>2. ~Own(i, canon[target[i]][k])
        BY <1>1, <2>1, <2>2, AdmittingOwnsNothing
      <4> QED BY <1>1, <2>1, <3>1, <4>1, <4>2 DEF CleanAt
    <3> QED BY <3>2, <3>3
  <2>3. CASE x # i
    <3>1. /\ point'[i] = point[i] /\ snap'[i] = snap[i] /\ LastOp(i)' = LastOp(i)
          /\ i \in admitting' => i \in admitting
      BY <2>1, <2>3, JournalStep DEF TypeOK
    <3>2. ASSUME target[i] \in StagingTargets, Own(i, canon'[target[i]][k])
          PROVE  Own(i, canon[target[i]][k])
      <4>1. CASE target[i] # target[x]
        BY <2>1, <3>2, <4>1 DEF TypeOK
      <4>2. CASE target[i] = target[x]
        <5>1. canon'[target[i]][k] = Upserted(x)[k]
          BY <2>1, <4>2 DEF TypeOK
        <5> QED BY <2>3, <3>2, <4>2, <5>1 DEF Upserted, Own
      <4> QED BY <4>1, <4>2
    <3> QED BY <1>1, <2>1, <3>1, <3>2 DEF CleanAt
  <2> QED BY <2>2, <2>3
<1>5. ASSUME NEW x \in Intake, AdmitAbort(x) PROVE CleanAt(i, k)'
  <2>1. /\ UNCHANGED <<target, canon, point, journal>>
        /\ admitting' = admitting \ {x}
        /\ snap' = [snap EXCEPT ![x] = NoSnapshot]
    BY <1>5 DEF AdmitAbort, intakeVars
  <2> QED BY <1>1, <2>1 DEF CleanAt, LastOp, TypeOK
<1>6. ASSUME NEW x \in Intake, NEW selected \in SUBSET Key, Rollback(x, selected)
      PROVE  CleanAt(i, k)'
  <2> DEFINE touched == {y \in selected : Reversible(x, y)}
  <2>1. /\ target' = target /\ target[x] \in StagingTargets
        /\ canon' = [canon EXCEPT ![target[x]] = Undone(x, touched)]
        /\ point' = [point EXCEPT ![x] = Consumed(x, touched)]
        /\ UNCHANGED <<admitting, snap>>
        /\ Record(x, "rollback")
        /\ selected \in Selections(x)
    BY <1>6 DEF Rollback
  <2>2. CASE x = i
    BY <1>1, <1>6, <2>1, <2>2, RollbackCleans
  <2>3. CASE x # i
    <3>1. point'[i] = point[i] /\ LastOp(i)' = LastOp(i)
      BY <2>1, <2>3, JournalStep DEF TypeOK
    <3>2. touched \subseteq Available(x)
      BY <2>1 DEF Selections
    <3>3. target[i] = target[x] => k \notin touched
      BY <1>1, <2>1, <2>3, <3>2 DEF Contested, Available
    <3> HIDE DEF touched
    <3>4. ASSUME target[i] \in StagingTargets
          PROVE  canon'[target[i]][k] = canon[target[i]][k]
      BY <2>1, <3>3, <3>4 DEF Undone, TypeOK
    <3> QED BY <1>1, <2>1, <3>1, <3>4 DEF CleanAt
  <2> QED BY <2>2, <2>3
<1>7. ASSUME NEW x \in Key, HrUpdate(x) \/ HrRemove(x) PROVE CleanAt(i, k)'
  <2>1. UNCHANGED <<target, point, journal, admitting, snap>>
    BY <1>7 DEF HrUpdate, HrRemove, intakeVars
  <2>2. ASSUME target[i] \in StagingTargets, Own(i, canon'[target[i]][k])
        PROVE  Own(i, canon[target[i]][k])
    BY <1>7, <2>2, HrOwnsNothing
  <2> QED BY <1>1, <2>1, <2>2 DEF CleanAt, LastOp
<1>8. CASE UNCHANGED <<target, canon, point, journal, admitting, snap>>
  BY <1>1, <1>8 DEF CleanAt, LastOp
<1> QED
  BY <1>2, <1>3, <1>4, <1>5, <1>6, <1>7, <1>8
     DEF Next, vars, intakeVars, MapFields, ResolveBegin, ResolveCommit, ResolveAbort

-----------------------------------------------------------------------------
(* Theorems *)

\* The types and the CHECK constraint of archive_intake hold for ever, and
\* with them the invariant of the intakes' lives.
THEOREM TypeCorrect == Spec => [](TypeOK /\ LifeInv)
<1>1. Init => TypeOK /\ LifeInv
  BY TypeInit, LifeInit
<1>2. TypeOK /\ LifeInv /\ [Next]_vars => (TypeOK /\ LifeInv)'
  BY TypeStep, LifeStep
<1> QED BY <1>1, <1>2, PTL DEF Spec

\* A closed intake has no undecided row and its last operation was the
\* admission that closed it.
THEOREM ClosedDecided == Spec => []ClosedIntakeDecided
<1>1. TypeOK /\ LifeInv => ClosedIntakeDecided
  BY DEF LifeInv, Life, ClosedIntakeDecided
<1> QED BY <1>1, TypeCorrect, PTL

\* Admissions and rollbacks of an intake alternate, admission first.
THEOREM AuditAlternates == Spec => []JournalAlternates
<1>1. Init => JournalAlternates
  BY DEF Init, JournalAlternates
<1> QED BY <1>1, JournalInv, TypeCorrect, PTL DEF Spec

\* Every admitted staged row has an available recovery point.
THEOREM AdmittedReversible == Spec => []AdmittedRowsReversible
<1>1. Init => AdmittedRowsReversible
  BY DEF Init, AdmittedRowsReversible
<1> QED BY <1>1, ReversibleInv, TypeCorrect, PTL DEF Spec

\* Every canonical row traces back to an accepted row and a recovery point
\* of the intake it names, however before images travelled.
THEOREM CanonTraced == Spec => []Provenance
<1>1. TraceInv => Provenance
  BY DEF TraceInv, Traced, Provenance
<1> QED BY <1>1, TraceInit, TraceStep, TypeCorrect, PTL DEF Spec

\* An issue that only a person can settle is never skipped, however many
\* resolutions, mappings, admissions and rollbacks overlap.
THEOREM NothingSkipped == Spec => []ReviewNotSkipped
<1>1. Init => SeenInv /\ ReviewNotSkipped
  BY DEF Init, SeenInv, ReviewNotSkipped, PastReview, Closed
<1> QED BY <1>1, ReviewStep, TypeCorrect, PTL DEF Spec

LEMMA SpecClean == Spec => [](TypeOK /\ TraceInv /\ CleanInv)
<1>1. Init => CleanInv
  BY ConstantsAssumption
     DEF Init, CleanInv, CleanAt, Own, Live, NoPoint, NoRow, ManualRow
<1> QED BY <1>1, TraceInit, TraceStep, CleanStep, TypeCorrect, PTL DEF Spec

\* An available recovery point never leads back to a live row of its own file,
\* whatever other files, rollbacks of single points, transactions in flight and
\* edits of the HR screen do, except at a key that a rollback of the file left
\* out or that another file of the table was admitted under.
THEOREM BeforeImagesForeign == Spec => []BeforeImageForeign
<1>1. CleanInv => BeforeImageForeign
  BY DEF CleanInv, CleanAt, BeforeImageForeign
<1> QED BY <1>1, SpecClean, PTL

\* A rollback leaves nothing live of what the file brought in, with the same
\* two exceptions.
THEOREM RollbackIsComplete == Spec => []RolledBackLeavesNothing
<1>1. TypeOK /\ TraceInv /\ CleanInv => RolledBackLeavesNothing
  <2> SUFFICES ASSUME TypeOK, TraceInv, CleanInv, NEW i \in Intake,
                      LastOp(i) = "rollback", NEW t \in StagingTargets, NEW k \in Key,
                      Own(i, canon[t][k])
               PROVE  k \in skipped[i] \/ Contested(i, k)
    BY DEF RolledBackLeavesNothing
  <2>1. target[i] = t
    BY DEF TraceInv, Traced, SourcedBy, Own
  <2>2. ~CleanAt(i, k)
    BY <2>1 DEF CleanAt
  <2> QED BY <2>2 DEF CleanInv
<1> QED BY <1>1, SpecClean, PTL
=============================================================================
