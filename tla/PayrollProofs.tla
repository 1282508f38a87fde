---------------------------- MODULE PayrollProofs ----------------------------
(***************************************************************************)
(* What the payroll runs check of PayrollService and PayrollLedger, for    *)
(* every value of the constants: AnswersFit, LedgerReported and            *)
(* FiguresHold.  Sums are over finite sets of any size: a sum is read off  *)
(* a table of the sums of all subsets, and what holds of every table is    *)
(* shown by a smallest subset for which it fails.                          *)
(***************************************************************************)
EXTENDS PayrollMonth, FiniteSetTheorems, TLAPS

-----------------------------------------------------------------------------
(* Sums over finite sets *)

\* t is the table of the sums of g over the subsets of S.
SumTable(t, g, S) ==
    /\ t \in [SUBSET S -> Int]
    /\ t[{}] = 0
    /\ \A s \in SUBSET S : \A x \in s : t[s] = g[x] + t[s \ {x}]

\* h adds the figures up by taking off one element after the other, whichever.
AddsUp(h, g, S) ==
    \A s \in SUBSET S :
        IF s = {} THEN h[s] = 0 ELSE \E x \in s : h[s] = g[x] + h[s \ {x}]

\* A set of subsets of a finite set has a smallest member: the induction over
\* finite sets that the sums need, as a minimal counterexample.
LEMMA SmallestSubset ==
    ASSUME NEW S, IsFiniteSet(S), NEW B \in SUBSET (SUBSET S), B # {}
    PROVE  \E s \in B : \A u \in B : u \subseteq s => u = s
<1> DEFINE R == StrictSubsetOrdering(S)
<1>1. B \subseteq FiniteSubsetsOf(S)
  BY FS_Subset DEF FiniteSubsetsOf
<1>2. IsWellFoundedOn(R, FiniteSubsetsOf(S))
  BY FS_StrictSubsetOrderingWellFounded
<1>3. PICK s \in B : \A u \in B : ~ (<<u, s>> \in R)
  BY <1>1, <1>2, WFMin
<1>4. \A u \in B : u \subseteq s => u = s
  BY <1>3 DEF StrictSubsetOrdering
<1> QED BY <1>4

\* Figures that are whole have such a table: a subset for which there is none
\* has a smaller one.
LEMMA SumTableExists ==
    ASSUME NEW S, IsFiniteSet(S), NEW g, \A x \in S : g[x] \in Int
    PROVE  \E t : SumTable(t, g, S)
<1> DEFINE B == {s \in SUBSET S : ~ \E t : SumTable(t, g, s)}
<1>1. SUFFICES ASSUME B # {} PROVE FALSE
  OBVIOUS
<1>2. PICK s \in B : \A u \in B : u \subseteq s => u = s
  <2> HIDE DEF B
  <2>1. B \in SUBSET (SUBSET S)
    BY DEF B
  <2> QED BY <1>1, <2>1, SmallestSubset
<1>3. CASE s = {}
  <2>1. SumTable([u \in SUBSET s |-> 0], g, s)
    BY <1>3 DEF SumTable
  <2> QED BY <1>2, <2>1
<1>4. CASE s # {}
  <2>1. PICK x \in s : TRUE
    BY <1>4
  <2> DEFINE r == s \ {x}
  <2>2. PICK t : SumTable(t, g, r)
    BY <1>2, <2>1
  <2> DEFINE w == [u \in SUBSET s |-> IF x \in u THEN g[x] + t[u \ {x}] ELSE t[u]]
  <2>3. \A u \in SUBSET s : u \ {x} \in SUBSET r /\ (x \notin u => u \in SUBSET r)
    OBVIOUS
  <2>4. w \in [SUBSET s -> Int] /\ w[{}] = 0
    BY <2>1, <2>2, <2>3, <1>2 DEF SumTable
  <2>5. ASSUME NEW u \in SUBSET s, NEW y \in u PROVE w[u] = g[y] + w[u \ {y}]
    <3>1. w[u \ {y}] = IF x \in u \ {y} THEN g[x] + t[(u \ {y}) \ {x}] ELSE t[u \ {y}]
      OBVIOUS
    <3>2. w[u] = IF x \in u THEN g[x] + t[u \ {x}] ELSE t[u]
      OBVIOUS
    <3>3. CASE y = x
      BY <3>1, <3>2, <3>3
    <3>4. CASE y # x /\ x \in u
      <4>1. u \ {x} \in SUBSET r /\ y \in u \ {x}
        BY <3>4
      <4>2. t[u \ {x}] = g[y] + t[(u \ {x}) \ {y}]
        BY <4>1, <2>2 DEF SumTable
      <4>3. (u \ {x}) \ {y} = (u \ {y}) \ {x} /\ (u \ {x}) \ {y} \in SUBSET r
        OBVIOUS
      <4>4. g[x] \in Int /\ g[y] \in Int /\ t[(u \ {x}) \ {y}] \in Int
        BY <1>2, <2>1, <2>2, <4>3 DEF SumTable
      <4>5. w[u] = g[x] + t[u \ {x}] /\ w[u \ {y}] = g[x] + t[(u \ {x}) \ {y}]
        BY <3>1, <3>2, <3>4, <4>3
      <4> HIDE DEF r, w
      <4> QED BY <4>2, <4>4, <4>5
    <3>5. CASE y # x /\ x \notin u
      <4>1. u \in SUBSET r
        BY <3>5
      <4>2. t[u] = g[y] + t[u \ {y}]
        BY <4>1, <2>2 DEF SumTable
      <4> HIDE DEF r, w
      <4> QED BY <3>1, <3>2, <3>5, <4>2
    <3> QED BY <3>3, <3>4, <3>5
  <2>6. SumTable(w, g, s)
    <3> HIDE DEF w
    <3> QED BY <2>4, <2>5 DEF SumTable
  <2> QED BY <1>2, <2>6
<1> QED BY <1>3, <1>4

\* A function that takes the elements of a set off one by one and adds them
\* up is that table.
LEMMA SumTableUnique ==
    ASSUME NEW S, IsFiniteSet(S), NEW g, NEW t, SumTable(t, g, S),
           NEW h, AddsUp(h, g, S)
    PROVE  \A s \in SUBSET S : h[s] = t[s]
<1> DEFINE B == {s \in SUBSET S : h[s] # t[s]}
<1>1. SUFFICES ASSUME B # {} PROVE FALSE
  OBVIOUS
<1>2. PICK s \in B : \A u \in B : u \subseteq s => u = s
  <2> HIDE DEF B
  <2>1. B \in SUBSET (SUBSET S)
    BY DEF B
  <2> QED BY <1>1, <2>1, SmallestSubset
<1>3. s # {}
  BY <1>2 DEF SumTable, AddsUp
<1>4. PICK x \in s : h[s] = g[x] + h[s \ {x}]
  BY <1>2, <1>3 DEF AddsUp
<1>5. h[s \ {x}] = t[s \ {x}]
  BY <1>2
<1>6. t[s] = g[x] + t[s \ {x}]
  BY <1>2 DEF SumTable
<1> QED BY <1>2, <1>4, <1>5, <1>6

\* SumOf, which picks the elements by CHOOSE, reads that table.
LEMMA SumOfIsTable ==
    ASSUME NEW S, IsFiniteSet(S), NEW g, NEW t, SumTable(t, g, S)
    PROVE  SumOf(g, S) = t[S]
<1> DEFINE c(s) == CHOOSE x \in s : TRUE
           P(h) == h = [s \in SUBSET S |-> IF s = {} THEN 0 ELSE g[c(s)] + h[s \ {c(s)}]]
<1>1. \A s \in SUBSET S : s # {} => c(s) \in s
  OBVIOUS
<1>2. P(t)
  <2> HIDE DEF c
  <2>1. \A s \in SUBSET S : t[s] = IF s = {} THEN 0 ELSE g[c(s)] + t[s \ {c(s)}]
    BY <1>1 DEF SumTable
  <2>2. t = [s \in SUBSET S |-> t[s]]
    BY DEF SumTable
  <2> QED BY <2>1, <2>2
<1>3. P(CHOOSE h : P(h))
  <2> HIDE DEF P
  <2> QED BY <1>2, Zenon
<1>4. PICK h : h = (CHOOSE k : P(k)) /\ P(h)
  BY <1>3
<1>5. \A s \in SUBSET S : h[s] = t[s]
  <2>1. \A s \in SUBSET S : s = {} => h[s] = 0
    BY <1>4
  <2>2. \A s \in SUBSET S : s # {} => h[s] = g[c(s)] + h[s \ {c(s)}]
    BY <1>4
  <2> HIDE DEF P, c
  <2>3. AddsUp(h, g, S)
    BY <1>1, <2>1, <2>2 DEF AddsUp
  <2> QED BY <2>3, SumTableUnique
<1>6. SumOf(g, S) = (CHOOSE k : P(k))[S]
  BY DEF SumOf, MapThenSumSet, MapThenFoldSet
<1> QED BY <1>4, <1>5, <1>6

-----------------------------------------------------------------------------
(* The ledger and the payroll run *)

\* The marker for what is absent is neither a record nor a sequence.
NoneIsNoFunction == None # [k \in DOMAIN None |-> None[k]]

\* The figures of a worker that his row's payload keeps.
Paid == L!Components \cup {"total", "net"}

\* The types of rows, importers and recovery points.
Row == [status : {"admitted", "replaced", "reversed"}, gross : Int, column : Int,
        payload : {None} \cup [Paid -> Int], hash : L!Workers \cup Sheet, intake : Nat \cup {None}]
Import == [at : {"idle", "intake", "rows", "done", "failed"}, ledger : Ledger \cup {None},
           intake : Nat \cup {None}, next : Nat]
Point == [employee : Employee, before : Row \cup {None}, sheet : Sheet, at : L!PointStage]

LedgerTypes ==
    /\ rows \in [Employee -> Row \cup {None}]
    /\ DOMAIN intakes = 1..Len(intakes) /\ Len(intakes) \in Nat
    /\ imp \in [Importer -> Import]
    /\ points \in Seq(Point)

\* A row with the hash of a worker has his figures: only a worker's own row
\* carries his hash, and all that happens to it later is that it is marked
\* reversed or taken away.
TrueRow(row) ==
    row # None /\ row.hash \in L!Workers =>
        /\ row.status \in {"admitted", "reversed"}
        /\ row.gross = row.hash.gross
        /\ \A f \in Paid : row.payload # None /\ row.payload[f] = row.hash[f]

\* The inductive invariant: rows and recovery points are true, the employee of
\* an available point has a row, and an importer under way has a ledger.
LedgerInv ==
    /\ LedgerTypes
    /\ \A e \in Employee : TrueRow(rows[e])
    /\ \A n \in DOMAIN points : /\ TrueRow(points[n].before)
                                /\ points[n].at = "available" => rows[points[n].employee] # None
    /\ \A i \in Importer : imp[i].at # "idle" =>
          imp[i].ledger \in Ledger /\ imp[i].ledger.workers # <<>> /\ imp[i].next > 0

\* So None is told from every row.
LEMMA NoneIsNoRow == ASSUME NoneIsNoFunction PROVE None \notin Row
BY DEF NoneIsNoFunction, Row

\* A set of numbers that is not empty has a least one.
LEMMA LeastNumber ==
    ASSUME NEW S \in SUBSET Nat, S # {}
    PROVE  \E n \in S : \A m \in S : n <= m
<1> DEFINE B == {0..n : n \in S}
<1>1. PICK k \in S : TRUE
  OBVIOUS
<1> DEFINE T == 0..k
           C == {b \in B : b \subseteq T}
<1>2. T \in C /\ C \in SUBSET (SUBSET T) /\ C # {}
  BY <1>1
<1>6. IsFiniteSet(T)
  BY <1>1, FS_Interval
<1> HIDE DEF C, T
<1>3. PICK c \in C : \A b \in C : b \subseteq c => b = c
  BY <1>2, <1>6, SmallestSubset
<1>4. PICK n \in S : c = 0..n /\ n \in 0..k
  BY <1>3 DEF C, T
<1>5. ASSUME NEW m \in S, m < n PROVE FALSE
  <2>1. 0..m \in C /\ 0..m \subseteq 0..n /\ n \in 0..n /\ n \notin 0..m
    BY <1>4, <1>5 DEF C, T
  <2> QED BY <2>1, <1>3, <1>4
<1> QED BY <1>5

\* What the types say of an element.
LEMMA LedgerBasics ==
    ASSUME LedgerTypes
    PROVE  /\ Len(points) \in Nat /\ DOMAIN points = 1..Len(points)
           /\ \A n \in DOMAIN points :
                 /\ points[n] \in Point
                 /\ points[n].employee \in Employee
                 /\ points[n].before \in Row \cup {None} /\ points[n].sheet \in Sheet
           /\ \A i \in Importer : imp[i] \in Import
<1>1. Len(points) \in Nat /\ DOMAIN points = 1..Len(points) /\ \A n \in DOMAIN points : points[n] \in Point
  BY DEF LedgerTypes
<1> QED BY <1>1 DEF LedgerTypes, Point

\* The ledger starts with no row, import or recovery point.
LEMMA LedgerInit == ASSUME L!InputsAreFigures, L!Init PROVE LedgerInv
BY DEF L!Init, L!Idle, LedgerInv, LedgerTypes, Import, TrueRow

\* The steps of an importer (StartImport, InsertIntake, UpsertWorker,
\* FinishImport, FailImport) keep the invariant.
LEMMA ImporterStep ==
    ASSUME NoneIsNoFunction, L!InputsAreFigures, LedgerInv, NEW i \in Importer,
           \/ \E ledger \in Ledger : L!StartImport(i, ledger)
           \/ L!InsertIntake(i) \/ L!UpsertWorker(i) \/ L!FinishImport(i) \/ L!FailImport(i)
    PROVE  LedgerInv'
<1> USE DEF LedgerInv
<1>1. ASSUME NEW ledger \in Ledger, L!StartImport(i, ledger) PROVE LedgerInv'
  <2> DEFINE known == {n \in DOMAIN intakes : intakes[n] = L!LedgerContent(ledger)}
             started == [at |-> IF known = {} THEN "intake" ELSE "rows", ledger |-> ledger,
                         intake |-> IF known = {} THEN None ELSE L!Min(known), next |-> 1]
  <2>1. imp' = [imp EXCEPT ![i] = started] /\ ledger.workers # <<>> /\ UNCHANGED <<rows, intakes, points>>
    BY <1>1 DEF L!StartImport
  <2>2. known # {} => L!Min(known) \in Nat
    <3>1. known \in SUBSET Nat
      BY DEF LedgerTypes
    <3> HIDE DEF known
    <3>2. known # {} => \E n \in known : \A m \in known : n <= m
      BY <3>1, LeastNumber
    <3> QED BY <3>1, <3>2 DEF L!Min
  <2>3. started \in Import
    <3> HIDE DEF known
    <3> QED BY <2>2 DEF Import
  <2>4. started.ledger = ledger /\ started.next = 1
    OBVIOUS
  <2> HIDE DEF started
  <2>5. LedgerTypes'
    BY <2>1, <2>3 DEF LedgerTypes
  <2>6. \A j \in Importer : imp'[j] = IF j = i THEN started ELSE imp[j]
    BY <2>1 DEF LedgerTypes
  <2> QED BY <2>1, <2>4, <2>5, <2>6 DEF TrueRow
<1>2. CASE L!InsertIntake(i)
  <2> DEFINE inserted == [imp[i] EXCEPT !.at = "rows", !.intake = Len(intakes) + 1]
  <2>3. imp' = [imp EXCEPT ![i] = inserted] /\ intakes' = Append(intakes, L!LedgerContent(imp[i].ledger))
        /\ UNCHANGED <<rows, points>> /\ imp[i].at = "intake"
    BY <1>2 DEF L!InsertIntake
  <2>4. inserted \in Import /\ inserted.ledger = imp[i].ledger /\ inserted.next = imp[i].next
    <3>1. imp[i] \in Import /\ Len(intakes) + 1 \in Nat \cup {None}
      BY LedgerBasics DEF LedgerTypes
    <3> HIDE DEF LedgerInv
    <3> QED BY <3>1 DEF Import
  <2>5. imp' \in [Importer -> Import] /\ \A j \in Importer : imp'[j] = IF j = i THEN inserted ELSE imp[j]
    <3> HIDE DEF inserted
    <3> QED BY <2>3, <2>4 DEF LedgerTypes
  <2>6. Len(intakes') \in Nat /\ DOMAIN intakes' = 1..Len(intakes')
    BY <2>3 DEF LedgerTypes
  <2>1. LedgerTypes'
    BY <2>3, <2>5, <2>6 DEF LedgerTypes
  <2> HIDE DEF inserted
  <2> QED BY <2>1, <2>3, <2>4, <2>5 DEF TrueRow
<1>3. CASE L!UpsertWorker(i)
  <2> DEFINE worker == imp[i].ledger.workers[imp[i].next]
             key == L!ResolveEmployeeKey(worker)
             row == L!RowOf(worker, imp[i].intake, rows[key])
  <2>1. /\ rows' = [rows EXCEPT ![key] = row] /\ imp' = [imp EXCEPT ![i].next = @ + 1]
        /\ UNCHANGED <<intakes, points>> /\ imp[i].at = "rows" /\ imp[i].next <= Len(imp[i].ledger.workers)
    BY <1>3 DEF L!UpsertWorker, L!RowOf
  <2>2. worker \in L!Workers
    BY <2>1 DEF LedgerTypes, Import, L!InputsAreFigures
  <2>3. row \in Row /\ TrueRow(row)
    <3>1. imp[i].intake \in Nat \cup {None}
      BY DEF LedgerTypes, Import
    <3>2. \A f \in Paid \cup {"gross"} : worker[f] \in Int
      BY <2>2 DEF L!InputsAreFigures, L!Figures, Paid
    <3> HIDE DEF worker, key
    <3>3. row = [status |-> "admitted", gross |-> worker.gross, column |-> L!Greatest(worker.total, 0),
                 payload |-> [f \in Paid |-> worker[f]], hash |-> worker, intake |-> imp[i].intake]
      BY DEF L!RowOf, Paid
    <3>4. L!Greatest(worker.total, 0) \in Int /\ worker.gross \in Int
      BY <3>2 DEF L!Greatest, Paid
    <3>5. [f \in Paid |-> worker[f]] \in [Paid -> Int]
      BY <3>2
    <3>6. [f \in Paid |-> worker[f]] # None
      BY DEF NoneIsNoFunction
    <3> HIDE DEF row
    <3> QED BY <2>2, <3>1, <3>3, <3>4, <3>5, <3>6 DEF Row, TrueRow
  <2>4. row # None
    BY <2>3, NoneIsNoRow
  <2> HIDE DEF row, key, worker
  <2>5. \A e \in Employee : rows'[e] = IF e = key THEN row ELSE rows[e]
    BY <2>1 DEF LedgerTypes
  <2>6. imp' \in [Importer -> Import] /\ \A j \in Importer : imp'[j].at = imp[j].at /\ imp'[j].ledger = imp[j].ledger /\ imp'[j].next >= imp[j].next
    <3> DEFINE on == [imp[i] EXCEPT !.next = @ + 1]
    <3>1. on \in Import /\ on.at = imp[i].at /\ on.ledger = imp[i].ledger /\ on.next = imp[i].next + 1
      BY LedgerBasics DEF Import
    <3>2. imp' = [imp EXCEPT ![i] = on] /\ \A j \in Importer : imp[j].next \in Nat
      BY <2>1, LedgerBasics DEF Import
    <3> HIDE DEF on
    <3> QED BY <3>1, <3>2 DEF LedgerTypes
  <2>7. LedgerTypes'
    BY <2>1, <2>3, <2>6 DEF LedgerTypes
  <2>8. \A n \in DOMAIN points : points[n].employee \in Employee
    BY LedgerBasics
  <2>9. \A e \in Employee : TrueRow(rows'[e])
    BY <2>3, <2>5
  <2>10. \A n \in DOMAIN points : points[n].at = "available" => rows'[points[n].employee] # None
    BY <2>4, <2>5, <2>8
  <2>11. \A j \in Importer : imp'[j].at # "idle" => imp'[j].ledger \in Ledger /\ imp'[j].ledger.workers # <<>> /\ imp'[j].next > 0
    BY <2>6 DEF LedgerTypes, Import
  <2>12. points' = points
    BY <2>1
  <2> QED BY <2>7, <2>9, <2>10, <2>11, <2>12 DEF TrueRow
<1>4. CASE L!FinishImport(i)
  BY <1>4 DEF L!FinishImport, LedgerTypes, Import, TrueRow
<1>5. CASE L!FailImport(i)
  BY <1>5 DEF L!FailImport, LedgerTypes, Import, TrueRow
<1> QED BY <1>1, <1>2, <1>3, <1>4, <1>5

\* A step that writes the row of a recovery point and moves the point keeps it.
LEMMA PointMoves ==
    ASSUME NoneIsNoFunction, LedgerInv, NEW n \in DOMAIN points,
           NEW row \in Row, TrueRow(row), NEW at \in L!PointStage,
           rows' = [rows EXCEPT ![points[n].employee] = row],
           points' = [points EXCEPT ![n].at = at], UNCHANGED <<intakes, imp>>
    PROVE  LedgerInv'
<1> USE DEF LedgerInv
<1> DEFINE e == points[n].employee
<1>1. e \in Employee /\ row # None
  BY LedgerBasics, NoneIsNoRow
<1>2. \A x \in Employee : rows'[x] = IF x = e THEN row ELSE rows[x]
  BY DEF LedgerTypes
<1>3. points' \in Seq(Point) /\ DOMAIN points' = DOMAIN points
      /\ \A m \in DOMAIN points : /\ points'[m].employee = points[m].employee
                                  /\ points'[m].before = points[m].before
                                  /\ m # n => points'[m].at = points[m].at
  <2>1. points[n] \in Point /\ [points[n] EXCEPT !.at = at] \in Point
    BY LedgerBasics DEF Point
  <2>2. points' = [points EXCEPT ![n] = [points[n] EXCEPT !.at = at]]
    OBVIOUS
  <2>3. points \in Seq(Point) /\ DOMAIN points = 1..Len(points) /\ Len(points) \in Nat
    BY LedgerBasics DEF LedgerTypes
  <2>4. points' \in Seq(Point) /\ DOMAIN points' = DOMAIN points
    BY <2>1, <2>2, <2>3
  <2>5. \A m \in DOMAIN points : points'[m] = IF m = n THEN [points[n] EXCEPT !.at = at] ELSE points[m]
    BY <2>2, <2>3
  <2> QED BY <2>1, <2>4, <2>5 DEF Point
<1>4. LedgerTypes'
  BY <1>1, <1>3 DEF LedgerTypes
<1>5. \A m \in DOMAIN points : points[m].employee \in Employee
  BY LedgerBasics
<1>6. \A m \in DOMAIN points' : /\ TrueRow(points'[m].before)
                                /\ points'[m].at = "available" => rows'[points'[m].employee] # None
  BY <1>1, <1>2, <1>3, <1>5
<1>7. \A x \in Employee : TrueRow(rows'[x])
  BY <1>2
<1> QED BY <1>4, <1>6, <1>7 DEF TrueRow

\* Taking a before image, admitting a sheet over a row and rolling it back
\* keep it.
LEMMA SheetStep ==
    ASSUME NoneIsNoFunction, L!InputsAreFigures, LedgerInv,
           \/ \E e \in Employee, sheet \in Sheet : L!TakeBeforeImage(e, sheet)
           \/ \E n \in DOMAIN points : L!AdmitSheet(n) \/ L!RollBackSheet(n)
    PROVE  LedgerInv'
<1> USE DEF LedgerInv
<1>1. ASSUME NEW e \in Employee, NEW sheet \in Sheet, L!TakeBeforeImage(e, sheet)
      PROVE  LedgerInv'
  <2> DEFINE point == [employee |-> e, before |-> rows[e], sheet |-> sheet, at |-> "taken"]
  <2>1. points' = Append(points, point) /\ UNCHANGED <<rows, intakes, imp>>
    BY <1>1 DEF L!TakeBeforeImage
  <2>2. point \in Point /\ TrueRow(point.before) /\ point.at = "taken"
    BY DEF Point, LedgerTypes, L!PointStage
  <2> HIDE DEF point
  <2>3. points \in Seq(Point) /\ DOMAIN points = 1..Len(points) /\ Len(points) \in Nat
    BY LedgerBasics DEF LedgerTypes
  <2>4. /\ points' \in Seq(Point) /\ Len(points') = Len(points) + 1
        /\ DOMAIN points' = 1..Len(points')
    BY <2>1, <2>2, <2>3
  <2>5. ASSUME NEW n \in DOMAIN points', n # Len(points')
        PROVE  n \in DOMAIN points /\ points'[n] = points[n]
    BY <2>1, <2>2, <2>3, <2>4, <2>5
  <2>6. points'[Len(points')] = point
    BY <2>1, <2>2, <2>3, <2>4
  <2>7. \A n \in DOMAIN points' :
          /\ TrueRow(points'[n].before)
          /\ points'[n].at = "available" => rows'[points'[n].employee] # None
    BY <2>1, <2>2, <2>5, <2>6
  <2>8. LedgerTypes'
    BY <2>1, <2>4 DEF LedgerTypes
  <2> QED BY <2>1, <2>7, <2>8 DEF TrueRow
<1>2. ASSUME NEW n \in DOMAIN points, L!AdmitSheet(n) PROVE LedgerInv'
  <2> DEFINE e == points[n].employee
             sheet == points[n].sheet
             row == [status |-> IF rows[e] = None THEN "admitted" ELSE "replaced",
                     gross |-> sheet.gross, column |-> sheet.column, payload |-> None,
                     hash |-> sheet, intake |-> None]
  <2>1. /\ rows' = [rows EXCEPT ![e] = row] /\ points' = [points EXCEPT ![n].at = "available"]
        /\ UNCHANGED <<intakes, imp>>
    BY <1>2 DEF L!AdmitSheet
  <2>2. sheet \in Sheet
    BY LedgerBasics
  <2> HIDE DEF sheet
  <2>3. row \in Row
    BY <2>2 DEF Row, L!InputsAreFigures
  <2>4. TrueRow(row)
    BY <2>2 DEF TrueRow, L!InputsAreFigures
  <2>5. "available" \in L!PointStage
    BY DEF L!PointStage
  <2> HIDE DEF row
  <2> QED BY <2>1, <2>3, <2>4, <2>5, PointMoves
<1>3. ASSUME NEW n \in DOMAIN points, L!RollBackSheet(n) PROVE LedgerInv'
  <2> DEFINE e == points[n].employee
             row == IF points[n].before # None THEN points[n].before
                    ELSE [rows[e] EXCEPT !.status = "reversed"]
  <2>1. /\ rows' = [rows EXCEPT ![e] = row] /\ points' = [points EXCEPT ![n].at = "used"]
        /\ UNCHANGED <<intakes, imp>> /\ points[n].at = "available"
    BY <1>3 DEF L!RollBackSheet
  <2>2. /\ e \in Employee /\ rows[e] \in Row
        /\ points[n].before \in Row \cup {None} /\ points[n] \in Point
    BY <2>1, LedgerBasics DEF LedgerTypes
  <2>3. row \in Row
    BY <2>2 DEF Row
  <2>4. TrueRow(row)
    <3>1. TrueRow(points[n].before) /\ TrueRow(rows[e]) /\ rows[e] # None
      BY <2>1, <2>2
    <3>2. CASE points[n].before = None
      BY <2>2, <3>1, <3>2 DEF TrueRow, Row
    <3> QED BY <3>1, <3>2
  <2>5. "used" \in L!PointStage
    BY DEF L!PointStage
  <2> HIDE DEF row
  <2> QED BY <2>1, <2>3, <2>4, <2>5, PointMoves
<1> QED BY <1>1, <1>2, <1>3

\* Every step of the ledger keeps it.
LEMMA LedgerStep ==
    ASSUME NoneIsNoFunction, L!InputsAreFigures
    PROVE  LedgerInv /\ [L!Next]_L!vars => LedgerInv'
<1> SUFFICES ASSUME LedgerInv, [L!Next]_L!vars PROVE LedgerInv'
  OBVIOUS
<1>1. CASE UNCHANGED L!vars
  BY <1>1 DEF L!vars, LedgerInv, LedgerTypes, TrueRow
<1>2. CASE L!Next
  BY <1>2, ImporterStep, SheetStep DEF L!Next
<1> QED BY <1>1, <1>2

\* A set of numbers up to n that is not empty has a greatest one.
LEMMA GreatestNumber ==
    ASSUME NEW n \in Nat, NEW S \in SUBSET (1..n), S # {}
    PROVE  \E x \in S : \A y \in S : x >= y
<1> DEFINE T == {n - x : x \in S}
<1>0. PICK z \in S : TRUE
  OBVIOUS
<1>1. T \in SUBSET Nat /\ n - z \in T
  OBVIOUS
<1> HIDE DEF T
<1>2. PICK m \in T : \A k \in T : m <= k
  BY <1>1, LeastNumber
<1>3. PICK x \in S : m = n - x
  BY <1>2 DEF T
<1>4. ASSUME NEW y \in S PROVE x >= y
  <2>1. n - x <= n - y
    BY <1>2, <1>3 DEF T
  <2> QED BY <2>1
<1> QED BY <1>4

\* The sum over a sequence of records, as the importer adds it up.
FieldSum(ws, f) == L!FoldLeft(LAMBDA sum, w : sum + w[f], 0, ws)

\* The importer's fold over the workers reads the table of the sums too.
LEMMA FoldIsTable ==
    ASSUME NEW n \in Nat, NEW ws, DOMAIN ws = 1..n, NEW f,
           NEW g, \A k \in 1..n : g[k] = ws[k][f] /\ g[k] \in Int,
           NEW t, SumTable(t, g, 1..n)
    PROVE  FieldSum(ws, f) = t[1..n]
<1> DEFINE S == 1..n
           c(s) == L!Max(s)
           P(h) == h = [s \in SUBSET (DOMAIN ws) |-> IF s = {} THEN 0 ELSE h[s \ {c(s)}] + ws[c(s)][f]]
<1>1. \A s \in SUBSET S : s # {} => c(s) \in s
  <2>1. ASSUME NEW s \in SUBSET S, s # {} PROVE \E x \in s : \A y \in s : x >= y
    BY <2>1, GreatestNumber
  <2> QED BY <2>1 DEF L!Max
<1>2. P(t)
  <2> HIDE DEF c
  <2>1. ASSUME NEW s \in SUBSET S, s # {} PROVE t[s] = t[s \ {c(s)}] + ws[c(s)][f]
    <3>1. c(s) \in s /\ t[s] = g[c(s)] + t[s \ {c(s)}]
      BY <1>1, <2>1 DEF SumTable
    <3>2. g[c(s)] = ws[c(s)][f] /\ g[c(s)] \in Int
      BY <3>1
    <3>3. t[s \ {c(s)}] \in Int
      BY DEF SumTable
    <3> QED BY <3>1, <3>2, <3>3
  <2>2. t[{}] = 0 /\ t = [s \in SUBSET S |-> t[s]]
    BY DEF SumTable
  <2> QED BY <2>1, <2>2
<1>3. P(CHOOSE h : P(h))
  <2> HIDE DEF P
  <2> QED BY <1>2, Zenon
<1>4. PICK h : h = (CHOOSE k : P(k)) /\ P(h)
  BY <1>3
<1>5. \A s \in SUBSET S : h[s] = t[s]
  <2> DEFINE B == {s \in SUBSET S : h[s] # t[s]}
  <2>1. SUFFICES ASSUME B # {} PROVE FALSE
    OBVIOUS
  <2>2. PICK s \in B : \A u \in B : u \subseteq s => u = s
    <3>1. IsFiniteSet(S) /\ B \in SUBSET (SUBSET S)
      BY FS_Interval
    <3> HIDE DEF B, S
    <3> QED BY <2>1, <3>1, SmallestSubset
  <2>3. s \in SUBSET S /\ h[s] # t[s]
    BY <2>2
  <2>4. s # {}
    BY <1>4, <2>3 DEF SumTable
  <2>5. h[s] = h[s \ {c(s)}] + ws[c(s)][f]
    BY <1>4, <2>3, <2>4
  <2>6. h[s \ {c(s)}] = t[s \ {c(s)}]
    BY <1>1, <2>2, <2>4
  <2>7. t[s] = t[s \ {c(s)}] + ws[c(s)][f]
    BY <1>2, <2>3, <2>4
  <2> QED BY <2>3, <2>5, <2>6, <2>7
<1>6. FieldSum(ws, f) = (CHOOSE k : P(k))[DOMAIN ws]
  BY DEF FieldSum, L!FoldLeft, L!MapThenFoldSet
<1> QED BY <1>4, <1>5, <1>6

\* Cardinality is one operator here and in the ledger's module.
LEMMA SameCardinality == ASSUME NEW S PROVE L!Cardinality(S) = Cardinality(S)
BY DEF L!Cardinality, Cardinality

\* The totals an import prints, as sums.
LEMMA PrintedSums ==
    ASSUME NEW ledger
    PROVE  /\ L!Result(ledger).gross = FieldSum(ledger.workers, "gross")
           /\ L!Result(ledger).deductions = FieldSum(ledger.workers, "total")
           /\ L!Result(ledger).net = FieldSum(ledger.workers, "net")
           /\ L!Result(ledger).workers = Len(ledger.workers)
           /\ L!Result(ledger).collapsed
              <=> (Cardinality({L!ResolveEmployeeKey(w) : w \in L!ToSet(ledger.workers)}) < Len(ledger.workers))
<1>1. L!Result(ledger).gross = FieldSum(ledger.workers, "gross")
  BY DEF L!Result, FieldSum
<1>2. L!Result(ledger).deductions = FieldSum(ledger.workers, "total")
  BY DEF L!Result, FieldSum
<1>3. L!Result(ledger).net = FieldSum(ledger.workers, "net")
  BY DEF L!Result, FieldSum
<1>4. L!Result(ledger).workers = Len(ledger.workers)
  BY DEF L!Result, FieldSum
<1>5. L!Result(ledger).collapsed
        <=> (Cardinality({L!ResolveEmployeeKey(w) : w \in L!ToSet(ledger.workers)}) < Len(ledger.workers))
  BY SameCardinality DEF L!Result
<1> QED BY <1>1, <1>2, <1>3, <1>4, <1>5

\* The sum over the lines of a report, as the run adds it up.
LineSum(lines, f, S) == L!MapThenSumSet(LAMBDA e : lines[e][f], S)

\* The run's sum over the lines reads the table of the sums.
LEMMA LineSumIsTable ==
    ASSUME NEW S, IsFiniteSet(S), NEW lines, NEW f,
           NEW g, \A e \in S : g[e] = lines[e][f],
           NEW t, SumTable(t, g, S)
    PROVE  LineSum(lines, f, S) = t[S]
<1> DEFINE c(s) == CHOOSE x \in s : TRUE
           P(h) == h = [s \in SUBSET S |-> IF s = {} THEN 0 ELSE lines[c(s)][f] + h[s \ {c(s)}]]
<1>1. \A s \in SUBSET S : s # {} => c(s) \in s
  OBVIOUS
<1>2. P(t)
  <2> HIDE DEF c
  <2>1. \A s \in SUBSET S : t[s] = IF s = {} THEN 0 ELSE lines[c(s)][f] + t[s \ {c(s)}]
    BY <1>1 DEF SumTable
  <2>2. t = [s \in SUBSET S |-> t[s]]
    BY DEF SumTable
  <2> QED BY <2>1, <2>2
<1>3. P(CHOOSE h : P(h))
  <2> HIDE DEF P
  <2> QED BY <1>2, Zenon
<1>4. PICK h : h = (CHOOSE k : P(k)) /\ P(h)
  BY <1>3
<1>5. AddsUp(h, g, S)
  <2>1. \A s \in SUBSET S : s = {} => h[s] = 0
    BY <1>4
  <2>2. \A s \in SUBSET S : s # {} => h[s] = lines[c(s)][f] + h[s \ {c(s)}]
    BY <1>4
  <2> HIDE DEF P, c
  <2> QED BY <1>1, <2>1, <2>2 DEF AddsUp
<1>6. LineSum(lines, f, S) = (CHOOSE k : P(k))[S]
  BY DEF LineSum, L!MapThenSumSet, L!MapThenFoldSet
<1>7. h[S] = t[S]
  <2> HIDE DEF P
  <2> QED BY <1>5, SumTableUnique
<1> QED BY <1>4, <1>6, <1>7

\* The lines of the run's report: the rows that are loaded, reconciled.
Lines == [e \in L!Loaded |-> L!ReconcileWorker(L!LedgerWorker(rows[e]))]

\* The totals the run reports, as sums.
LEMMA ReportedSums ==
    ASSUME L!Loaded # {}
    PROVE  /\ L!ReconcilePeriod.lines = Lines
           /\ L!ReconcilePeriod.workers = Cardinality(L!Loaded)
           /\ L!ReconcilePeriod.gross = LineSum(Lines, "gross", L!Loaded)
           /\ L!ReconcilePeriod.deductions = LineSum(Lines, "deductions", L!Loaded)
           /\ L!ReconcilePeriod.net = LineSum(Lines, "net", L!Loaded)
<1>1. L!ReconcilePeriod.lines = Lines
  BY DEF L!ReconcilePeriod, Lines
<1>2. L!ReconcilePeriod.workers = Cardinality(L!Loaded)
  BY SameCardinality DEF L!ReconcilePeriod
<1>3. L!ReconcilePeriod.gross = LineSum(Lines, "gross", L!Loaded)
  BY DEF L!ReconcilePeriod, LineSum, Lines
<1>4. L!ReconcilePeriod.deductions = LineSum(Lines, "deductions", L!Loaded)
  BY DEF L!ReconcilePeriod, LineSum, Lines
<1>5. L!ReconcilePeriod.net = LineSum(Lines, "net", L!Loaded)
  BY DEF L!ReconcilePeriod, LineSum, Lines
<1> QED BY <1>1, <1>2, <1>3, <1>4, <1>5

\* A sum does not change when its elements get other names.
LEMMA RenamedSum ==
    ASSUME NEW S, IsFiniteSet(S), NEW k, \A x, y \in S : k[x] = k[y] => x = y,
           NEW g, NEW t, SumTable(t, g, S),
           NEW l, \A x \in S : l[k[x]] = g[x],
           NEW u, SumTable(u, l, {k[x] : x \in S})
    PROVE  t[S] = u[{k[x] : x \in S}]
<1> DEFINE image(s) == {k[x] : x \in s}
           h == [s \in SUBSET S |-> u[image(s)]]
<1>1. AddsUp(h, g, S)
  <2>1. ASSUME NEW s \in SUBSET S, s = {} PROVE h[s] = 0
    <3>1. image(s) = {}
      BY <2>1
    <3> QED BY <3>1, <2>1 DEF SumTable
  <2>2. ASSUME NEW s \in SUBSET S, NEW x \in s PROVE h[s] = g[x] + h[s \ {x}]
    <3>1. image(s) \in SUBSET image(S) /\ k[x] \in image(s)
      OBVIOUS
    <3>2. image(s) \ {k[x]} = image(s \ {x})
      OBVIOUS
    <3>3. u[image(s)] = l[k[x]] + u[image(s) \ {k[x]}]
      BY <3>1 DEF SumTable
    <3>4. l[k[x]] = g[x]
      OBVIOUS
    <3>5. h[s] = u[image(s)] /\ h[s \ {x}] = u[image(s \ {x})]
      OBVIOUS
    <3> QED BY <3>2, <3>3, <3>4, <3>5
  <2> HIDE DEF h
  <2> QED BY <2>1, <2>2 DEF AddsUp
<1>2. \A s \in SUBSET S : h[s] = t[s]
  <2> HIDE DEF h
  <2> QED BY <1>1, SumTableUnique
<1> QED BY <1>2

\* How a ledger that stands lies in the rows: ws are its workers, k is where
\* the row of each one is.
LiesIn(i, ws, n, k) ==
    /\ ws = imp[i].ledger.workers /\ n = Len(ws) /\ n \in Nat \ {0} /\ DOMAIN ws = 1..n
    /\ L!ToSet(ws) = {ws[x] : x \in 1..n}
    /\ \A x \in 1..n : k[x] = L!ResolveEmployeeKey(ws[x])
    /\ \A x, y \in 1..n : k[x] = k[y] => x = y
    /\ L!Loaded = {k[x] : x \in 1..n}
    /\ IsFiniteSet(L!Loaded) /\ Cardinality(L!Loaded) = n
    /\ \A x \in 1..n : /\ k[x] \in Employee /\ rows[k[x]] # None
                       /\ rows[k[x]].hash = ws[x] /\ ws[x] \in L!Workers
                       /\ rows[k[x]].status = "admitted"

\* The numbers up to n are n.
LEMMA UpTo == ASSUME NEW n \in Nat PROVE IsFiniteSet(1..n) /\ Cardinality(1..n) = n
BY FS_Interval

\* A ledger that stands lies in the rows, each worker under his key.
LEMMA Standing ==
    ASSUME NoneIsNoFunction, L!InputsAreFigures, LedgerInv, NEW i \in Importer, L!Stands(i)
    PROVE  \E ws, n, k : LiesIn(i, ws, n, k)
<1>0. PICK ws, n, k : /\ ws = imp[i].ledger.workers /\ n = Len(ws)
                      /\ k = [x \in 1..n |-> L!ResolveEmployeeKey(ws[x])]
  OBVIOUS
<1> DEFINE keys == {k[x] : x \in 1..n}
<1>1. imp[i].ledger \in Ledger /\ ws # <<>>
  BY <1>0 DEF LedgerInv, L!Stands
<1>2. ws \in Seq(L!Workers)
  BY <1>0, <1>1 DEF L!InputsAreFigures
<1>3. n \in Nat /\ DOMAIN ws = 1..n /\ \A x \in 1..n : ws[x] \in L!Workers
  BY <1>0, <1>2
<1>4. n # 0
  BY <1>0, <1>1, <1>2
<1>5. L!ToSet(ws) = {ws[x] : x \in 1..n}
  BY <1>3 DEF L!ToSet
<1>6. {L!ResolveEmployeeKey(w) : w \in L!ToSet(ws)} = keys
  BY <1>0, <1>5
<1>7. ~ (Cardinality(keys) < n)
  BY <1>0, <1>6, PrintedSums DEF L!Stands
<1>8. k \in Surjection(1..n, keys) /\ IsFiniteSet(1..n) /\ Cardinality(1..n) = n
  <2>1. k \in Surjection(1..n, keys)
    BY <1>0 DEF Surjection
  <2> QED BY <2>1, <1>3, UpTo
<1>9. /\ Cardinality(keys) <= n /\ IsFiniteSet(keys)
      /\ Cardinality(keys) = n <=> k \in Injection(1..n, keys)
  <2> HIDE DEF keys
  <2> QED BY <1>8, FS_Surjection
<1>10. Cardinality(keys) = n
  <2>1. Cardinality(keys) \in Nat
    BY <1>9, FS_CardinalityType
  <2> QED BY <1>3, <1>7, <1>9, <2>1
<1>11. \A x, y \in 1..n : k[x] = k[y] => x = y
  BY <1>9, <1>10 DEF Injection, IsInjective
<1>12. {e \in Employee : L!Live(rows[e])} = keys
  BY <1>0, <1>6 DEF L!Stands
<1>13. \A x \in 1..n : rows[k[x]].hash = ws[x]
  BY <1>0, <1>5 DEF L!Stands
<1>14. ASSUME NEW x \in 1..n
       PROVE  k[x] \in Employee /\ rows[k[x]] # None /\ rows[k[x]].status = "admitted"
  <2>1. k[x] \in Employee /\ L!Live(rows[k[x]])
    BY <1>12
  <2>2. TrueRow(rows[k[x]])
    BY <2>1 DEF LedgerInv
  <2> QED BY <2>1, <2>2, <1>3, <1>13 DEF TrueRow, L!Live
<1>15. L!Loaded = keys
  <2>1. L!Loaded \subseteq {e \in Employee : L!Live(rows[e])}
    BY DEF L!Loaded, L!Live
  <2>2. keys \subseteq L!Loaded
    <3>1. ASSUME NEW e \in keys PROVE e \in L!Loaded
      <4>1. PICK x \in 1..n : e = k[x]
        BY <3>1
      <4> QED BY <4>1, <1>14 DEF L!Loaded
    <3> QED BY <3>1
  <2> QED BY <1>12, <2>1, <2>2
<1>16. \A x \in 1..n : k[x] = L!ResolveEmployeeKey(ws[x])
  BY <1>0
<1>17. L!Loaded = {k[x] : x \in 1..n} /\ IsFiniteSet(L!Loaded) /\ Cardinality(L!Loaded) = n
  BY <1>9, <1>10, <1>15
<1>18. ws = imp[i].ledger.workers /\ n = Len(ws) /\ n \in Nat \ {0} /\ DOMAIN ws = 1..n
  BY <1>0, <1>3, <1>4
<1>19. LiesIn(i, ws, n, k)
  <2> HIDE <1>0
  <2> HIDE DEF keys
  <2> QED BY <1>3, <1>5, <1>11, <1>13, <1>14, <1>16, <1>17, <1>18 DEF LiesIn
<1> QED BY <1>19

\* The five components added up.
LEMMA ComponentSum ==
    ASSUME NEW w, \A f \in L!Components : w[f] \in Int
    PROVE  L!MapThenSumSet(LAMBDA f : w[f], L!Components)
             = w["income"] + w["local"] + w["health"] + w["pension"] + w["employment"]
<1> DEFINE S == L!Components
<1>1. IsFiniteSet(S)
  <2>1. S = {"income"} \cup {"local"} \cup {"health"} \cup {"pension"} \cup {"employment"}
    BY DEF L!Components
  <2>2. IsFiniteSet({"income"} \cup {"local"}) /\ IsFiniteSet({"health"})
    BY FS_Singleton, FS_AddElement
  <2>3. IsFiniteSet({"income"} \cup {"local"} \cup {"health"} \cup {"pension"})
    BY <2>2, FS_AddElement
  <2> QED BY <2>1, <2>3, FS_AddElement
<1>2. PICK t : SumTable(t, w, S)
  <2> HIDE DEF S
  <2> QED BY <1>1, SumTableExists DEF S
<1>3. L!MapThenSumSet(LAMBDA f : w[f], S) = SumOf(w, S)
  BY DEF SumOf, MapThenSumSet, MapThenFoldSet, L!MapThenSumSet, L!MapThenFoldSet
<1>4. SumOf(w, S) = t[S]
  <2> HIDE DEF S
  <2> QED BY <1>1, <1>2, SumOfIsTable
<1>5. t[S] = w["income"] + w["local"] + w["health"] + w["pension"] + w["employment"]
  <2> DEFINE four == {"local", "health", "pension", "employment"}
             three == {"health", "pension", "employment"}
             two == {"pension", "employment"}
             one == {"employment"}
  <2>1. S \ {"income"} = four /\ four \ {"local"} = three /\ three \ {"health"} = two
        /\ two \ {"pension"} = one /\ one \ {"employment"} = {}
    BY DEF L!Components
  <2>2. S \in SUBSET S /\ four \in SUBSET S /\ three \in SUBSET S /\ two \in SUBSET S /\ one \in SUBSET S
        /\ {} \in SUBSET S
    BY DEF L!Components
  <2>3. "income" \in S /\ "local" \in four /\ "health" \in three /\ "pension" \in two /\ "employment" \in one
    BY DEF L!Components
  <2>4. /\ w["income"] \in Int /\ w["local"] \in Int /\ w["health"] \in Int
        /\ w["pension"] \in Int /\ w["employment"] \in Int
    BY DEF L!Components
  <2> HIDE DEF S, four, three, two, one
  <2>5. t[S] = w["income"] + t[four]
    BY <1>2, <2>1, <2>2, <2>3 DEF SumTable
  <2>6. t[four] = w["local"] + t[three]
    BY <1>2, <2>1, <2>2, <2>3 DEF SumTable
  <2>7. t[three] = w["health"] + t[two]
    BY <1>2, <2>1, <2>2, <2>3 DEF SumTable
  <2>8. t[two] = w["pension"] + t[one]
    BY <1>2, <2>1, <2>2, <2>3 DEF SumTable
  <2>9. t[one] = w["employment"]
    <3>1. t[one] = w["employment"] + t[{}]
      BY <1>2, <2>1, <2>2, <2>3 DEF SumTable
    <3>2. t[{}] = 0
      BY <1>2 DEF SumTable
    <3> QED BY <2>4, <3>1, <3>2
  <2>10. t[two] = w["pension"] + w["employment"] /\ t[two] \in Int
    BY <2>4, <2>8, <2>9
  <2>11. t[three] = w["health"] + w["pension"] + w["employment"]
    BY <2>4, <2>7, <2>10
  <2>12. t[four] = w["local"] + w["health"] + w["pension"] + w["employment"]
    BY <2>4, <2>6, <2>11
  <2> QED BY <2>4, <2>5, <2>12
<1> QED BY <1>3, <1>4, <1>5

\* The line of a row with a worker's figures shows the worker's figures.
LEMMA LineOfWorker ==
    ASSUME NEW row, NEW w, \A f \in L!Figures : w[f] \in Int,
           row.gross = w.gross, \A f \in Paid : row.payload # None /\ row.payload[f] = w[f],
           NEW line, line = L!ReconcileWorker(L!LedgerWorker(row))
    PROVE  /\ line.gross = w.gross /\ line.deductions = w.total /\ line.net = w.net
           /\ line.netMatch <=> w.net = w.gross - (w.income + w.local + w.health + w.pension + w.employment)
<1> USE DEF Paid, L!Components, L!Figures
<1> DEFINE lw == L!LedgerWorker(row)
<1>1. row.payload # None /\ \A f \in Paid : row.payload[f] = w[f]
  OBVIOUS
<1>2. /\ lw.gross = w.gross /\ lw.taxes = w.income + w.local
      /\ lw.insurance = w.health + w.pension + w.employment /\ lw.total = w.total /\ lw.net = w.net
  BY <1>1 DEF L!LedgerWorker
<1> HIDE DEF lw
<1>3. /\ line.gross = lw.gross /\ line.deductions = lw.total /\ line.net = lw.net
      /\ line.netMatch <=> lw.gross - (lw.taxes + lw.insurance) = lw.net
  BY DEF L!ReconcileWorker, lw
<1> QED BY <1>2, <1>3

\* What the run reports of a ledger that stands is what its import printed.
LEMMA ReportEqualsPrint ==
    ASSUME NoneIsNoFunction, L!InputsAreFigures, LedgerInv, NEW i \in Importer, L!Stands(i)
    PROVE  LET printed == L!Result(imp[i].ledger)
           IN  /\ L!ReconcilePeriod # None
               /\ \A f \in {"gross", "deductions", "net", "workers"} : L!ReconcilePeriod[f] = printed[f]
               /\ \A w \in L!ToSet(imp[i].ledger.workers) :
                    L!ReconcilePeriod.lines[L!ResolveEmployeeKey(w)].netMatch
                      <=> w.net = w.gross - L!MapThenSumSet(LAMBDA f : w[f], L!Components)
<1>1. PICK ws, n, k : LiesIn(i, ws, n, k)
  BY Standing
<1> DEFINE S == 1..n
<1> USE DEF LiesIn
<1>2. ASSUME NEW x \in S
      PROVE  /\ \A f \in L!Figures : ws[x][f] \in Int
             /\ Lines[k[x]].gross = ws[x].gross /\ Lines[k[x]].deductions = ws[x].total
             /\ Lines[k[x]].net = ws[x].net
             /\ Lines[k[x]].netMatch
                <=> ws[x].net = ws[x].gross - (ws[x].income + ws[x].local + ws[x].health
                                               + ws[x].pension + ws[x].employment)
  <2> DEFINE row == rows[k[x]]
  <2>1. k[x] \in Employee /\ row # None /\ row.hash = ws[x] /\ ws[x] \in L!Workers
    BY <1>1
  <2>2. Lines[k[x]] = L!ReconcileWorker(L!LedgerWorker(row))
    BY <1>1 DEF Lines
  <2>3. TrueRow(row)
    BY <2>1 DEF LedgerInv
  <2>4. \A f \in L!Figures : ws[x][f] \in Int
    BY <2>1 DEF L!InputsAreFigures
  <2> HIDE DEF row
  <2> QED BY <2>1, <2>2, <2>3, <2>4, LineOfWorker DEF TrueRow
<1>3. ASSUME NEW f \in {"gross", "total", "net"}, NEW l \in {"gross", "deductions", "net"},
             \A x \in S : Lines[k[x]][l] = ws[x][f]
      PROVE  FieldSum(ws, f) = LineSum(Lines, l, L!Loaded)
  <2> DEFINE g == [x \in S |-> ws[x][f]]
             m == [e \in L!Loaded |-> Lines[e][l]]
  <2>1. IsFiniteSet(S) /\ IsFiniteSet(L!Loaded)
    BY <1>1, UpTo
  <2>2. \A x \in S : g[x] = ws[x][f] /\ g[x] \in Int
    BY <1>2 DEF L!Figures
  <2>3. \A x \in S : m[k[x]] = g[x]
    BY <1>1, <1>3
  <2>4. \A e \in L!Loaded : m[e] = Lines[e][l] /\ m[e] \in Int
    <3>1. ASSUME NEW e \in L!Loaded PROVE m[e] \in Int
      <4>1. PICK x \in S : e = k[x]
        BY <1>1
      <4> QED BY <4>1, <2>2, <2>3
    <3> QED BY <3>1
  <2> HIDE DEF g, m, S
  <2>5. PICK t : SumTable(t, g, S)
    BY <2>1, <2>2, SumTableExists
  <2>6. PICK u : SumTable(u, m, L!Loaded)
    BY <2>1, <2>4, SumTableExists
  <2>7. FieldSum(ws, f) = t[S]
    BY <1>1, <2>2, <2>5, FoldIsTable DEF S
  <2>8. LineSum(Lines, l, L!Loaded) = u[L!Loaded]
    BY <2>1, <2>4, <2>6, LineSumIsTable
  <2>9. t[S] = u[L!Loaded]
    <3>1. L!Loaded = {k[x] : x \in S} /\ \A x, y \in S : k[x] = k[y] => x = y
      BY <1>1 DEF S
    <3> QED BY <3>1, <2>1, <2>3, <2>5, <2>6, RenamedSum
  <2> QED BY <2>7, <2>8, <2>9
<1>4. L!Loaded # {}
  <2>1. 1 \in S /\ k[1] \in {k[x] : x \in S}
    BY <1>1
  <2> QED BY <1>1, <2>1
<1>5. L!ReconcilePeriod # None
  BY <1>4 DEF L!ReconcilePeriod, NoneIsNoFunction
<1>6. /\ L!ReconcilePeriod["gross"] = L!Result(imp[i].ledger)["gross"]
      /\ L!ReconcilePeriod["deductions"] = L!Result(imp[i].ledger)["deductions"]
      /\ L!ReconcilePeriod["net"] = L!Result(imp[i].ledger)["net"]
      /\ L!ReconcilePeriod["workers"] = L!Result(imp[i].ledger)["workers"]
  <2>1. FieldSum(ws, "gross") = LineSum(Lines, "gross", L!Loaded)
    BY <1>2, <1>3
  <2>2. FieldSum(ws, "total") = LineSum(Lines, "deductions", L!Loaded)
    BY <1>2, <1>3
  <2>3. FieldSum(ws, "net") = LineSum(Lines, "net", L!Loaded)
    BY <1>2, <1>3
  <2> QED BY <1>1, <1>4, <2>1, <2>2, <2>3, ReportedSums, PrintedSums
<1>7. ASSUME NEW w \in L!ToSet(ws)
      PROVE  L!ReconcilePeriod.lines[L!ResolveEmployeeKey(w)].netMatch
               <=> w.net = w.gross - L!MapThenSumSet(LAMBDA f : w[f], L!Components)
  <2>1. PICK x \in S : w = ws[x] /\ k[x] = L!ResolveEmployeeKey(w)
    BY <1>1
  <2>2. L!ReconcilePeriod.lines = Lines
    BY <1>4, ReportedSums
  <2>3. \A f \in L!Components : w[f] \in Int
    BY <1>2, <2>1 DEF L!Figures
  <2>4. L!MapThenSumSet(LAMBDA f : w[f], L!Components)
          = w["income"] + w["local"] + w["health"] + w["pension"] + w["employment"]
    BY <2>3, ComponentSum
  <2>5. Lines[k[x]].netMatch <=> w.net = w.gross - (w.income + w.local + w.health + w.pension + w.employment)
    BY <1>2, <2>1
  <2> QED BY <2>1, <2>2, <2>4, <2>5
<1> QED BY <1>1, <1>5, <1>6, <1>7

\* What an import printed of a ledger is what the payroll run reports of it,
\* while no other ledger or sheet has taken its rows (archive_ledger_import.rs,
\* payroll_run.rs).  The argument is LedgerInv: a row that carries the hash of a
\* worker has his figures, and no step gives a row the hash without them.
THEOREM LedgerReported ==
    ASSUME NoneIsNoFunction
    PROVE  L!Spec => []LedgerReachesTheRun
<1>1. LedgerInv => LedgerReachesTheRun
  BY ReportEqualsPrint, LedgerAssumption DEF LedgerReachesTheRun, L!LedgerReachesTheRun
<1>2. L!Init => LedgerInv
  BY LedgerInit, LedgerAssumption
<1>3. LedgerInv /\ [L!Next]_L!vars => LedgerInv'
  BY LedgerStep, LedgerAssumption
<1> QED BY <1>1, <1>2, <1>3, PTL DEF L!Spec

-----------------------------------------------------------------------------
(* Rounding *)

\* Division with a remainder.
LEMMA DivMod ==
    ASSUME NEW a \in Int, NEW d \in Nat \ {0}
    PROVE  /\ a \div d \in Int /\ a % d \in 0..(d - 1)
           /\ a = d * (a \div d) + (a % d)
OBVIOUS

\* Quotient and remainder are the only ones.
LEMMA DivModIs ==
    ASSUME NEW d \in Nat \ {0}, NEW q \in Int, NEW r \in 0..(d - 1)
    PROVE  (d * q + r) \div d = q /\ (d * q + r) % d = r
OBVIOUS

\* Rounded gives a whole number that is no further than one half from
\* amount * num / den, though it never forms the product.
LEMMA RoundedNearest ==
    ASSUME NEW a \in Int, NEW k \in Int, NEW d \in Nat \ {0}
    PROVE  /\ Rounded(a, k, d) \in Int
           /\ 2 * (d * Rounded(a, k, d) - a * k) <= d
           /\ 0 - d <= 2 * (d * Rounded(a, k, d) - a * k)
<1> DEFINE q == a \div d
           s == a % d
           p == (s * k) \div d
           t == (s * k) % d
           whole == q * k + p
<1>1. q \in Int /\ s \in 0..(d - 1) /\ a = d * q + s
  BY DivMod
<1>2. s * k \in Int
  BY <1>1
<1>3. p \in Int /\ t \in 0..(d - 1) /\ s * k = d * p + t
  BY <1>2, DivMod
<1>4. Rounded(a, k, d) = IF 2 * t > d \/ (2 * t = d /\ whole % 2 = 1) THEN whole + 1 ELSE whole
  BY DEF Rounded
<1> HIDE DEF q, s, p, t
<1>5. q * k \in Int /\ a * k = d * (q * k) + s * k
  BY <1>1
<1>6. whole \in Int /\ a * k = d * whole + t /\ d * (whole + 1) = d * whole + d
  <2>1. d * whole = d * (q * k) + d * p
    BY <1>3, <1>5
  <2>2. whole \in Int
    BY <1>3, <1>5
  <2>3. a * k = d * whole + t
    BY <2>1, <1>3, <1>5
  <2> HIDE DEF whole
  <2> QED BY <2>2, <2>3
<1> HIDE DEF whole
<1>7. CASE 2 * t > d \/ (2 * t = d /\ whole % 2 = 1)
  <2>1. Rounded(a, k, d) = whole + 1 /\ 2 * t >= d
    BY <1>3, <1>4, <1>7
  <2>2. d * (whole + 1) - a * k = d - t
    BY <1>3, <1>6
  <2> QED BY <2>1, <2>2, <1>3, <1>6
<1>8. CASE ~ (2 * t > d \/ (2 * t = d /\ whole % 2 = 1))
  <2>1. Rounded(a, k, d) = whole /\ 2 * t <= d
    BY <1>3, <1>4, <1>8
  <2>2. d * whole - a * k = 0 - t
    BY <1>3, <1>6
  <2> QED BY <2>1, <2>2, <1>3, <1>6
<1> QED BY <1>7, <1>8

-----------------------------------------------------------------------------
(* Hours and overtime *)

\* An hourly wage, as a quotient.
AWage(w) == w.num \in Nat /\ w.den \in {1, 209}

\* The pay for hours is the nearest whole to hours * wage * halves / 2.
LEMMA HourPayNearest ==
    ASSUME NEW w, AWage(w), NEW hours \in Int, NEW halves \in Int
    PROVE  /\ HourPay(hours, w, halves) \in Int
           /\ 2 * w.den * HourPay(hours, w, halves) - w.num * (hours * halves) <= w.den
           /\ 0 - w.den <= 2 * w.den * HourPay(hours, w, halves) - w.num * (hours * halves)
<1> DEFINE r == HourPay(hours, w, halves)
           k == hours * halves
           p == w.num * k
<1>1. w.num \in Int /\ k \in Int /\ 2 * w.den \in Nat \ {0} /\ p \in Int
  BY DEF AWage
<1>2. r = Rounded(w.num, k, 2 * w.den)
  BY DEF HourPay
<1> HIDE DEF r, k
<1>3. /\ r \in Int
      /\ 2 * ((2 * w.den) * r - w.num * k) <= 2 * w.den
      /\ 0 - 2 * w.den <= 2 * ((2 * w.den) * r - w.num * k)
  BY <1>1, <1>2, RoundedNearest
<1>4. r \in Int /\ 2 * w.den * r - p <= w.den /\ 0 - w.den <= 2 * w.den * r - p
  <2>1. w.den = 1 \/ w.den = 209
    BY DEF AWage
  <2> HIDE DEF p
  <2>2. CASE w.den = 1
    BY <1>1, <1>3, <2>2 DEF p
  <2>3. CASE w.den = 209
    BY <1>1, <1>3, <2>3 DEF p
  <2> QED BY <2>1, <2>2, <2>3
<1> QED BY <1>4 DEF r, k

\* No hours or no wage, no pay.
LEMMA NoHoursNoPay ==
    ASSUME NEW w, AWage(w), NEW hours \in Int, NEW halves \in Int, hours = 0 \/ w.num = 0
    PROVE  HourPay(hours, w, halves) = 0
<1> DEFINE r == HourPay(hours, w, halves)
<1>1. w.num * (hours * halves) = 0
  BY DEF AWage
<1>2. r \in Int /\ 2 * w.den * r <= w.den /\ 0 - w.den <= 2 * w.den * r
  BY <1>1, HourPayNearest DEF AWage
<1> HIDE DEF r
<1>3. r = 0
  BY <1>2 DEF AWage
<1> QED BY <1>3 DEF r

\* Overtime given back as its raw amount is paid as that amount, unless the
\* amount is taken for a number of hours.
LEMMA OvertimeBack ==
    ASSUME NEW w, AWage(w), NEW hours \in Nat, NEW raw \in Int,
           NEW x, x = AmountOrRaw(HourPay(hours, w, 3), raw, w)
    PROVE  /\ x \in Nat /\ HourPay(hours, w, 3) \in Nat
           /\ ~IsLikelyHours(x, w) => AmountOrRaw(HourPay(0, w, 3), x, w) = x
           /\ HourPay(hours, w, 3) # 0 => x = HourPay(hours, w, 3)
           /\ HourPay(hours, w, 3) = 0 /\ x # 0 => x = raw
<1> DEFINE paid == HourPay(hours, w, 3)
           earned == w.num * (hours * 3)
<1>1. HourPay(0, w, 3) = 0
  BY NoHoursNoPay
<1>2. paid \in Int /\ 0 - w.den <= 2 * w.den * paid - earned
  BY HourPayNearest
<1>3. earned \in Nat
  BY DEF AWage
<1> HIDE DEF paid, earned
<1>4. paid \in Nat
  BY <1>2, <1>3 DEF AWage
<1>5. x = IF paid = 0 /\ raw > 0 /\ ~IsLikelyHours(raw, w) THEN raw ELSE paid
  BY <1>4 DEF AmountOrRaw, paid
<1>6. x \in Nat /\ (paid # 0 => x = paid) /\ (paid = 0 /\ x # 0 => x = raw)
  BY <1>4, <1>5
<1>7. ~IsLikelyHours(x, w) => AmountOrRaw(0, x, w) = x
  BY <1>6 DEF AmountOrRaw
<1> QED BY <1>1, <1>4, <1>6, <1>7 DEF paid

\* The half premium for hours that are both overtime and night, from the
\* hours and from their pay, differs by one won at most.
LEMMA OverlapBack ==
    ASSUME NEW w, AWage(w), NEW hours \in Nat, NEW night \in Nat,
           NEW first, first = HourPay(Least(hours, night), w, 1),
           NEW x, x = HourPay(hours, w, 3),
           NEW again, again = IF 2 * x * w.den <= 3 * night * w.num
                              THEN Rounded(x, 1, 3) ELSE HourPay(night, w, 1)
    PROVE  again - first \in -1..1 /\ again \in Int /\ first \in Int
<1> DEFINE A == w.num * hours
           B == w.num * night
           d == w.den
           R == Rounded(x, 1, 3)
           H == HourPay(hours, w, 1)
           N == HourPay(night, w, 1)
<1>1. /\ A \in Int /\ B \in Int /\ d \in {1, 209}
      /\ 3 * night * w.num = 3 * B /\ w.num * (hours * 3) = 3 * A
      /\ w.num * (hours * 1) = A /\ w.num * (night * 1) = B
  BY DEF AWage
<1>2. /\ hours <= night => A <= B
      /\ hours > night => B <= A
  <2>1. \A m, n \in Nat : m <= n => w.num * m <= w.num * n
    <3> SUFFICES ASSUME NEW m \in Nat, NEW n \in Nat, m <= n PROVE w.num * m <= w.num * n
      OBVIOUS
    <3>1. w.num \in Nat
      BY DEF AWage
    <3>2. w.num * n = w.num * m + w.num * (n - m) /\ w.num * (n - m) >= 0
      BY <3>1
    <3> QED BY <3>1, <3>2
  <2> QED BY <2>1
<1>3. x \in Int /\ 2 * d * x - 3 * A <= d /\ 0 - d <= 2 * d * x - 3 * A
  BY <1>1, HourPayNearest
<1>4. R \in Int /\ 2 * (3 * R - x) <= 3 /\ 0 - 3 <= 2 * (3 * R - x)
  BY <1>3, RoundedNearest
<1>5. H \in Int /\ 2 * d * H - A <= d /\ 0 - d <= 2 * d * H - A
  BY <1>1, HourPayNearest
<1>6. N \in Int /\ 2 * d * N - B <= d /\ 0 - d <= 2 * d * N - B
  BY <1>1, HourPayNearest
<1>7. first = IF hours <= night THEN H ELSE N
  BY DEF Least
<1>8. again = IF 2 * x * d <= 3 * B THEN R ELSE N
  BY <1>1
<1>9. 2 * x * d = 2 * d * x
  BY <1>1, <1>3
<1> HIDE DEF A, B, R, d, H, N
<1>10. CASE d = 1
  <2>1. x \in Int /\ 2 * x - 3 * A <= 1 /\ 0 - 1 <= 2 * x - 3 * A
    BY <1>1, <1>3, <1>10
  <2>2. H \in Int /\ 2 * H - A <= 1 /\ 0 - 1 <= 2 * H - A
    BY <1>1, <1>5, <1>10
  <2>3. N \in Int /\ 2 * N - B <= 1 /\ 0 - 1 <= 2 * N - B
    BY <1>1, <1>6, <1>10
  <2>4. again = IF 2 * x <= 3 * B THEN R ELSE N
    BY <1>3, <1>8, <1>10
  <2>5. CASE 2 * x <= 3 * B
    <3>1. again = R
      BY <2>4, <2>5
    <3>2. CASE hours <= night
      <4>1. first = H
        BY <1>7, <3>2
      <4>2. 6 * R - 6 * H <= 6 /\ 0 - 6 <= 6 * R - 6 * H
        BY <1>1, <1>4, <2>1, <2>2
      <4> QED BY <1>4, <2>2, <3>1, <4>1, <4>2
    <3>3. CASE hours > night
      <4>1. first = N
        BY <1>7, <3>3
      <4>2. A = B
        BY <1>1, <1>2, <2>1, <2>5, <3>3
      <4>3. 6 * R - 6 * N <= 6 /\ 0 - 6 <= 6 * R - 6 * N
        BY <1>1, <1>4, <2>1, <2>3, <4>2
      <4> QED BY <1>4, <2>3, <3>1, <4>1, <4>3
    <3> QED BY <3>2, <3>3
  <2>6. CASE ~(2 * x <= 3 * B)
    <3>1. again = N
      BY <2>4, <2>6
    <3>2. CASE hours <= night
      <4>1. first = H
        BY <1>7, <3>2
      <4>2. A = B
        BY <1>1, <1>2, <2>1, <2>6, <3>2
      <4> QED BY <1>1, <2>2, <2>3, <3>1, <4>1, <4>2
    <3>3. CASE hours > night
      BY <1>7, <2>3, <3>1, <3>3
    <3> QED BY <3>2, <3>3
  <2> QED BY <2>5, <2>6
<1>11. CASE d = 209
  BY <1>2, <1>3, <1>4, <1>5, <1>6, <1>7, <1>8, <1>9, <1>11, <1>1
<1> QED BY <1>1, <1>10, <1>11

-----------------------------------------------------------------------------
(* The parts of the pay *)

\* Sums of figures that differ in one place differ by as much.
LEMMA SumDiffersAt ==
    ASSUME NEW S, IsFiniteSet(S), NEW g, NEW h, NEW x0 \in S,
           \A x \in S : g[x] \in Int /\ h[x] \in Int,
           \A x \in S : x # x0 => g[x] = h[x]
    PROVE  /\ SumOf(g, S) \in Int /\ SumOf(h, S) \in Int
           /\ SumOf(g, S) - SumOf(h, S) = g[x0] - h[x0]
<1>1. PICK t : SumTable(t, g, S)
  BY SumTableExists
<1>2. PICK u : SumTable(u, h, S)
  BY SumTableExists
<1>3. SumOf(g, S) = t[S] /\ SumOf(h, S) = u[S]
  BY <1>1, <1>2, SumOfIsTable
<1> DEFINE T == S \ {x0}
<1>4. IsFiniteSet(T) /\ T \in SUBSET S /\ \A x \in T : g[x] = h[x] /\ g[x] \in Int
  BY FS_Subset
<1>5. PICK v : SumTable(v, g, T)
  BY <1>4, SumTableExists
<1>6. \A s \in SUBSET T : s \in SUBSET S
  OBVIOUS
<1>7. AddsUp(t, g, T) /\ AddsUp(u, g, T)
  <2>1. t[{}] = 0 /\ u[{}] = 0
    BY <1>1, <1>2 DEF SumTable
  <2>2. ASSUME NEW s \in SUBSET T, NEW x \in s
        PROVE  t[s] = g[x] + t[s \ {x}] /\ u[s] = g[x] + u[s \ {x}]
    BY <1>1, <1>2, <1>4, <1>6 DEF SumTable
  <2>3. \A s \in SUBSET T : s # {} => \E x \in s : x \in s
    OBVIOUS
  <2> HIDE DEF T
  <2> QED BY <2>1, <2>2, <2>3 DEF AddsUp
<1>8. t[T] = v[T] /\ u[T] = v[T]
  <2> HIDE DEF T
  <2> QED BY <1>4, <1>5, <1>7, SumTableUnique
<1>9. t[S] = g[x0] + t[T] /\ u[S] = h[x0] + u[T] /\ t[T] \in Int
  BY <1>1, <1>2, <1>4 DEF SumTable
<1> QED BY <1>3, <1>8, <1>9

\* The parts of the pay.
Parts == {"base", "fixed", "overtime", "night", "holiday", "overlap", "weekly", "meal",
          "transport", "other", "additional"}

\* They are finitely many.
LEMMA PartsFinite == IsFiniteSet(Parts)
<1>1. \A S, x : IsFiniteSet(S) => IsFiniteSet(S \cup {x})
  BY FS_AddElement
<1>2. Parts = (((((((((({"base"} \cup {"fixed"}) \cup {"overtime"}) \cup {"night"}) \cup {"holiday"})
               \cup {"overlap"}) \cup {"weekly"}) \cup {"meal"}) \cup {"transport"}) \cup {"other"})
               \cup {"additional"})
  BY DEF Parts
<1>3. IsFiniteSet({"base"})
  BY FS_Singleton
<1> QED BY <1>1, <1>2, <1>3

\* The input of the salary calculator, as SlipAssumption has it.
ASlip(in) ==
    in \in [base : Int, fixed : Int, hourly : Int, otHours : Nat, nightHours : Int,
           holidayHours : Int, otRaw : Int, nightRaw : Int, holidayRaw : Int,
           mealDays : Int, transport : Int, other : Int, additional : Int,
           weekHours : Int, presetPension : Int \cup {None}, presetHealth : Int \cup {None},
           presetTax : Int \cup {None}, exempt : BOOLEAN]

\* The hourly wage of a slip.
WageOfSlip(in) == OrdinaryHourly(in.base, in.fixed, in.hourly)

\* It is a wage.
LEMMA WageOf ==
    ASSUME NEW in, ASlip(in)
    PROVE  AWage(WageOfSlip(in))
BY DEF ASlip, AWage, OrdinaryHourly, WageOfSlip

\* A rounded figure is whole.
LEMMA RoundedInt ==
    ASSUME NEW a \in Int, NEW k \in Int, NEW d \in Int, d > 0
    PROVE  Rounded(a, k, d) \in Int
BY RoundedNearest

\* So is the third of a raw amount.
LEMMA ThirdInt == \A r \in Int : Rounded(r, 1, 3) \in Int
BY RoundedInt

\* The parts of the pay are whole.
LEMMA PartsAreFigures ==
    ASSUME NEW in, ASlip(in), NEW w, AWage(w), NEW meal \in Int
    PROVE  /\ DOMAIN EarningsAt(in, w, meal) = Parts
           /\ \A f \in Parts : EarningsAt(in, w, meal)[f] \in Int
<1>1. /\ in.base \in Int /\ in.fixed \in Int /\ in.otHours \in Int /\ in.nightHours \in Int
      /\ in.holidayHours \in Int /\ in.otRaw \in Int /\ in.nightRaw \in Int /\ in.holidayRaw \in Int
      /\ in.transport \in Int /\ in.other \in Int /\ in.additional \in Int /\ in.weekHours \in Int
  BY DEF ASlip
<1>2. \A hours, halves \in Int : HourPay(hours, w, halves) \in Int
  BY HourPayNearest
<1>3. \A amount, raw \in Int : AmountOrRaw(amount, raw, w) \in Int
  BY DEF AmountOrRaw
<1>4. OverlapPremium(in, w) \in Int
  <2> DEFINE night == Greatest(in.nightHours, 0)
             both == Least(Greatest(in.otHours, 0), night)
  <2>1. night \in Int /\ both \in Int
    BY <1>1 DEF Greatest, Least
  <2>2. Rounded(in.otRaw, 1, 3) \in Int
    BY <1>1, ThirdInt, Zenon
  <2>3. HourPay(both, w, 1) \in Int /\ HourPay(night, w, 1) \in Int
    <3> HIDE DEF both, night
    <3> QED BY <1>2, <2>1
  <2> QED BY <2>2, <2>3 DEF OverlapPremium
<1>5. WeeklyHolidayPay(w, in.weekHours) \in Int
  <2>1. Least(in.weekHours, 40) \in Int /\ 5 * w.den \in Nat \ {0} /\ w.num \in Int
    BY <1>1 DEF Least, AWage
  <2>2. \A num, d, k \in Int : d > 0 => Rounded(num, k, d) \in Int
    BY RoundedInt
  <2>3. 0 \in Int /\ 5 * w.den \in Int /\ 5 * w.den > 0
    BY <2>1
  <2>4. Rounded(w.num, Least(in.weekHours, 40), 5 * w.den) \in Int
    BY <2>1, <2>2, <2>3, Zenon
  <2> QED BY <2>3, <2>4 DEF WeeklyHolidayPay
<1>6. (IF in.base <= 0 /\ w.num > 0 THEN Rounded(w.num, 209, w.den) ELSE in.base) \in Int
  <2>1. w.num \in Int /\ w.den \in Nat \ {0}
    BY DEF AWage
  <2>2. \A num, d, k \in Int : d > 0 => Rounded(num, k, d) \in Int
    BY RoundedInt
  <2>3. w.den \in Int /\ w.den > 0 /\ 209 \in Int
    BY <2>1
  <2>4. Rounded(w.num, 209, w.den) \in Int
    BY <2>1, <2>2, <2>3, Zenon
  <2> QED BY <1>1, <2>4
<1>7. /\ HourPay(in.otHours, w, 3) \in Int /\ HourPay(in.nightHours, w, 1) \in Int
      /\ HourPay(in.holidayHours, w, 3) \in Int
  <2>1. 1 \in Int /\ 3 \in Int
    OBVIOUS
  <2> QED BY <1>1, <1>2, <2>1
<1>8. /\ AmountOrRaw(HourPay(in.otHours, w, 3), in.otRaw, w) \in Int
      /\ AmountOrRaw(HourPay(in.nightHours, w, 1), in.nightRaw, w) \in Int
      /\ AmountOrRaw(HourPay(in.holidayHours, w, 3), in.holidayRaw, w) \in Int
  BY <1>1, <1>3, <1>7
<1>9. DOMAIN EarningsAt(in, w, meal) = Parts
  BY DEF EarningsAt, Parts
<1> QED BY <1>1, <1>4, <1>5, <1>6, <1>8, <1>9 DEF EarningsAt, Parts

\* The gross is the sum of the parts.
LEMMA GrossIsSum ==
    ASSUME NEW parts, DOMAIN parts = Parts PROVE GrossOf(parts) = SumOf(parts, Parts)
BY DEF GrossOf, SumOf, MapThenSumSet, MapThenFoldSet

\* A slip with its overtime as a raw amount x.
WithRaw(in, x) == [in EXCEPT !.otHours = 0, !.otRaw = x]

\* The parts of the pay, of a slip and of the same with its overtime as a
\* raw amount.
LEMMA EarningsBack ==
    ASSUME NEW in, ASlip(in), NEW w, w = WageOfSlip(in),
           NEW meal \in Int,
           NEW first, first = EarningsAt(in, w, meal),
           NEW in2, in2 = WithRaw(in, first.overtime),
           NEW again, again = EarningsAt(in2, w, meal),
           ~IsLikelyHours(first.overtime, w)
    PROVE  /\ ASlip(in2)
           /\ \A f \in Parts : f # "overlap" => again[f] = first[f]
           /\ again["overlap"] - first["overlap"] \in -1..1
<1>1. AWage(w)
  BY WageOf
<1> DEFINE hours == in.otHours
           night == Greatest(in.nightHours, 0)
           paid == HourPay(hours, w, 3)
           x == AmountOrRaw(paid, in.otRaw, w)
<1>2. hours \in Nat /\ in.otRaw \in Int /\ night \in Nat /\ Greatest(hours, 0) = hours
  BY DEF ASlip, Greatest
<1>3. first.overtime = x
  BY DEF EarningsAt
<1>4. /\ x \in Nat /\ paid \in Nat
      /\ AmountOrRaw(HourPay(0, w, 3), x, w) = x
      /\ paid # 0 => x = paid
      /\ paid = 0 /\ x # 0 => x = in.otRaw
  <2> DEFINE raw == in.otRaw
  <2>1. raw \in Int /\ x = AmountOrRaw(HourPay(hours, w, 3), raw, w)
    BY <1>2
  <2>2. ~IsLikelyHours(x, w)
    BY <1>3
  <2> HIDE DEF hours, raw, x
  <2>3. /\ x \in Nat /\ HourPay(hours, w, 3) \in Nat
        /\ ~IsLikelyHours(x, w) => AmountOrRaw(HourPay(0, w, 3), x, w) = x
        /\ HourPay(hours, w, 3) # 0 => x = HourPay(hours, w, 3)
        /\ HourPay(hours, w, 3) = 0 /\ x # 0 => x = raw
    BY <1>1, <1>2, <2>1, OvertimeBack
  <2> QED BY <2>2, <2>3 DEF raw
<1>5. /\ in2.otHours = 0 /\ in2.otRaw = x
      /\ \A f \in {"base", "fixed", "hourly", "nightHours", "holidayHours", "nightRaw", "holidayRaw",
                   "mealDays", "transport", "other", "additional", "weekHours"} : in2[f] = in[f]
  BY <1>3 DEF ASlip, WithRaw
<1>6. ASlip(in2)
  <2>1. first.overtime \in Int
    BY <1>4, <1>3
  <2> HIDE DEF x
  <2> QED BY <2>1 DEF ASlip, WithRaw
<1>7. \A f \in Parts : f # "overlap" => again[f] = first[f]
  <2>1. again.overtime = first.overtime
    BY <1>4, <1>3, <1>5 DEF EarningsAt
  <2> HIDE DEF x
  <2>2. \A f \in Parts \ {"overlap", "overtime"} : again[f] = first[f]
    BY <1>5 DEF EarningsAt, Parts
  <2> QED BY <2>1, <2>2
<1>8. again["overlap"] - first["overlap"] \in -1..1
  <2> DEFINE one == OverlapPremium(in, w)
             two == OverlapPremium(in2, w)
  <2>1. first["overlap"] = one /\ again["overlap"] = two
    BY DEF EarningsAt
  <2>2. HourPay(0, w, 3) = 0 /\ paid \in Int
    <3>1. \A h \in Nat : HourPay(h, w, 3) \in Int
      BY <1>1, HourPayNearest
    <3> QED BY <1>1, <1>2, <3>1, NoHoursNoPay
  <2>3. one = IF ~ (x # paid /\ w.num > 0) THEN HourPay(Least(hours, night), w, 1)
              ELSE IF 2 * in.otRaw * w.den <= 3 * night * w.num THEN Rounded(in.otRaw, 1, 3)
              ELSE HourPay(night, w, 1)
    BY <1>2 DEF OverlapPremium
  <2>4. two = IF ~ (x # 0 /\ w.num > 0) THEN HourPay(Least(0, night), w, 1)
              ELSE IF 2 * x * w.den <= 3 * night * w.num THEN Rounded(x, 1, 3)
              ELSE HourPay(night, w, 1)
    <3>1. Greatest(0, 0) = 0 /\ Greatest(in2.nightHours, 0) = night
      BY <1>5 DEF Greatest
    <3> HIDE DEF night, x
    <3> QED BY <1>4, <1>5, <2>2, <3>1 DEF OverlapPremium
  <2>5. Least(0, night) = 0 /\ HourPay(0, w, 1) = 0 /\ Least(hours, night) \in Int
    BY <1>1, <1>2, NoHoursNoPay DEF Least
  <2> HIDE DEF one, two, x, paid, night
  <2>6. CASE w.num = 0
    <3>1. HourPay(Least(hours, night), w, 1) = 0
      BY <1>1, <2>5, <2>6, NoHoursNoPay
    <3> QED BY <2>1, <2>3, <2>4, <2>5, <2>6, <3>1
  <2>7. CASE w.num # 0 /\ paid = 0 /\ x # 0
    <3>1. w.num > 0
      BY <1>1, <2>7 DEF AWage
    <3>2. one = two
      BY <1>4, <2>3, <2>4, <2>7, <3>1
    <3>3. one \in Int
      <4>1. w.num \in Int /\ Rounded(in.otRaw, 1, 3) \in Int /\ HourPay(night, w, 1) \in Int
            /\ HourPay(Least(hours, night), w, 1) \in Int
        <5>1. \A h \in Int : HourPay(h, w, 1) \in Int
          BY <1>1, HourPayNearest
        <5>2. \A r \in Int : Rounded(r, 1, 3) \in Int
          BY ThirdInt
        <5>3. night \in Int
          BY <1>2
        <5>4. w.num \in Int
          BY <1>1 DEF AWage
        <5> QED BY <1>2, <2>5, <5>1, <5>2, <5>3, <5>4, Zenon
      <4> QED BY <4>1, <2>3
    <3> QED BY <2>1, <3>2, <3>3
  <2>8. CASE w.num # 0 /\ ~(paid = 0 /\ x # 0)
    <3>1. w.num > 0 /\ x = paid
      BY <1>1, <1>4, <2>8 DEF AWage
    <3>2. one = HourPay(Least(hours, night), w, 1)
      BY <2>3, <3>1
    <3>3. two = IF 2 * x * w.den <= 3 * night * w.num THEN Rounded(x, 1, 3) ELSE HourPay(night, w, 1)
      <4>1. CASE x # 0
        BY <2>4, <3>1, <4>1
      <4>2. CASE x = 0
        <5>1. two = 0
          BY <2>4, <2>5, <4>2
        <5>2. Rounded(0, 1, 3) = 0
          <6>1. /\ Rounded(0, 1, 3) \in Int
                /\ 2 * (3 * Rounded(0, 1, 3) - 0 * 1) <= 3
                /\ 0 - 3 <= 2 * (3 * Rounded(0, 1, 3) - 0 * 1)
            BY RoundedNearest
          <6> QED BY <6>1
        <5>3. 2 * x * w.den <= 3 * night * w.num
          <6>1. 3 * night * w.num >= 0 /\ 2 * x * w.den = 0
            BY <1>1, <1>2, <4>2 DEF AWage
          <6> QED BY <6>1
        <5> QED BY <4>2, <5>1, <5>2, <5>3
      <4> QED BY <4>1, <4>2
    <3>4. x = HourPay(hours, w, 3)
      BY <3>1 DEF paid
    <3>5. two - one \in -1..1
      BY <1>1, <1>2, <3>1, <3>2, <3>3, <3>4, OverlapBack
    <3> QED BY <2>1, <3>5
  <2> QED BY <2>6, <2>7, <2>8
<1> QED BY <1>6, <1>7, <1>8

-----------------------------------------------------------------------------
(* Income tax *)

\* The least of a set of numbers is in it.
LEMMA MinIn ==
    ASSUME NEW S \in SUBSET Nat, S # {}
    PROVE  Min(S) \in S /\ \A m \in S : Min(S) <= m
BY LeastNumber DEF Min

\* The tax of a bracket is nil or 8000 won at least.
LEMMA TableTax ==
    \A b \in DOMAIN SimplifiedTaxTable :
        SimplifiedTaxTable[b][2] \in Nat
        /\ (SimplifiedTaxTable[b][2] = 0 \/ SimplifiedTaxTable[b][2] >= 8000)
BY DEF SimplifiedTaxTable

\* So is the tax of the table, above its last bracket too.
LEMMA IncomeTaxLookup ==
    ASSUME NEW taxable \in Int
    PROVE  /\ LookupSimplifiedIncomeTax(taxable) \in Nat
           /\ \/ LookupSimplifiedIncomeTax(taxable) = 0
              \/ LookupSimplifiedIncomeTax(taxable) >= 8000
<1> DEFINE above == {b \in DOMAIN SimplifiedTaxTable : taxable <= SimplifiedTaxTable[b][1]}
           tax == LookupSimplifiedIncomeTax(taxable)
<1>1. CASE above # {}
  <2>1. above \subseteq Nat
    BY DEF SimplifiedTaxTable
  <2>2. Min(above) \in above
    <3> HIDE DEF above
    <3> QED BY <1>1, <2>1, MinIn
  <2>3. Min(above) \in DOMAIN SimplifiedTaxTable
    BY <2>2
  <2>4. tax = SimplifiedTaxTable[Min(above)][2]
    BY <1>1 DEF LookupSimplifiedIncomeTax
  <2> HIDE DEF above, tax
  <2>5. tax \in Nat /\ (tax = 0 \/ tax >= 8000)
    BY <2>3, <2>4, TableTax
  <2> QED BY <2>5 DEF tax
<1>2. CASE above = {}
  <2>1. 11 \in DOMAIN SimplifiedTaxTable /\ SimplifiedTaxTable[11][1] = 10000000
    BY DEF SimplifiedTaxTable
  <2>2. taxable > 10000000
    BY <1>2, <2>1
  <2>3. tax = Rounded(taxable - 1500000, 3, 100)
    BY <1>2, <2>2 DEF LookupSimplifiedIncomeTax, Greatest
  <2>4. /\ Rounded(taxable - 1500000, 3, 100) \in Int
        /\ 0 - 100 <= 2 * (100 * Rounded(taxable - 1500000, 3, 100) - (taxable - 1500000) * 3)
    BY RoundedNearest
  <2> HIDE DEF tax
  <2>5. tax \in Nat /\ tax >= 8000
    BY <2>2, <2>3, <2>4
  <2> QED BY <2>5 DEF tax
<1> QED BY <1>1, <1>2

\* The local tax of such a tax is positive, so that it counts as a preset.
LEMMA LocalTax ==
    ASSUME NEW tax \in Int, tax >= 8000
    PROVE  Rounded(tax, 1, 10) \in Int /\ Rounded(tax, 1, 10) > 0
<1>1. /\ Rounded(tax, 1, 10) \in Int
      /\ 0 - 10 <= 2 * (10 * Rounded(tax, 1, 10) - tax * 1)
  BY RoundedNearest
<1> QED BY <1>1

\* An income tax and its local tax, given back as presets, give the same tax.
LEMMA TaxBack ==
    ASSUME NEW taxable \in Int, NEW closed, closed = CalculateIncomeTax(taxable, None, None),
           NEW again, again = CalculateIncomeTax(taxable, closed.incomeTax, closed.localTax)
    PROVE  /\ again.incomeTax = closed.incomeTax /\ again.localTax = closed.localTax
           /\ again.total = closed.total
<1> DEFINE tax == LookupSimplifiedIncomeTax(taxable)
<1>1. tax \in Nat /\ (tax = 0 \/ tax >= 8000)
  BY IncomeTaxLookup
<1>2. ~ Preset(None) /\ \A n \in Int : Preset(n) <=> n > 0
  BY NoneAssumption DEF Preset
<1> HIDE DEF tax
<1>3. closed = IncomeTax(tax, Rounded(tax, 1, 10), "simplified_table")
  BY <1>2 DEF CalculateIncomeTax, tax
<1>4. closed.incomeTax = tax /\ closed.localTax = Rounded(tax, 1, 10)
      /\ closed.total = tax + Rounded(tax, 1, 10)
  BY <1>3 DEF IncomeTax
<1>5. CASE tax = 0
  <2>1. ~ Preset(closed.incomeTax)
    BY <1>2, <1>4, <1>5
  <2>2. again = closed
    BY <2>1, <1>3 DEF CalculateIncomeTax, tax
  <2> QED BY <2>2
<1>6. CASE tax >= 8000
  <2>1. Rounded(tax, 1, 10) \in Int /\ Rounded(tax, 1, 10) > 0
    BY <1>1, <1>6, LocalTax
  <2>2. Preset(closed.incomeTax) /\ Preset(closed.localTax)
    BY <1>1, <1>2, <1>4, <1>6, <2>1
  <2>3. again = IncomeTax(closed.incomeTax, closed.localTax, "preset")
    BY <2>2 DEF CalculateIncomeTax
  <2> QED BY <1>4, <2>3 DEF IncomeTax
<1> QED BY <1>1, <1>5, <1>6

-----------------------------------------------------------------------------
(* Insurance and deductions *)

\* The gross and the taxable pay are whole, and the gross is the sum of the
\* parts.
LEMMA EarningsFit ==
    ASSUME NEW in, ASlip(in)
    PROVE  /\ CalculateEarnings(in).gross \in Int /\ CalculateEarnings(in).taxable \in Int
           /\ CalculateEarnings(in).gross
                = SumOf(EarningsAt(in, WageOfSlip(in), 5500 * in.mealDays), Parts)
<1> DEFINE w == WageOfSlip(in)
           meal == 5500 * in.mealDays
           parts == EarningsAt(in, w, meal)
<1>1. AWage(w) /\ meal \in Int
  BY WageOf DEF ASlip
<1> HIDE DEF w, meal
<1>2. DOMAIN parts = Parts /\ \A f \in Parts : parts[f] \in Int
  BY <1>1, PartsAreFigures
<1>3. parts.meal = meal
  BY DEF EarningsAt
<1> HIDE DEF parts
<1>4. GrossOf(parts) = SumOf(parts, Parts)
  BY <1>2, GrossIsSum
<1>5. SumOf(parts, Parts) \in Int
  <2>1. PICK t : SumTable(t, parts, Parts)
    BY <1>2, PartsFinite, SumTableExists
  <2>2. SumOf(parts, Parts) = t[Parts]
    BY <2>1, PartsFinite, SumOfIsTable
  <2> QED BY <2>1, <2>2 DEF SumTable
<1>6. CalculateEarnings(in) = EarningsOf(parts, GrossOf(parts))
  BY DEF CalculateEarnings, WageOfSlip, parts, w, meal
<1>7. /\ CalculateEarnings(in).gross = SumOf(parts, Parts)
      /\ CalculateEarnings(in).taxable = SumOf(parts, Parts) - Least(meal, 200000)
  BY <1>3, <1>4, <1>6 DEF EarningsOf
<1>8. Least(meal, 200000) \in Int
  BY <1>1 DEF Least
<1> QED BY <1>5, <1>7, <1>8 DEF parts, w, meal

\* The insurance is whole.
LEMMA InsuranceTotal ==
    ASSUME NEW taxable \in Int, NEW pension \in Int \cup {None}, NEW health \in Int \cup {None},
           NEW exempt \in BOOLEAN
    PROVE  SocialInsurance(taxable, pension, health, exempt).total \in Int
<1> DEFINE p == IF Preset(pension) THEN pension
                ELSE Rounded(Least(Greatest(taxable, 390000), 6170000), 45, 1000)
           h == IF Preset(health) THEN health ELSE Rounded(taxable, 3545, 100000)
           c == Rounded(h, 1295, 10000)
           e == EmploymentInsurance(taxable)
<1>1. p \in Int
  <2>1. Least(Greatest(taxable, 390000), 6170000) \in Int
    BY DEF Least, Greatest
  <2>2. Rounded(Least(Greatest(taxable, 390000), 6170000), 45, 1000) \in Int
    BY <2>1, RoundedInt
  <2> QED BY <2>2 DEF Preset
<1>2. h \in Int
  <2>1. Rounded(taxable, 3545, 100000) \in Int
    BY RoundedInt
  <2> QED BY <2>1 DEF Preset
<1>3. c \in Int
  <2> HIDE DEF h
  <2> QED BY <1>2, RoundedInt
<1>4. e \in Int
  BY RoundedInt DEF EmploymentInsurance, RoundedTens
<1>5. SocialInsurance(taxable, pension, health, exempt).total = IF exempt THEN 0 ELSE p + h + c + e
  BY DEF SocialInsurance
<1> HIDE DEF p, h, c, e
<1> QED BY <1>1, <1>2, <1>3, <1>4, <1>5

\* A pension and a health premium, given back as presets, give the same
\* insurance: a premium that is not positive is computed again.
LEMMA InsuranceBack ==
    ASSUME NEW taxable, NEW pension, NEW health, NEW exempt \in BOOLEAN,
           NEW first, first = SocialInsurance(taxable, pension, health, exempt)
    PROVE  SocialInsurance(taxable, first.pension, first.health, exempt) = first
<1> DEFINE cp == Rounded(Least(Greatest(taxable, 390000), 6170000), 45, 1000)
           ch == Rounded(taxable, 3545, 100000)
           p == IF Preset(pension) THEN pension ELSE cp
           h == IF Preset(health) THEN health ELSE ch
<1>1. CASE exempt
  BY <1>1 DEF SocialInsurance
<1>2. CASE ~ exempt
  <2>1. first.pension = p /\ first.health = h
    BY <1>2 DEF SocialInsurance
  <2>2. (IF Preset(p) THEN p ELSE cp) = p /\ (IF Preset(h) THEN h ELSE ch) = h
    <3> HIDE DEF cp, ch
    <3> QED OBVIOUS
  <2> HIDE DEF p, h
  <2>3. (IF Preset(first.pension) THEN first.pension ELSE cp) = p
        /\ (IF Preset(first.health) THEN first.health ELSE ch) = h
    BY <2>1, <2>2
  <2> QED BY <1>2, <2>3 DEF SocialInsurance, p, h
<1> QED BY <1>1, <1>2

\* The salary engine's income tax, given back as a preset, gives the same tax.
LEMMA SalaryTaxBack ==
    ASSUME NEW taxable, NEW presetTax,
           NEW first, first = SalaryIncomeTax(taxable, presetTax),
           NEW again, again = SalaryIncomeTax(taxable, first.incomeTax)
    PROVE  /\ again.incomeTax = first.incomeTax /\ again.localTax = first.localTax
           /\ again.total = first.total
<1> DEFINE table == LookupSimplifiedIncomeTax(taxable)
           tax == IF Preset(presetTax) THEN presetTax ELSE table
<1>1. first.incomeTax = tax /\ first.localTax = Rounded(tax, 1, 10) /\ first.total = tax + Rounded(tax, 1, 10)
  BY DEF SalaryIncomeTax, IncomeTax
<1>2. (IF Preset(tax) THEN tax ELSE table) = tax
  <2> HIDE DEF table
  <2> QED OBVIOUS
<1> HIDE DEF tax
<1>3. (IF Preset(first.incomeTax) THEN first.incomeTax ELSE table) = tax
  BY <1>1, <1>2
<1>4. /\ again.incomeTax = tax /\ again.localTax = Rounded(tax, 1, 10)
      /\ again.total = tax + Rounded(tax, 1, 10)
  BY <1>3 DEF SalaryIncomeTax, IncomeTax
<1> QED BY <1>1, <1>4

\* The deduction engine's figures, given back, give the same deductions.
LEMMA DeductionsBack ==
    ASSUME NEW gross \in Int, NEW insurance \in Int,
           NEW books, books = [gross |-> gross, insurance |-> insurance, presetTax |-> None,
                               presetLocal |-> None, identity |-> 0]
    PROVE  DeductionsReproduce(books, FinalizeDeductions(books))
<1> DEFINE closed == FinalizeDeductions(books)
           given == [books EXCEPT !.presetTax = closed.incomeTax, !.presetLocal = closed.localTax]
           reopened == FinalizeDeductions(given)
           t == CalculateIncomeTax(gross - insurance, None, None)
           u == CalculateIncomeTax(gross - insurance, closed.incomeTax, closed.localTax)
<1>1. closed = [taxable |-> gross - insurance, incomeTax |-> t.incomeTax, localTax |-> t.localTax,
                taxTotal |-> t.total, totalDeduction |-> insurance + t.total + 0,
                net |-> gross - (insurance + t.total + 0), method |-> t.method]
  BY DEF FinalizeDeductions, Greatest
<1>2. closed.incomeTax = t.incomeTax /\ closed.localTax = t.localTax
  BY <1>1
<1> HIDE DEF t
<1>3. u.incomeTax = t.incomeTax /\ u.localTax = t.localTax /\ u.total = t.total
  <2>1. u = CalculateIncomeTax(gross - insurance, t.incomeTax, t.localTax)
    BY <1>2
  <2>2. gross - insurance \in Int
    OBVIOUS
  <2> HIDE DEF u
  <2> QED BY <2>1, <2>2, TaxBack DEF t
<1>4. /\ given.gross = gross /\ given.insurance = insurance /\ given.identity = 0
      /\ given.presetTax = closed.incomeTax /\ given.presetLocal = closed.localTax
  OBVIOUS
<1> HIDE DEF closed, given
<1>5. reopened = [taxable |-> gross - insurance, incomeTax |-> u.incomeTax, localTax |-> u.localTax,
                  taxTotal |-> u.total, totalDeduction |-> insurance + u.total + 0,
                  net |-> gross - (insurance + u.total + 0), method |-> u.method]
  BY <1>4 DEF FinalizeDeductions, Greatest
<1> HIDE DEF u, reopened
<1>6. [reopened EXCEPT !.method = closed.method] = closed
  BY <1>1, <1>3, <1>5
<1> QED BY <1>6 DEF DeductionsReproduce, closed, given, reopened

-----------------------------------------------------------------------------
(* A slip given back *)

\* A slip with presets.
WithPresets(in, p, h, t) == [in EXCEPT !.presetPension = p, !.presetHealth = h, !.presetTax = t]

\* Earnings read none of a slip's presets.
LEMMA EarningsOfPresets ==
    ASSUME NEW in, ASlip(in), NEW p, NEW h, NEW t,
           NEW in2, in2 = WithPresets(in, p, h, t)
    PROVE  /\ CalculateEarnings(in2) = CalculateEarnings(in)
           /\ in2.presetPension = p /\ in2.presetHealth = h /\ in2.presetTax = t
           /\ in2.exempt = in.exempt
<1>1. \A f \in {"base", "fixed", "hourly", "otHours", "nightHours", "holidayHours", "otRaw", "nightRaw",
                "holidayRaw", "mealDays", "transport", "other", "additional", "weekHours", "exempt"} :
         in2[f] = in[f]
  BY DEF ASlip, WithPresets
<1>2. in2.presetPension = p /\ in2.presetHealth = h /\ in2.presetTax = t
  BY DEF ASlip, WithPresets
<1>3. \A w : OverlapPremium(in2, w) = OverlapPremium(in, w)
  BY <1>1 DEF OverlapPremium
<1>4. \A w, meal : EarningsAt(in2, w, meal) = EarningsAt(in, w, meal)
  BY <1>1, <1>3 DEF EarningsAt
<1>5. CalculateEarnings(in2) = CalculateEarnings(in)
  <2>1. in2.base = in.base /\ in2.fixed = in.fixed /\ in2.hourly = in.hourly /\ in2.mealDays = in.mealDays
    BY <1>1
  <2> QED BY <1>4, <2>1 DEF CalculateEarnings
<1> QED BY <1>1, <1>2, <1>5

\* A slip with its own figures as presets is the same but for the method.
LEMMA PresetsBack ==
    ASSUME NEW in, ASlip(in), NEW first, first = CalculateSalary(in),
           NEW in2,
           in2 = WithPresets(in, first.insurance.pension, first.insurance.health, first.incomeTax)
    PROVE  [CalculateSalary(in2) EXCEPT !.method = first.method] = first
<1> DEFINE earned == CalculateEarnings(in)
           ins == SocialInsurance(earned.taxable, in.presetPension, in.presetHealth, in.exempt)
           tax == SalaryIncomeTax(earned.taxable, in.presetTax)
           tax2 == SalaryIncomeTax(earned.taxable, first.incomeTax)
           again == CalculateSalary(in2)
<1>1. first = PaySlip(earned, ins, tax)
  BY DEF CalculateSalary, SalaryFrom
<1>2. first.insurance = ins /\ first.incomeTax = tax.incomeTax
  BY <1>1 DEF PaySlip
<1>3. /\ CalculateEarnings(in2) = earned
      /\ in2.presetPension = ins.pension /\ in2.presetHealth = ins.health
      /\ in2.presetTax = first.incomeTax /\ in2.exempt = in.exempt
  <2>1. in2 = WithPresets(in, ins.pension, ins.health, first.incomeTax)
    BY <1>2
  <2> HIDE DEF ins, earned
  <2>2. /\ CalculateEarnings(in2) = CalculateEarnings(in)
        /\ in2.presetPension = ins.pension /\ in2.presetHealth = ins.health
        /\ in2.presetTax = first.incomeTax /\ in2.exempt = in.exempt
    BY <2>1, EarningsOfPresets
  <2> QED BY <2>2 DEF earned
<1>4. in.exempt \in BOOLEAN
  BY DEF ASlip
<1>5. SocialInsurance(earned.taxable, ins.pension, ins.health, in.exempt) = ins
  BY <1>4, InsuranceBack
<1>6. again = PaySlip(earned, ins, tax2)
  BY <1>3, <1>5 DEF CalculateSalary, SalaryFrom
<1>7. tax2.incomeTax = tax.incomeTax /\ tax2.localTax = tax.localTax /\ tax2.total = tax.total
  <2>1. tax2 = SalaryIncomeTax(earned.taxable, tax.incomeTax)
    BY <1>2
  <2> QED BY <2>1, SalaryTaxBack
<1> HIDE DEF earned, ins, tax, tax2, again
<1>8. [again EXCEPT !.method = first.method] = first
  BY <1>1, <1>6, <1>7 DEF PaySlip
<1> QED BY <1>8 DEF again

\* The figures of a slip reproduce it.
LEMMA SlipBack ==
    ASSUME NEW in, ASlip(in)
    PROVE  SlipReproduces(in, CalculateSalary(in))
<1> DEFINE w == WageOfSlip(in)
           meal == 5500 * in.mealDays
           parts == EarningsAt(in, w, meal)
           first == CalculateSalary(in)
           in2 == WithRaw(in, first.earnings.overtime)
           parts2 == EarningsAt(in2, w, meal)
           raw == CalculateEarnings(in2)
<1>1. [CalculateSalary([in EXCEPT !.presetPension = first.insurance.pension,
                                  !.presetHealth = first.insurance.health,
                                  !.presetTax = first.incomeTax]) EXCEPT !.method = first.method] = first
  <2>1. PICK given :
          given = WithPresets(in, first.insurance.pension, first.insurance.health, first.incomeTax)
    OBVIOUS
  <2>2. first = CalculateSalary(in)
    OBVIOUS
  <2> HIDE DEF first
  <2>3. [CalculateSalary(given) EXCEPT !.method = first.method] = first
    BY <2>1, <2>2, PresetsBack
  <2> QED BY <2>1, <2>3 DEF WithPresets
<1>2. AWage(w) /\ meal \in Int
  BY WageOf DEF ASlip
<1>3. first.earnings = parts /\ first.gross = SumOf(parts, Parts)
  <2>1. CalculateEarnings(in).earnings = parts
    BY DEF CalculateEarnings, EarningsOf, WageOfSlip
  <2>2. CalculateEarnings(in).gross = SumOf(parts, Parts)
    BY EarningsFit
  <2>3. first.earnings = CalculateEarnings(in).earnings /\ first.gross = CalculateEarnings(in).gross
    BY DEF CalculateSalary, SalaryFrom, PaySlip
  <2> QED BY <2>1, <2>2, <2>3
<1>4. ASSUME ~IsLikelyHours(first.earnings.overtime, w)
      PROVE  raw.gross - first.gross \in -1..1
  <2>1. /\ ASlip(in2)
        /\ \A f \in Parts : f # "overlap" => parts2[f] = parts[f]
        /\ parts2["overlap"] - parts["overlap"] \in -1..1
    <3>1. in2 = WithRaw(in, parts.overtime) /\ ~IsLikelyHours(parts.overtime, w)
      BY <1>3, <1>4
    <3>2. w = WageOfSlip(in)
      OBVIOUS
    <3> HIDE DEF w, meal, in2
    <3>3. parts = EarningsAt(in, w, meal) /\ parts2 = EarningsAt(in2, w, meal)
      OBVIOUS
    <3> HIDE DEF parts, parts2
    <3>4. ASlip(in2)
      BY <1>2, <3>1, <3>2, <3>3, EarningsBack
    <3>5. \A f \in Parts : f # "overlap" => parts2[f] = parts[f]
      BY <1>2, <3>1, <3>2, <3>3, EarningsBack
    <3>6. parts2["overlap"] - parts["overlap"] \in -1..1
      BY <1>2, <3>1, <3>2, <3>3, EarningsBack
    <3> QED BY <3>4, <3>5, <3>6
  <2>2. /\ in2.base = in.base /\ in2.fixed = in.fixed /\ in2.hourly = in.hourly
        /\ in2.mealDays = in.mealDays
    BY DEF ASlip, WithRaw
  <2>3. raw.gross = SumOf(parts2, Parts)
    <3>1. raw.gross = SumOf(EarningsAt(in2, WageOfSlip(in2), 5500 * in2.mealDays), Parts)
      <4> HIDE DEF in2
      <4> QED BY <2>1, EarningsFit
    <3> QED BY <2>2, <3>1 DEF WageOfSlip
  <2>4. /\ \A f \in Parts : parts[f] \in Int
        /\ \A f \in Parts : parts2[f] \in Int
    <3> HIDE DEF in2, w, meal
    <3> QED BY <1>2, <2>1, PartsAreFigures
  <2> HIDE DEF parts, parts2, raw, first, in2, w, meal
  <2>5. "overlap" \in Parts
    BY DEF Parts
  <2>6. SumOf(parts2, Parts) - SumOf(parts, Parts) = parts2["overlap"] - parts["overlap"]
    BY <2>1, <2>4, <2>5, PartsFinite, SumDiffersAt
  <2> QED BY <1>3, <2>1, <2>3, <2>6
<1> HIDE DEF raw, first, w
<1> QED BY <1>1, <1>4 DEF SlipReproduces, raw, first, in2, w, WithRaw, WageOfSlip

\* The deductions of its gross reproduce too.
LEMMA BooksBack ==
    ASSUME NEW in, ASlip(in)
    PROVE  LET books == Books(CalculateSalary(in))
           IN  DeductionsReproduce(books, FinalizeDeductions(books))
<1> DEFINE earned == CalculateEarnings(in)
           ins == SocialInsurance(earned.taxable, in.presetPension, in.presetHealth, in.exempt)
           first == CalculateSalary(in)
<1>1. first.gross = earned.gross /\ first.insurance = ins
  BY DEF CalculateSalary, SalaryFrom, PaySlip
<1>2. earned.gross \in Int /\ earned.taxable \in Int
  BY EarningsFit
<1>3. ins.total \in Int
  <2>1. in.presetPension \in Int \cup {None} /\ in.presetHealth \in Int \cup {None} /\ in.exempt \in BOOLEAN
    BY DEF ASlip
  <2> HIDE DEF earned
  <2> QED BY <1>2, <2>1, InsuranceTotal
<1>4. Books(first) = [gross |-> earned.gross, insurance |-> ins.total, presetTax |-> None,
                      presetLocal |-> None, identity |-> 0]
  BY <1>1 DEF Books
<1> HIDE DEF earned, ins, first
<1>5. DeductionsReproduce(Books(first), FinalizeDeductions(Books(first)))
  BY <1>2, <1>3, <1>4, DeductionsBack
<1> QED BY <1>5 DEF first

-----------------------------------------------------------------------------
(* Attendance rows *)

\* The kinds of a row's figures.
Kinds == HourKind \cup {"leave", "unpaid"}

\* A multiple that is taken for nearest is no further than half of d away.
LEMMA NearestIs ==
    ASSUME NEW d \in Nat \ {0}, NEW t \in Int, NEW k \in Nearest(t, d)
    PROVE  /\ k \in Int /\ k * d \in Int
           /\ 2 * (k * d - t) <= d /\ 0 - d <= 2 * (k * d - t)
           /\ t >= 0 => k >= 0
<1>1. t \div d \in Int /\ t % d \in 0..(d - 1) /\ t = d * (t \div d) + (t % d)
  BY DivMod
<1>2. k \in {t \div d, t \div d + 1} /\ 2 * (k * d - t) \in (0 - d)..d
  BY DEF Nearest
<1>3. k \in Int /\ k * d \in Int
  BY <1>1, <1>2
<1>4. 2 * (k * d - t) <= d /\ 0 - d <= 2 * (k * d - t)
  BY <1>2, <1>3
<1>5. ASSUME t >= 0 PROVE k >= 0
  <2>1. SUFFICES ASSUME k <= -1 PROVE FALSE
    BY <1>3
  <2>2. PICK q, s : q = t \div d /\ s = t % d
    OBVIOUS
  <2>3. q \in Int /\ s \in 0..(d - 1) /\ t = d * q + s /\ q <= -1
    BY <1>1, <1>2, <2>1, <2>2
  <2>4. d * q <= 0 - d /\ d * q \in Int
    BY <2>3
  <2> QED BY <1>5, <2>3, <2>4
<1> QED BY <1>3, <1>4, <1>5

\* There are two of them only midway.
LEMMA TwoNearest ==
    ASSUME NEW d \in Nat \ {0}, NEW t \in Int, NEW j \in Nearest(t, d), NEW k \in Nearest(t, d),
           j # k
    PROVE  2 * (t % d) = d
<1>1. PICK q, s : q = t \div d /\ s = t % d
  OBVIOUS
<1>2. q \in Int /\ s \in 0..(d - 1) /\ t = d * q + s
  BY <1>1, DivMod
<1>3. q \in Nearest(t, d) /\ q + 1 \in Nearest(t, d)
  BY <1>1 DEF Nearest
<1>4. 0 - d <= 2 * (q * d - t) /\ 2 * ((q + 1) * d - t) <= d
  BY <1>3, NearestIs
<1>5. q * d = d * q /\ (q + 1) * d = d * q + d /\ d * q \in Int
  BY <1>2
<1>6. q * d - t = 0 - s /\ (q + 1) * d - t = d - s
  BY <1>2, <1>5
<1>7. 0 - d <= 0 - 2 * s /\ 2 * d - 2 * s <= d
  BY <1>2, <1>4, <1>6
<1>8. 2 * s = d
  BY <1>2, <1>7
<1> QED BY <1>1, <1>8

\* A figure a tick from a multiple has that multiple alone.
LEMMA OneNearest ==
    ASSUME NEW d \in Nat, d >= 500, NEW k \in Int, NEW h \in Int, h - k * d \in -1..1
    PROVE  Nearest(h, d) = {k}
<1>1. k * d \in Int /\ d * k = k * d /\ d * (k - 1) = k * d - d /\ (k - 1) * d = k * d - d
      /\ (k + 1) * d = k * d + d
  OBVIOUS
<1>2. CASE h - k * d \in 0..1
  <2>1. h = d * k + (h - k * d) /\ h - k * d \in 0..(d - 1)
    BY <1>1, <1>2
  <2>2. h \div d = k
    BY <2>1, DivModIs
  <2>3. 2 * (k * d - h) \in (0 - d)..d /\ 2 * ((k + 1) * d - h) \notin (0 - d)..d
    BY <1>1, <1>2
  <2> QED BY <2>2, <2>3 DEF Nearest
<1>3. CASE h - k * d = -1
  <2>1. h = d * (k - 1) + (d - 1) /\ d - 1 \in 0..(d - 1) /\ k - 1 \in Int
    BY <1>1, <1>3
  <2>2. h \div d = k - 1
    BY <2>1, DivModIs
  <2>3. 2 * (k * d - h) \in (0 - d)..d /\ 2 * ((k - 1) * d - h) \notin (0 - d)..d
    BY <1>1, <1>3
  <2>4. (k - 1) + 1 = k
    OBVIOUS
  <2> QED BY <2>2, <2>3, <2>4 DEF Nearest
<1> QED BY <1>2, <1>3

\* The hours that k units of u minutes come to.
HoursOf(k, u) == 3 * Rounded(k * u, 500, 3)

\* They are a tick from them at most.
LEMMA UnitsInHours ==
    ASSUME NEW u \in Nat \ {0}, NEW k \in Nat
    PROVE  HoursOf(k, u) \in Int /\ HoursOf(k, u) - k * (500 * u) \in -1..1
<1>1. PICK a \in Int : a = k * u
  OBVIOUS
<1>2. /\ Rounded(a, 500, 3) \in Int
      /\ 2 * (3 * Rounded(a, 500, 3) - a * 500) <= 3
      /\ 0 - 3 <= 2 * (3 * Rounded(a, 500, 3) - a * 500)
  BY RoundedNearest
<1>3. a * 500 = k * (500 * u) /\ k * (500 * u) \in Int
  BY <1>1
<1>4. HoursOf(k, u) = 3 * Rounded(a, 500, 3)
  BY <1>1 DEF HoursOf
<1> QED BY <1>2, <1>3, <1>4

\* Rounding to a unit is half a unit off at most, and one tick that the
\* decimals take; rounding again changes nothing; only midway between two
\* units are there two outcomes.
LEMMA RoundedOnce ==
    ASSUME NEW u \in Nat \ {0}, NEW t \in Int, NEW h \in RoundedHours(t, u)
    PROVE  /\ h \in Nat
           /\ RoundedHours(h, u) = {h}
           /\ t >= 0 => 2 * (h - t) \in (0 - (Ticks(u) + 2))..(Ticks(u) + 2)
           /\ \A g \in RoundedHours(t, u) : g = h \/ Midway(t, u)
<1> DEFINE d == 500 * u
<1>1. Greatest(u, 1) = u /\ Ticks(u) = d /\ d \in Nat \ {0} /\ d >= 500
  BY DEF Greatest, Ticks
<1>2. \A x : RoundedHours(x, u) = IF x <= 0 THEN {0} ELSE {HoursOf(k, u) : k \in Nearest(x, d)}
  BY <1>1 DEF RoundedHours, HoursOf
<1> HIDE DEF d
<1>3. CASE t <= 0
  <2>1. h = 0 /\ RoundedHours(t, u) = {0} /\ RoundedHours(0, u) = {0}
    BY <1>2, <1>3
  <2> QED BY <1>1, <1>3, <2>1
<1>4. CASE t > 0
  <2>1. RoundedHours(t, u) = {HoursOf(k, u) : k \in Nearest(t, d)}
    BY <1>2, <1>4
  <2>2. PICK k \in Nearest(t, d) : h = HoursOf(k, u)
    BY <2>1
  <2>3. k \in Nat /\ k * d \in Int /\ 2 * (k * d - t) <= d /\ 0 - d <= 2 * (k * d - t)
    BY <1>1, <1>4, NearestIs
  <2>4. h \in Int /\ h - k * d \in -1..1
    BY <2>2, <2>3, UnitsInHours DEF d
  <2>5. h \in Nat /\ RoundedHours(h, u) = {h}
    <3>1. CASE k = 0
      <4>1. h = 3 * Rounded(0, 500, 3)
        <5>1. k * u = 0
          BY <3>1
        <5> QED BY <2>2, <5>1 DEF HoursOf
      <4>2. Rounded(0, 500, 3) \in Int /\ k * d = 0
        BY <1>1, <3>1, RoundedNearest
      <4>3. h = 0
        BY <2>4, <4>1, <4>2
      <4> QED BY <1>2, <4>3
    <3>2. CASE k > 0
      <4>1. k * d >= d
        BY <1>1, <2>3, <3>2
      <4>2. h > 0
        BY <1>1, <2>3, <2>4, <4>1
      <4>3. Nearest(h, d) = {k}
        BY <1>1, <2>3, <2>4, OneNearest
      <4>4. RoundedHours(h, u) = {HoursOf(j, u) : j \in {k}}
        BY <1>2, <2>4, <4>2, <4>3
      <4> QED BY <2>2, <2>4, <4>2, <4>4
    <3> QED BY <2>3, <3>1, <3>2
  <2>6. 2 * (h - t) \in (0 - (d + 2))..(d + 2)
    BY <1>1, <2>3, <2>4
  <2>7. \A g \in RoundedHours(t, u) : g = h \/ Midway(t, u)
    <3> SUFFICES ASSUME NEW j \in Nearest(t, d), HoursOf(j, u) # h PROVE Midway(t, u)
      BY <2>1
    <3>1. j # k
      BY <2>2
    <3>2. 2 * (t % d) = d
      BY <1>1, <3>1, TwoNearest
    <3> QED BY <1>1, <3>2 DEF Midway
  <2> QED BY <1>1, <2>5, <2>6, <2>7
<1> QED BY <1>3, <1>4

\* Records and a policy as they are given to the calculator.
SomeRecords(R) ==
    /\ Len(R) \in Nat /\ DOMAIN R = 1..Len(R)
    /\ \A n \in DOMAIN R :
          \A f \in {"work", "overtime", "night", "special", "late", "early", "leave", "unpaid"} :
              R[n][f] \in Int

\* A normalised policy.
APolicy(p) ==
    /\ p.rounding \in Nat \ {0} /\ p.late \in Nat /\ p.early \in Nat

\* A record counts for whole ticks.
LEMMA CountedInt ==
    ASSUME NEW R, SomeRecords(R), NEW p, APolicy(p), NEW n \in DOMAIN R, NEW f \in Kinds
    PROVE  Counted(R[n], p)[f] \in Int
<1> DEFINE r == R[n]
<1>1. /\ r.work \in Int /\ r.overtime \in Int /\ r.night \in Int /\ r.special \in Int
      /\ r.late \in Int /\ r.early \in Int /\ r.leave \in Int /\ r.unpaid \in Int
  BY DEF SomeRecords
<1>2. Ticks(p.late) \in Nat /\ Ticks(p.early) \in Nat
  BY DEF APolicy, Ticks
<1> HIDE DEF r
<1>3. PastGrace(r.early, p.early) \in Int /\ PastGrace(r.late, p.late) \in Int
  BY <1>1, <1>2 DEF PastGrace, Greatest
<1>4. Greatest(r.work, 0) \in Int
  BY <1>1 DEF Greatest
<1>5. Counted(r, p)[f] \in Int
  BY <1>1, <1>3, <1>4 DEF Counted, Kinds, HourKind
<1> QED BY <1>5 DEF r

\* A sum of whole figures is whole.
LEMMA SumInt ==
    ASSUME NEW S, IsFiniteSet(S), NEW g, \A x \in S : g[x] \in Int
    PROVE  SumOf(g, S) \in Int
<1>1. PICK t : SumTable(t, g, S)
  BY SumTableExists
<1>2. SumOf(g, S) = t[S]
  BY <1>1, SumOfIsTable
<1> QED BY <1>1, <1>2 DEF SumTable

\* The sum of one figure is the figure.
LEMMA SumSingle ==
    ASSUME NEW x, NEW g, g[x] \in Int
    PROVE  SumOf(g, {x}) = g[x]
<1> DEFINE S == {x}
<1>1. IsFiniteSet(S)
  BY FS_Singleton
<1>2. PICK t : SumTable(t, g, S)
  BY <1>1, SumTableExists
<1>3. SumOf(g, S) = t[S]
  BY <1>1, <1>2, SumOfIsTable
<1>4. t[S] = g[x] + t[S \ {x}] /\ S \ {x} = {} /\ t[{}] = 0
  BY <1>2 DEF SumTable
<1> QED BY <1>3, <1>4

\* A sum of figures that are not negative is not negative.
LEMMA SumNat ==
    ASSUME NEW S, IsFiniteSet(S), NEW g, \A x \in S : g[x] \in Nat
    PROVE  SumOf(g, S) \in Nat
<1>1. PICK t : SumTable(t, g, S)
  BY SumTableExists
<1>2. SumOf(g, S) = t[S]
  BY <1>1, SumOfIsTable
<1> DEFINE B == {s \in SUBSET S : t[s] \notin Nat}
<1>3. B = {}
  <2> SUFFICES ASSUME B # {} PROVE FALSE
    OBVIOUS
  <2>1. PICK s \in B : \A u \in B : u \subseteq s => u = s
    <3> HIDE DEF B
    <3>1. B \in SUBSET (SUBSET S)
      BY DEF B
    <3> QED BY <3>1, SmallestSubset
  <2>2. CASE s = {}
    BY <1>1, <2>1, <2>2 DEF SumTable
  <2>3. CASE s # {}
    <3>1. PICK x \in s : TRUE
      BY <2>3
    <3>2. t[s \ {x}] \in Nat
      BY <2>1, <3>1
    <3>3. t[s] = g[x] + t[s \ {x}] /\ g[x] \in Nat
      BY <1>1, <2>1, <3>1 DEF SumTable
    <3> QED BY <2>1, <3>2, <3>3
  <2> QED BY <2>2, <2>3
<1> QED BY <1>2, <1>3

\* A sum is the same when its elements get other names.
LEMMA SumRenamed ==
    ASSUME NEW S, IsFiniteSet(S), NEW k, \A x, y \in S : k[x] = k[y] => x = y,
           NEW g, \A x \in S : g[x] \in Int,
           NEW T, T = {k[x] : x \in S}, IsFiniteSet(T),
           NEW l, \A x \in S : l[k[x]] = g[x]
    PROVE  SumOf(l, T) = SumOf(g, S)
<1>1. \A y \in T : l[y] \in Int
  OBVIOUS
<1>2. PICK t : SumTable(t, g, S)
  BY SumTableExists
<1>3. PICK u : SumTable(u, l, T)
  BY <1>1, SumTableExists
<1>4. SumOf(g, S) = t[S] /\ SumOf(l, T) = u[T]
  BY <1>2, <1>3, SumOfIsTable
<1>5. t[S] = u[T]
  BY <1>2, <1>3, RenamedSum
<1> QED BY <1>4, <1>5

\* The keys of the records, a row for each.
Keys(R) == {AttendanceKey(R[n]) : n \in DOMAIN R} \ {None}

\* The records behind a row are some of the records, and finitely many.
LEMMA GroupIs ==
    ASSUME NEW R, SomeRecords(R), NEW k \in Keys(R)
    PROVE  /\ GroupOf(R, k) \subseteq DOMAIN R /\ IsFiniteSet(GroupOf(R, k))
           /\ GroupOf(R, k) # {} /\ GroupOf(R, k) \subseteq Nat
<1>1. GroupOf(R, k) \subseteq DOMAIN R /\ GroupOf(R, k) # {}
  BY DEF GroupOf, Keys
<1>2. IsFiniteSet(DOMAIN R) /\ DOMAIN R \subseteq Nat
  BY UpTo DEF SomeRecords
<1> QED BY <1>1, <1>2, FS_Subset

\* A row of a group, figure by figure.
IsRow(row, R, wp, p, k) ==
    LET G == GroupOf(R, k)
        first == R[Min(G)]
    IN  /\ row = [name |-> first.name,
                  workplace |-> IF first.workplace = None THEN wp ELSE first.workplace,
                  work |-> row.work, overtime |-> row.overtime, night |-> row.night,
                  special |-> row.special, early |-> row.early,
                  leave |-> TotalOf(R, p, "leave", G), unpaid |-> TotalOf(R, p, "unpaid", G),
                  days |-> Cardinality(G)]
        /\ \A f \in HourKind : row[f] \in RoundedHours(TotalOf(R, p, f, G), p.rounding)

LEMMA RowIs ==
    ASSUME NEW R, NEW wp, NEW p, NEW k \in Keys(R), NEW row \in AggregateAttendance(R, wp, p)[k]
    PROVE  IsRow(row, R, wp, p, k)
<1> DEFINE G == GroupOf(R, k)
           first == R[Min(G)]
           workplace == IF first.workplace = None THEN wp ELSE first.workplace
           hours(f) == RoundedHours(TotalOf(R, p, f, G), p.rounding)
<1>1. row \in InvoiceRows(R, G, wp, p)
  BY DEF AggregateAttendance, Keys
<1>2. PICK work \in hours("work"), overtime \in hours("overtime"), night \in hours("night"),
           special \in hours("special"), early \in hours("early") :
          row = [name |-> first.name, workplace |-> workplace,
                 work |-> work, overtime |-> overtime, night |-> night, special |-> special,
                 early |-> early, leave |-> TotalOf(R, p, "leave", G),
                 unpaid |-> TotalOf(R, p, "unpaid", G), days |-> Cardinality(G)]
  BY <1>1 DEF InvoiceRows
<1> HIDE DEF G, first, workplace, hours
<1>3. /\ row.work = work /\ row.overtime = overtime /\ row.night = night
      /\ row.special = special /\ row.early = early
      /\ row["work"] = work /\ row["overtime"] = overtime /\ row["night"] = night
      /\ row["special"] = special /\ row["early"] = early
  BY <1>2
<1>4. \A f \in HourKind : row[f] \in hours(f)
  BY <1>3 DEF HourKind
<1> QED BY <1>2, <1>3, <1>4 DEF IsRow, G, first, workplace, hours

\* There is an entry per key.
LEMMA RowKeys ==
    ASSUME NEW R, NEW wp, NEW p
    PROVE  DOMAIN AggregateAttendance(R, wp, p) = Keys(R)
BY DEF AggregateAttendance, Keys

\* A total is whole.
LEMMA TotalInt ==
    ASSUME NEW R, SomeRecords(R), NEW p, APolicy(p), NEW k \in Keys(R), NEW f \in Kinds
    PROVE  TotalOf(R, p, f, GroupOf(R, k)) \in Int
<1> DEFINE G == GroupOf(R, k)
           g == [n \in G |-> Counted(R[n], p)[f]]
<1>1. IsFiniteSet(G) /\ G \subseteq DOMAIN R
  BY GroupIs
<1>2. \A n \in G : g[n] \in Int
  BY <1>1, CountedInt
<1> HIDE DEF G, g
<1>3. SumOf(g, G) \in Int
  BY <1>1, <1>2, SumInt
<1> QED BY <1>3 DEF TotalOf, G, g

\* A row is off by half a unit and a tick at most, however many records are
\* behind it.
LEMMA HalfOff ==
    ASSUME NEW R, SomeRecords(R), NEW wp, NEW p, APolicy(p)
    PROVE  HalfAUnitOff(AggregateAttendance(R, wp, p), R, p.rounding)
<1> DEFINE rs == AggregateAttendance(R, wp, p)
           u == p.rounding
<1> SUFFICES ASSUME NEW k \in DOMAIN rs, NEW row \in rs[k]
             PROVE  LET worked == [n \in GroupOf(R, k) |-> Greatest(R[n].work, 0)]
                        off    == row.work - SumOf(worked, DOMAIN worked)
                    IN  2 * off \in (0 - (Ticks(u) + 2))..(Ticks(u) + 2)
  BY DEF HalfAUnitOff
<1> DEFINE G == GroupOf(R, k)
           worked == [n \in G |-> Greatest(R[n].work, 0)]
           m == SumOf(worked, G)
<1>1. k \in Keys(R)
  BY RowKeys
<1>2. IsFiniteSet(G) /\ G \subseteq DOMAIN R
  BY <1>1, GroupIs
<1>3. \A n \in G : worked[n] \in Nat
  BY <1>2 DEF SomeRecords, Greatest
<1>4. m \in Nat
  <2> HIDE DEF G, worked
  <2> QED BY <1>2, <1>3, SumNat
<1>5. worked = [n \in G |-> Counted(R[n], p)["work"]]
  BY DEF Counted
<1>6. row.work \in RoundedHours(m, u)
  <2>1. IsRow(row, R, wp, p, k)
    BY <1>1, RowIs
  <2>2. row["work"] \in RoundedHours(TotalOf(R, p, "work", G), u)
    BY <2>1 DEF IsRow, HourKind
  <2>3. TotalOf(R, p, "work", G) = m
    BY <1>5 DEF TotalOf
  <2> HIDE DEF G, worked, m, u
  <2> QED BY <2>2, <2>3
<1>7. u \in Nat \ {0}
  BY DEF APolicy
<1> HIDE DEF m, u, rs
<1>8. 2 * (row.work - m) \in (0 - (Ticks(u) + 2))..(Ticks(u) + 2)
  <2>1. PICK h : h = row.work
    OBVIOUS
  <2> QED BY <1>4, <1>6, <1>7, <2>1, RoundedOnce
<1>9. DOMAIN worked = G
  OBVIOUS
<1> QED BY <1>8, <1>9 DEF m

-----------------------------------------------------------------------------
(* Records turned round *)

\* The place of a record in the records turned round.
Mirror(n) == [i \in 1..n |-> n - i + 1]

\* The records R turned round are R2, each found where mir says.
TurnsInto(R, R2, mir) ==
    /\ SomeRecords(R2) /\ Keys(R2) = Keys(R) /\ DOMAIN R2 = DOMAIN R
    /\ \A i \in DOMAIN R : mir[i] \in DOMAIN R /\ mir[mir[i]] = i /\ R2[mir[i]] = R[i]

\* Turning records round is such a renaming of their places.
LEMMA Turned ==
    ASSUME NEW R, SomeRecords(R)
    PROVE  TurnsInto(R, Reverse(R), Mirror(Len(R)))
<1> DEFINE n == Len(R)
           R2 == Reverse(R)
           mir == Mirror(n)
<1>1. n \in Nat /\ DOMAIN R = 1..n
  BY DEF SomeRecords
<1>2. R2 = [i \in 1..n |-> R[(n - i) + 1]]
  BY DEF Reverse
<1>3. DOMAIN R2 = 1..n /\ Len(R2) = n
  BY <1>1, <1>2
<1>4. \A i \in 1..n : n - i + 1 \in 1..n /\ (n - (n - i + 1)) + 1 = i
  BY <1>1
<1>5. \A i \in 1..n : mir[i] = n - i + 1 /\ R2[i] = R[n - i + 1]
  BY <1>2 DEF Mirror
<1> HIDE DEF n, R2, mir
<1>6. \A i \in DOMAIN R : mir[i] \in DOMAIN R /\ mir[mir[i]] = i
  BY <1>1, <1>4, <1>5
<1>7. \A i \in DOMAIN R : R2[mir[i]] = R[i]
  BY <1>1, <1>4, <1>5
<1>8. \A i \in DOMAIN R : R2[i] = R[mir[i]] /\ mir[i] \in DOMAIN R
  BY <1>1, <1>4, <1>5
<1>9. SomeRecords(R2)
  BY <1>1, <1>3, <1>8 DEF SomeRecords
<1>10. Keys(R2) = Keys(R)
  BY <1>1, <1>3, <1>6, <1>7, <1>8 DEF Keys
<1>11. TurnsInto(R, R2, mir)
  BY <1>1, <1>3, <1>6, <1>7, <1>9, <1>10 DEF TurnsInto
<1> QED BY <1>11 DEF n, R2, mir

\* Renaming the elements of a set does not change their number.
LEMMA SameCount ==
    ASSUME NEW S, IsFiniteSet(S), NEW k, \A x, y \in S : k[x] = k[y] => x = y,
           NEW T, T = {k[x] : x \in S}
    PROVE  IsFiniteSet(T) /\ Cardinality(T) = Cardinality(S)
<1> DEFINE f == [x \in S |-> k[x]]
<1>1. f \in [S -> T] /\ \A a, b \in S : f[a] = f[b] => a = b
  OBVIOUS
<1>2. \A y \in T : \E s \in S : f[s] = y
  OBVIOUS
<1> HIDE DEF f
<1>3. f \in Bijection(S, T)
  BY <1>1, <1>2 DEF Bijection, Injection, Surjection, IsInjective
<1>4. ExistsBijection(S, T)
  BY <1>3 DEF ExistsBijection
<1> QED BY <1>4, FS_Bijection

\* The records behind a row, turned round, are the same.
LEMMA TurnedGroup ==
    ASSUME NEW R, NEW R2, NEW mir, TurnsInto(R, R2, mir), NEW k
    PROVE  GroupOf(R2, k) = {mir[i] : i \in GroupOf(R, k)}
<1>1. /\ DOMAIN R2 = DOMAIN R
      /\ \A i \in DOMAIN R : mir[i] \in DOMAIN R /\ mir[mir[i]] = i /\ R2[mir[i]] = R[i]
  BY DEF TurnsInto
<1>2. ASSUME NEW j \in GroupOf(R2, k) PROVE mir[j] \in GroupOf(R, k) /\ mir[mir[j]] = j
  <2>1. j \in DOMAIN R /\ AttendanceKey(R2[j]) = k
    BY <1>1, <1>2 DEF GroupOf
  <2>2. mir[j] \in DOMAIN R /\ R2[mir[mir[j]]] = R[mir[j]] /\ mir[mir[j]] = j
    BY <1>1, <2>1
  <2> QED BY <2>1, <2>2 DEF GroupOf
<1>3. ASSUME NEW i \in GroupOf(R, k) PROVE mir[i] \in GroupOf(R2, k)
  BY <1>1, <1>3 DEF GroupOf
<1> QED BY <1>2, <1>3

\* So each total is the same.
LEMMA TurnedTotal ==
    ASSUME NEW R, SomeRecords(R), NEW R2, NEW mir, TurnsInto(R, R2, mir), NEW p, APolicy(p),
           NEW k \in Keys(R), NEW f \in Kinds
    PROVE  TotalOf(R2, p, f, GroupOf(R2, k)) = TotalOf(R, p, f, GroupOf(R, k))
<1> DEFINE S == GroupOf(R, k)
           T == GroupOf(R2, k)
           g == [i \in S |-> Counted(R[i], p)[f]]
           l == [i \in T |-> Counted(R2[i], p)[f]]
<1>1. T = {mir[i] : i \in S}
  BY TurnedGroup
<1>2. IsFiniteSet(S) /\ S \subseteq DOMAIN R
  BY GroupIs
<1>3. /\ \A i, j \in S : mir[i] = mir[j] => i = j
      /\ \A i \in S : R2[mir[i]] = R[i]
  <2>1. \A i \in DOMAIN R : mir[mir[i]] = i /\ R2[mir[i]] = R[i]
    BY DEF TurnsInto
  <2> HIDE DEF S
  <2> QED BY <1>2, <2>1
<1>4. \A i \in S : g[i] \in Int
  BY <1>2, CountedInt
<1>5. \A i \in S : l[mir[i]] = g[i]
  BY <1>1, <1>3
<1>6. IsFiniteSet(T)
  <2> HIDE DEF S, T
  <2> QED BY <1>1, <1>2, <1>3, SameCount
<1> HIDE DEF S, T, g, l
<1>7. SumOf(l, T) = SumOf(g, S)
  BY <1>1, <1>2, <1>3, <1>4, <1>5, <1>6, SumRenamed
<1> QED BY <1>7 DEF TotalOf, S, T, g, l

\* So the rows are the same, but for the name and the workplace, which are
\* those of the first record, and for hours that lie midway.
LEMMA TurnedRows ==
    ASSUME NEW R, SomeRecords(R), NEW wp, NEW p, APolicy(p)
    PROVE  SameTurned(AggregateAttendance(R, wp, p), AggregateAttendance(Reverse(R), wp, p), R, p)
<1> DEFINE rs == AggregateAttendance(R, wp, p)
           ts == AggregateAttendance(Reverse(R), wp, p)
           u == p.rounding
<1> SUFFICES ASSUME NEW k \in DOMAIN rs, NEW row \in rs[k], NEW other \in ts[k]
             PROVE  /\ \A f \in {"leave", "unpaid", "days"} : other[f] = row[f]
                    /\ \A f \in HourKind : \/ other[f] = row[f]
                                           \/ Midway(TotalOf(R, p, f, GroupOf(R, k)), u)
  BY DEF SameTurned
<1>0. PICK R2, mir : R2 = Reverse(R) /\ TurnsInto(R, R2, mir)
  BY Turned
<1>1. k \in Keys(R) /\ SomeRecords(R2) /\ k \in Keys(R2)
  BY <1>0, RowKeys DEF TurnsInto
<1> DEFINE tot(f) == TotalOf(R, p, f, GroupOf(R, k))
<1>2. \A f \in Kinds : TotalOf(R2, p, f, GroupOf(R2, k)) = tot(f) /\ tot(f) \in Int
  <2> SUFFICES ASSUME NEW f \in Kinds
               PROVE  TotalOf(R2, p, f, GroupOf(R2, k)) = tot(f) /\ tot(f) \in Int
    OBVIOUS
  <2> QED BY <1>0, <1>1, TurnedTotal, TotalInt
<1>3. Cardinality(GroupOf(R2, k)) = Cardinality(GroupOf(R, k))
  <2>2. GroupOf(R2, k) = {mir[i] : i \in GroupOf(R, k)}
    BY <1>0, TurnedGroup
  <2>3. \A i \in DOMAIN R : mir[mir[i]] = i
    BY <1>0 DEF TurnsInto
  <2>4. IsFiniteSet(GroupOf(R, k)) /\ GroupOf(R, k) \subseteq DOMAIN R
    BY <1>1, GroupIs
  <2>5. \A i, j \in GroupOf(R, k) : mir[i] = mir[j] => i = j
    BY <2>3, <2>4
  <2> QED BY <2>2, <2>4, <2>5, SameCount
<1>4. IsRow(row, R, wp, p, k)
  BY <1>1, RowIs
<1>5. IsRow(other, R2, wp, p, k)
  BY <1>0, <1>1, RowIs
<1> HIDE DEF rs, ts
<1>6. /\ row.leave = tot("leave") /\ row.unpaid = tot("unpaid")
      /\ row.days = Cardinality(GroupOf(R, k))
      /\ \A f \in HourKind : row[f] \in RoundedHours(tot(f), u)
  BY <1>4 DEF IsRow
<1>7. /\ other.leave = TotalOf(R2, p, "leave", GroupOf(R2, k))
      /\ other.unpaid = TotalOf(R2, p, "unpaid", GroupOf(R2, k))
      /\ other.days = Cardinality(GroupOf(R2, k))
      /\ \A f \in HourKind : other[f] \in RoundedHours(TotalOf(R2, p, f, GroupOf(R2, k)), u)
  BY <1>5 DEF IsRow
<1>8. u \in Nat \ {0} /\ HourKind \subseteq Kinds /\ "leave" \in Kinds /\ "unpaid" \in Kinds
  BY DEF APolicy, Kinds
<1> HIDE DEF u
<1>9. ASSUME NEW f \in HourKind PROVE other[f] = row[f] \/ Midway(tot(f), u)
  <2>1. row[f] \in RoundedHours(tot(f), u) /\ other[f] \in RoundedHours(tot(f), u) /\ tot(f) \in Int
    BY <1>2, <1>6, <1>7, <1>8
  <2> HIDE DEF tot
  <2>2. PICK g, h, t : g = other[f] /\ h = row[f] /\ t = tot(f)
    OBVIOUS
  <2> QED BY <1>8, <2>1, <2>2, RoundedOnce
<1>10. /\ other.leave = row.leave /\ other.unpaid = row.unpaid /\ other.days = row.days
  BY <1>2, <1>3, <1>6, <1>7, <1>8
<1>11. \A f \in {"leave", "unpaid", "days"} : other[f] = row[f]
  BY <1>10
<1> QED BY <1>9, <1>11 DEF u

-----------------------------------------------------------------------------
(* Rows given back as records *)

\* A record has the key that is given with it.
LEMMA KeyBack ==
    ASSUME NEW row, NEW k, k # None
    PROVE  AttendanceKey(AsRecord(row, k)) = k
BY DEF AttendanceKey, AsRecord

\* A record read back: its key, its hours, what it counts for.
LEMMA RecordBack ==
    ASSUME NEW row, NEW k, k # None, NEW p, p.late = 0, p.early = 0,
           DOMAIN row = {"name", "workplace", "work", "overtime", "night", "special", "early",
                         "leave", "unpaid", "days"},
           row.work \in Nat, row.early \in Nat
    PROVE  /\ AttendanceKey(AsRecord(row, k)) = k
           /\ AsRecord(row, k).name = row.name /\ AsRecord(row, k).workplace = row.workplace
           /\ Counted(AsRecord(row, k), p) = [work |-> row.work, overtime |-> row.overtime, night |-> row.night,
                                              special |-> row.special, early |-> row.early, leave |-> row.leave,
                                              unpaid |-> row.unpaid]
<1>1. PICK rec : rec = AsRecord(row, k)
  OBVIOUS
<1>2. /\ rec.nameKey = k /\ rec.late = 0 /\ rec.name = row.name /\ rec.workplace = row.workplace
      /\ rec.work = row.work /\ rec.overtime = row.overtime /\ rec.night = row.night
      /\ rec.special = row.special /\ rec.early = row.early /\ rec.leave = row.leave
      /\ rec.unpaid = row.unpaid
  BY <1>1 DEF AsRecord
<1>3. AttendanceKey(rec) = k
  BY <1>1, KeyBack
<1>4. PastGrace(rec.early, p.early) = row.early /\ PastGrace(rec.late, p.late) = 0
  BY <1>2 DEF PastGrace, Greatest, Ticks
<1>5. Greatest(rec.work, 0) = row.work
  BY <1>2 DEF Greatest
<1>6. Counted(rec, p) = [work |-> row.work, overtime |-> row.overtime, night |-> row.night,
                         special |-> row.special, early |-> row.early, leave |-> row.leave,
                         unpaid |-> row.unpaid]
  BY <1>2, <1>4, <1>5 DEF Counted
<1> QED BY <1>1, <1>2, <1>3, <1>6

\* The total of one record is what it counts for.
LEMMA TotalOfOne ==
    ASSUME NEW R, NEW n, NEW p, NEW f, Counted(R[n], p)[f] \in Int
    PROVE  TotalOf(R, p, f, {n}) = Counted(R[n], p)[f]
<1> DEFINE g == [m \in {n} |-> Counted(R[m], p)[f]]
<1>1. g[n] = Counted(R[n], p)[f]
  OBVIOUS
<1> HIDE DEF g
<1>2. SumOf(g, {n}) = g[n]
  BY <1>1, SumSingle
<1> QED BY <1>1, <1>2 DEF TotalOf, g

\* A group with one outcome of each hour has one row.
LEMMA OneRow ==
    ASSUME NEW R, NEW G, NEW wp, NEW p, NEW work, NEW overtime, NEW night, NEW special, NEW early,
           RoundedHours(TotalOf(R, p, "work", G), p.rounding) = {work},
           RoundedHours(TotalOf(R, p, "overtime", G), p.rounding) = {overtime},
           RoundedHours(TotalOf(R, p, "night", G), p.rounding) = {night},
           RoundedHours(TotalOf(R, p, "special", G), p.rounding) = {special},
           RoundedHours(TotalOf(R, p, "early", G), p.rounding) = {early}
    PROVE  InvoiceRows(R, G, wp, p) =
             {[name |-> R[Min(G)].name,
               workplace |-> IF R[Min(G)].workplace = None THEN wp ELSE R[Min(G)].workplace,
               work |-> work, overtime |-> overtime, night |-> night, special |-> special,
               early |-> early, leave |-> TotalOf(R, p, "leave", G),
               unpaid |-> TotalOf(R, p, "unpaid", G), days |-> Cardinality(G)]}
<1> DEFINE first == R[Min(G)]
           workplace == IF first.workplace = None THEN wp ELSE first.workplace
           leave == TotalOf(R, p, "leave", G)
           unpaid == TotalOf(R, p, "unpaid", G)
<1>1. InvoiceRows(R, G, wp, p) =
        {[name |-> first.name, workplace |-> workplace, work |-> a, overtime |-> b, night |-> c,
          special |-> d, early |-> e, leave |-> leave, unpaid |-> unpaid,
          days |-> Cardinality(G)] :
             a \in {work}, b \in {overtime}, c \in {night}, d \in {special}, e \in {early}}
  BY DEF InvoiceRows
<1> HIDE DEF first, workplace, leave, unpaid
<1>2. InvoiceRows(R, G, wp, p) =
        {[name |-> first.name, workplace |-> workplace, work |-> work, overtime |-> overtime,
          night |-> night, special |-> special, early |-> early, leave |-> leave,
          unpaid |-> unpaid, days |-> Cardinality(G)]}
  BY <1>1
<1> QED BY <1>2 DEF first, workplace, leave, unpaid

\* An attendance row, given back as a record, gives that row.
LEMMA RowsAgain ==
    ASSUME NEW R, SomeRecords(R), NEW wp, NEW p, APolicy(p),
           {"rounding", "late", "early"} \subseteq DOMAIN p,
           NEW rs, rs = AggregateAttendance(R, wp, p)
    PROVE  SameAgain(rs, wp, p)
<1> DEFINE p2 == [p EXCEPT !.late = 0, !.early = 0]
<1> SUFFICES ASSUME NEW k \in DOMAIN rs, NEW row \in rs[k]
             PROVE  AggregateAttendance(<<AsRecord(row, k)>>, wp, p2)[k] = {[row EXCEPT !.days = 1]}
  BY DEF SameAgain
<1>1. k \in Keys(R) /\ k # None
  BY RowKeys DEF Keys
<1>2. p2.late = 0 /\ p2.early = 0 /\ p2.rounding = p.rounding /\ p.rounding \in Nat \ {0}
  BY DEF APolicy
<1> HIDE DEF p2
<1>3. IsRow(row, R, wp, p, k)
  BY <1>1, RowIs
<1> DEFINE G == GroupOf(R, k)
           tot(f) == TotalOf(R, p, f, G)
           first == R[Min(G)]
           u == p.rounding
<1>4. PICK name, workplace, work, overtime, night, special, early, leave, unpaid, days :
         /\ row = [name |-> name, workplace |-> workplace, work |-> work,
                   overtime |-> overtime, night |-> night, special |-> special, early |-> early,
                   leave |-> leave, unpaid |-> unpaid, days |-> days]
         /\ leave = tot("leave") /\ unpaid = tot("unpaid")
         /\ workplace = None => wp = None
  BY <1>3 DEF IsRow
<1>5. /\ row.name = name /\ row.workplace = workplace /\ row.work = work
      /\ row.overtime = overtime /\ row.night = night /\ row.special = special
      /\ row.early = early /\ row.leave = leave /\ row.unpaid = unpaid
      /\ row["work"] = work /\ row["overtime"] = overtime /\ row["night"] = night
      /\ row["special"] = special /\ row["early"] = early
      /\ DOMAIN row = {"name", "workplace", "work", "overtime", "night", "special", "early",
                       "leave", "unpaid", "days"}
  BY <1>4
<1>6. \A f \in Kinds : tot(f) \in Int
  BY <1>1, TotalInt
<1>7. \A f \in HourKind : row[f] \in RoundedHours(tot(f), u)
  BY <1>3 DEF IsRow
<1> HIDE DEF tot, G, first, u
<1>8. \A f \in HourKind : row[f] \in Nat /\ RoundedHours(row[f], u) = {row[f]}
  <2> SUFFICES ASSUME NEW f \in HourKind PROVE row[f] \in Nat /\ RoundedHours(row[f], u) = {row[f]}
    OBVIOUS
  <2>1. PICK h, t : h = row[f] /\ t = tot(f)
    OBVIOUS
  <2>2. t \in Int /\ h \in RoundedHours(t, u)
    BY <1>6, <1>7, <2>1 DEF Kinds
  <2> QED BY <1>2, <2>1, <2>2, RoundedOnce DEF u
<1>9. /\ work \in Nat /\ overtime \in Nat /\ night \in Nat /\ special \in Nat /\ early \in Nat
      /\ RoundedHours(work, u) = {work} /\ RoundedHours(overtime, u) = {overtime}
      /\ RoundedHours(night, u) = {night} /\ RoundedHours(special, u) = {special}
      /\ RoundedHours(early, u) = {early}
      /\ leave \in Int /\ unpaid \in Int
  <2>1. tot("leave") \in Int /\ tot("unpaid") \in Int
    BY <1>6 DEF Kinds
  <2>2. /\ row["work"] \in Nat /\ RoundedHours(row["work"], u) = {row["work"]}
        /\ row["overtime"] \in Nat /\ RoundedHours(row["overtime"], u) = {row["overtime"]}
        /\ row["night"] \in Nat /\ RoundedHours(row["night"], u) = {row["night"]}
        /\ row["special"] \in Nat /\ RoundedHours(row["special"], u) = {row["special"]}
        /\ row["early"] \in Nat /\ RoundedHours(row["early"], u) = {row["early"]}
    BY <1>8 DEF HourKind
  <2> QED BY <1>4, <1>5, <2>1, <2>2
<1> DEFINE rec == AsRecord(row, k)
           recs == <<rec>>
           counted == [work |-> work, overtime |-> overtime, night |-> night, special |-> special,
                       early |-> early, leave |-> leave, unpaid |-> unpaid]
<1>10. AttendanceKey(rec) = k
  BY <1>1, KeyBack
<1>11. rec.name = name /\ rec.workplace = workplace /\ Counted(rec, p2) = counted
  <2>1. row.work \in Nat /\ row.early \in Nat
    BY <1>5, <1>9
  <2>2. rec.name = row.name
    BY <1>1, <1>2, <1>5, <2>1, RecordBack
  <2>3. rec.workplace = row.workplace
    BY <1>1, <1>2, <1>5, <2>1, RecordBack
  <2>4. Counted(rec, p2) = [work |-> row.work, overtime |-> row.overtime, night |-> row.night,
          special |-> row.special, early |-> row.early, leave |-> row.leave,
          unpaid |-> row.unpaid]
    BY <1>1, <1>2, <1>5, <2>1, RecordBack
  <2> QED BY <1>5, <2>2, <2>3, <2>4
<1> HIDE DEF rec
<1>12. DOMAIN recs = {1} /\ recs[1] = rec
  OBVIOUS
<1> HIDE DEF recs
<1>13. GroupOf(recs, k) = {1} /\ k \in Keys(recs) /\ Min({1}) = 1
  <2>1. GroupOf(recs, k) = {1} /\ k \in Keys(recs)
    BY <1>1, <1>10, <1>12 DEF GroupOf, Keys
  <2>2. {1} \in SUBSET Nat /\ {1} # {}
    OBVIOUS
  <2>3. Min({1}) \in {1}
    BY <2>2, MinIn
  <2> QED BY <2>1, <2>3
<1> DEFINE t(f) == TotalOf(recs, p2, f, {1})
<1>14. /\ t("work") = work /\ t("overtime") = overtime /\ t("night") = night
       /\ t("special") = special /\ t("early") = early /\ t("leave") = leave
       /\ t("unpaid") = unpaid
  <2>1. Counted(recs[1], p2) = counted
    BY <1>11, <1>12
  <2>2. \A f \in Kinds : Counted(recs[1], p2)[f] \in Int
    BY <1>9, <2>1 DEF Kinds, HourKind
  <2>3. \A f \in Kinds : t(f) = Counted(recs[1], p2)[f]
    BY <2>2, TotalOfOne
  <2>4. /\ t("work") = counted["work"] /\ t("overtime") = counted["overtime"]
        /\ t("night") = counted["night"] /\ t("special") = counted["special"]
        /\ t("early") = counted["early"] /\ t("leave") = counted["leave"]
        /\ t("unpaid") = counted["unpaid"]
    BY <2>1, <2>3 DEF Kinds, HourKind
  <2> HIDE DEF t
  <2> QED BY <2>4
<1>15. AggregateAttendance(recs, wp, p2)[k] = InvoiceRows(recs, {1}, wp, p2)
  BY <1>13 DEF AggregateAttendance, Keys
<1>16. /\ RoundedHours(t("work"), p2.rounding) = {work}
       /\ RoundedHours(t("overtime"), p2.rounding) = {overtime}
       /\ RoundedHours(t("night"), p2.rounding) = {night}
       /\ RoundedHours(t("special"), p2.rounding) = {special}
       /\ RoundedHours(t("early"), p2.rounding) = {early}
  <2> HIDE DEF t
  <2> QED BY <1>2, <1>9, <1>14 DEF u
<1>17. InvoiceRows(recs, {1}, wp, p2) =
         {[name |-> recs[Min({1})].name,
           workplace |-> IF recs[Min({1})].workplace = None THEN wp ELSE recs[Min({1})].workplace,
           work |-> work, overtime |-> overtime, night |-> night, special |-> special,
           early |-> early, leave |-> t("leave"), unpaid |-> t("unpaid"),
           days |-> Cardinality({1})]}
  BY <1>16, OneRow
<1>18. Cardinality({1}) = 1
  BY FS_Singleton
<1> HIDE DEF t
<1>19. InvoiceRows(recs, {1}, wp, p2) =
         {[name |-> name, workplace |-> workplace, work |-> work, overtime |-> overtime,
           night |-> night, special |-> special, early |-> early, leave |-> leave,
           unpaid |-> unpaid, days |-> 1]}
  <2>1. (IF recs[1].workplace = None THEN wp ELSE recs[1].workplace) = workplace
    BY <1>4, <1>11, <1>12
  <2>2. recs[Min({1})] = recs[1] /\ recs[1].name = name
    BY <1>11, <1>12, <1>13
  <2> QED BY <1>14, <1>17, <1>18, <2>1, <2>2
<1>20. [row EXCEPT !.days = 1] =
         [name |-> name, workplace |-> workplace, work |-> work, overtime |-> overtime,
          night |-> night, special |-> special, early |-> early, leave |-> leave,
          unpaid |-> unpaid, days |-> 1]
  BY <1>4
<1> QED BY <1>15, <1>19, <1>20 DEF recs, rec

\* A policy is normalised before the calculator sees it.
LEMMA NormalizedIsAPolicy ==
    ASSUME NEW raw, \A f \in {"rounding", "late", "early"} : raw[f] \in Int \cup {None}
    PROVE  /\ APolicy(NormalizedAttendance(raw))
           /\ {"rounding", "late", "early"} \subseteq DOMAIN NormalizedAttendance(raw)
<1>1. raw.rounding \in Int \cup {None} /\ raw.late \in Int \cup {None} /\ raw.early \in Int \cup {None}
  OBVIOUS
<1>2. /\ IntBetween(raw.rounding, 1, 1, 60) \in 1..60
      /\ IntBetween(raw.late, 0, 0, 240) \in 0..240
      /\ IntBetween(raw.early, 0, 0, 240) \in 0..240
  BY <1>1 DEF IntBetween, Least, Greatest
<1> QED BY <1>2 DEF APolicy, NormalizedAttendance

\* An input of the attendance calculator has such records and such a policy.
LEMMA AttendanceIsRecords ==
    ASSUME NEW in \in Attendance
    PROVE  SomeRecords(in.records) /\ APolicy(NormalizedAttendance(in.policy))
           /\ {"rounding", "late", "early"} \subseteq DOMAIN NormalizedAttendance(in.policy)
<1>1. in.records \in Seq(ToSet(in.records))
  BY AttendanceAssumption
<1>2. \A n \in DOMAIN in.records :
         \A f \in {"work", "overtime", "night", "special", "late", "early", "leave", "unpaid"} :
             in.records[n][f] \in Int
  BY AttendanceAssumption
<1>3. \A f \in {"rounding", "late", "early"} : in.policy[f] \in Int \cup {None}
  BY AttendanceAssumption
<1>4. SomeRecords(in.records)
  BY <1>1, <1>2 DEF SomeRecords
<1> QED BY <1>3, <1>4, NormalizedIsAPolicy

\* The rows of an input reproduce.
LEMMA RowsBack ==
    ASSUME NEW in \in Attendance, NEW policy, policy = NormalizedAttendance(in.policy)
    PROVE  RowsReproduce(in, policy, RowsOf(in, policy))
<1>1. PICK R, wp : R = in.records /\ wp = in.workplace
  OBVIOUS
<1>2. /\ SomeRecords(R) /\ APolicy(policy)
      /\ {"rounding", "late", "early"} \subseteq DOMAIN policy
  BY <1>1, AttendanceIsRecords
<1>3. PICK rs : rs = AggregateAttendance(R, wp, policy)
  OBVIOUS
<1>5. SameAgain(rs, wp, policy)
  BY <1>2, <1>3, RowsAgain
<1>6. SameTurned(rs, AggregateAttendance(Reverse(R), wp, policy), R, policy)
  BY <1>2, <1>3, TurnedRows
<1>7. HalfAUnitOff(rs, R, policy.rounding)
  BY <1>2, <1>3, HalfOff
<1> QED BY <1>1, <1>3, <1>5, <1>6, <1>7 DEF RowsReproduce, RowsOf

\* What the caller holds came from the inputs.
InputsHeld ==
    /\ slip # None => slip \in SlipInput
    /\ attended # None => attended \in Attendance

\* A step keeps the inputs among those there are.
LEMMA HeldStep ==
    ASSUME InputsHeld, [Next]_vars
    PROVE  InputsHeld'
BY DEF InputsHeld, Next, vars, ValidateRunPayload, AuthorizeRunRequest, PlanRunRequest, AnswerRun,
       ChangeSettings, CalculatePayrollSalary, AggregateAttendanceRecords

\* Figures that the calculators gave out can be given back to them: presets to
\* the salary and the deduction engine, overtime as a raw amount, attendance
\* rows as records, records in another order (salary.rs, deductions.rs,
\* attendance.rs).
THEOREM FiguresHold == Spec => []FiguresReproduce
<1>1. Init => InputsHeld
  BY DEF Init, InputsHeld
<1>2. InputsHeld => FiguresReproduce
  <2> SUFFICES ASSUME InputsHeld PROVE FiguresReproduce
    OBVIOUS
  <2>1. ASSUME slip # None
        PROVE  /\ SlipReproduces(slip, CalculateSalary(slip))
               /\ LET books == Books(CalculateSalary(slip))
                  IN  DeductionsReproduce(books, FinalizeDeductions(books))
    <3>1. ASlip(slip)
      BY <2>1, SlipAssumption DEF InputsHeld, ASlip
    <3> QED BY <3>1, SlipBack, BooksBack
  <2>2. ASSUME attended # None
        PROVE  RowsReproduce(attended, NormalizedAttendance(attended.policy),
                             RowsOf(attended, NormalizedAttendance(attended.policy)))
    BY <2>2, RowsBack DEF InputsHeld
  <2> QED BY <2>1, <2>2 DEF FiguresReproduce
<1>3. InputsHeld /\ [Next]_vars => InputsHeld'
  BY HeldStep
<1> QED BY <1>1, <1>2, <1>3, PTL DEF Spec

-----------------------------------------------------------------------------
(* The answers to a request *)

\* What a policy can name as its source.
Bases == {"invoice", "attendance", "hybrid"}

\* A request that parsing let through.
Sound(request) ==
    /\ request.type \in InputTypes
    /\ request.paths \subseteq {"invoice", "attendance"}
    /\ MissingPaths(request.type, request.paths) = {}

\* What an answer that is ok holds.
AnswerSound ==
    validated # None /\ validated.ok =>
        /\ Sound(validated.request)
        /\ validated.policy.basis \in Bases
        /\ validated.type = ResolvedInputType(validated.request, validated.policy)

\* What a plan was made of.
PlanMade ==
    planned # None =>
        /\ validated # None /\ validated.ok
        /\ planned.policy.basis \in Bases
        /\ planned.plan = PlanPayrollExecution(validated.request, planned.policy)

\* The answers a caller holds were made from each other.
AnswerInv ==
    /\ payload = None => validated = None
    /\ validated = None => planned = None
    /\ AnswerSound
    /\ PlanMade
    /\ decided # None => RunRightNests(decided)

\* Parsing lets only such requests through.
LEMMA ParsedIsSound ==
    ASSUME NEW p \in Payload, ParsePayrollApiRequest(p).error = None
    PROVE  Sound(ParsePayrollApiRequest(p).request)
<1> QED BY PayloadAssumption, ReasonAssumption DEF ParsePayrollApiRequest, Failed, Parsed, Sound

\* The rights of a caller nest for each request.
LEMMA RightsNestPerCaller ==
    ASSUME NEW request, NEW who
    PROVE  RunRightNests([a \in Actions |-> AuthorizePayrollRequest(request, who, a)])
<1>1. /\ "settings" \in Permissions(who) => "executive" \in Permissions(who)
      /\ "executive" \in Permissions(who) => "payroll" \in Permissions(who)
  BY DEF Permissions, PositionPermissions, RolePermissions, AllPermissions
<1> HIDE DEF Permissions
<1> QED BY <1>1, ReasonAssumption
        DEF RunRightNests, Actions, AuthorizePayrollRequest, RequiredPermission

\* A resolved policy is normal: normalising it again leaves its basis as it is.
LEMMA PolicyNormal ==
    ASSUME NEW workplace, NEW built
    PROVE  /\ ResolveOperationPolicy(workplace, built).policy.basis \in Bases
           /\ Normalized(ResolveOperationPolicy(workplace, built).policy).basis
              = ResolveOperationPolicy(workplace, built).policy.basis
<1>1. \A raw : Normalized(raw).basis \in Bases
  BY DEF Normalized, InputBasis, Bases
<1>2. \A raw : raw.basis \in Bases => Normalized(raw).basis = raw.basis
  BY DEF Normalized, InputBasis, Bases
<1>3. \E raw : ResolveOperationPolicy(workplace, built).policy = Normalized(raw)
  BY DEF ResolveOperationPolicy, DefaultPolicy
<1> QED BY <1>1, <1>2, <1>3

\* There are two paths.
LEMMA TwoPaths == Cardinality({"invoice", "attendance"}) = 2
<1>1. IsFiniteSet({"invoice"}) /\ Cardinality({"invoice"}) = 1
  BY FS_Singleton
<1>2. {"invoice", "attendance"} = {"invoice"} \cup {"attendance"}
  OBVIOUS
<1> QED BY <1>1, <1>2, FS_AddElement

\* Parsing made sure of both sources, so planning never falls back.
LEMMA PlannedType ==
    ASSUME NEW request, Sound(request), NEW policy, policy.basis \in Bases
    PROVE  /\ PlannedInputType(request, policy) = ResolvedInputType(request, policy)
           /\ ResolvedInputType(request, policy) \in {"invoice", "attendance", "mixed"}
           /\ ResolvedInputType(request, policy) = "mixed"
              => request.paths = {"invoice", "attendance"}
<1>1. ResolvedInputType(request, policy) \in {"invoice", "attendance", "mixed"}
  BY DEF ResolvedInputType, InferredInputType, Sound, Bases, InputTypes
<1>2. ResolvedInputType(request, policy) = "mixed" => request.paths = {"invoice", "attendance"}
  BY DEF ResolvedInputType, InferredInputType, Sound, Bases, InputTypes, MissingPaths
<1> HIDE DEF ResolvedInputType
<1> QED BY <1>1, <1>2, TwoPaths DEF PlannedInputType

\* The steps of an invoice run from the source to the payroll.
LEMMA InvoiceRuns ==
    ASSUME NEW plan, plan.steps = InvoiceSteps("invoice"), plan.type = "invoice",
           "invoice" \in plan.sources
    PROVE  RunsEndToEnd(plan)
BY DEF RunsEndToEnd, InvoiceSteps, Step

\* The steps of a plan of three.
LEMMA ThreeSteps ==
    ASSUME NEW a, NEW b, NEW c, NEW s, s = <<a, b>> \o <<c>>
    PROVE  Len(s) = 3 /\ s[1] = a /\ s[2] = b /\ s[3] = c
<1> DEFINE S == {a, b, c}
<1>1. <<a, b>> \in Seq(S) /\ <<c>> \in Seq(S) /\ Len(<<a, b>>) = 2 /\ Len(<<c>>) = 1
  OBVIOUS
<1> QED BY <1>1

\* The steps of an attendance run from the source to the payroll.
LEMMA AttendanceRuns ==
    ASSUME NEW plan, plan.steps = AttendanceSteps, plan.type = "attendance",
           "attendance" \in plan.sources
    PROVE  RunsEndToEnd(plan)
<1> DEFINE one == Step("extract_attendance", {"attendance"}, "attendance_rows")
           two == Step("build_attendance_invoice", {"attendance_rows"}, "generated:attendance_invoice")
           three == Step("process_invoice", {"generated:attendance_invoice"}, "payroll_outputs")
<1>1. plan.steps = <<one, two>> \o <<three>>
  BY DEF AttendanceSteps, InvoiceSteps
<1>2. Len(plan.steps) = 3 /\ plan.steps[1] = one /\ plan.steps[2] = two /\ plan.steps[3] = three
  <2> HIDE DEF one, two, three
  <2> QED BY <1>1, ThreeSteps
<1> QED BY <1>2 DEF RunsEndToEnd, Step

\* The steps of a mixed run go from both sources to the payroll.
LEMMA MixedRuns ==
    ASSUME NEW plan, plan.steps = MixedSteps, plan.type = "mixed",
           {"invoice", "attendance"} \subseteq plan.sources
    PROVE  RunsEndToEnd(plan)
<1> DEFINE one == Step("extract_attendance", {"attendance"}, "attendance_rows")
           two == Step("attach_attendance_sheet", {"invoice", "attendance_rows"}, "generated:mixed_invoice")
           three == Step("process_invoice", {"generated:mixed_invoice"}, "payroll_outputs")
<1>1. plan.steps = <<one, two>> \o <<three>>
  BY DEF MixedSteps, InvoiceSteps
<1>2. Len(plan.steps) = 3 /\ plan.steps[1] = one /\ plan.steps[2] = two /\ plan.steps[3] = three
  <2> HIDE DEF one, two, three
  <2> QED BY <1>1, ThreeSteps
<1> QED BY <1>2 DEF RunsEndToEnd, Step

\* A plan agrees with its request and its policy.
LEMMA PlanAgrees ==
    ASSUME NEW request, Sound(request), NEW policy, policy.basis \in Bases,
           NEW plan, plan = PlanPayrollExecution(request, policy)
    PROVE  /\ plan.ok => RunsEndToEnd(plan)
           /\ ~ plan.ok => /\ plan.steps = <<>>
                           /\ request.type = "auto"
                           /\ policy.basis \in plan.missing
           /\ plan.type = ResolvedInputType(request, policy)
<1> DEFINE type == ResolvedInputType(request, policy)
           missing == IF type = "mixed" THEN {"invoice", "attendance"} \ request.paths
                      ELSE {type} \ request.paths
<1>1. Normalized(policy).basis = policy.basis
  BY DEF Normalized, InputBasis, Bases
<1>2. PlannedInputType(request, Normalized(policy)) = type
  BY <1>1, PlannedType DEF ResolvedInputType
<1>3. /\ plan.type = type /\ plan.sources = request.paths /\ plan.missing = missing
      /\ plan.ok = (missing = {}) /\ plan.steps = StepsFor(type, request.paths)
  BY <1>2 DEF PlanPayrollExecution
<1>4. type \in {"invoice", "attendance", "mixed"}
      /\ (type = "mixed" => request.paths = {"invoice", "attendance"})
  BY PlannedType
<1>5. plan.ok => RunsEndToEnd(plan)
  <2> HIDE DEF type
  <2>1. CASE type = "invoice" /\ plan.ok
    BY <2>1, <1>3, InvoiceRuns DEF StepsFor
  <2>2. CASE type = "attendance" /\ plan.ok
    BY <2>2, <1>3, AttendanceRuns DEF StepsFor
  <2>3. CASE type = "mixed" /\ plan.ok
    BY <2>3, <1>3, MixedRuns DEF StepsFor
  <2> QED BY <1>4, <2>1, <2>2, <2>3
<1>6. ~ plan.ok => plan.steps = <<>> /\ type \in {"invoice", "attendance"} /\ type \notin request.paths /\ plan.missing = {type}
  <2> HIDE DEF type
  <2> QED BY <1>3, <1>4 DEF StepsFor
<1>7. type \in {"invoice", "attendance"} /\ type \notin request.paths => request.type = "auto" /\ policy.basis = type
  BY DEF ResolvedInputType, InferredInputType, Sound, Bases, InputTypes, MissingPaths
<1>8. plan.type = ResolvedInputType(request, policy)
  BY <1>3
<1> HIDE DEF type
<1> QED BY <1>5, <1>6, <1>7, <1>8

\* Every step keeps the answers made from each other.
LEMMA AnswerStep == AnswerInv /\ [Next]_vars => AnswerInv'
<1> SUFFICES ASSUME AnswerInv, [Next]_vars PROVE AnswerInv'
  OBVIOUS
<1> USE DEF AnswerInv, AnswerSound, PlanMade
<1>1. ASSUME NEW p \in Payload, ValidateRunPayload(p) PROVE AnswerInv'
  <2> DEFINE built == Built(settings)
             parsed == ParsePayrollApiRequest(p)
             resolved == ResolveOperationPolicy(parsed.request.scope.workplace, built)
  <2>1. payload' # None /\ planned' = None /\ decided' = decided
    BY <1>1, PayloadAssumption DEF ValidateRunPayload
  <2>2. validated' = Validation(p, built)
    BY <1>1 DEF ValidateRunPayload
  <2>3. validated'.ok => parsed.error = None
    BY <2>2 DEF Validation
  <2>4. parsed.error = None => /\ validated'.request = parsed.request
                               /\ validated'.policy = Normalized(resolved.policy)
                               /\ validated'.type = ResolvedInputType(parsed.request, Normalized(resolved.policy))
    BY <2>2 DEF Validation
  <2>5. Normalized(resolved.policy).basis \in Bases
    BY PolicyNormal
  <2>6. parsed.error = None => Sound(parsed.request)
    BY ParsedIsSound
  <2> HIDE DEF parsed, resolved
  <2>7. AnswerSound'
    BY <2>3, <2>4, <2>5, <2>6
  <2> QED BY <2>1, <2>7
<1>2. ASSUME NEW who \in Principal, AuthorizeRunRequest(who) PROVE AnswerInv'
  <2>1. RunRightNests(decided')
    BY <1>2, RightsNestPerCaller DEF AuthorizeRunRequest
  <2> QED BY <1>2, <2>1 DEF AuthorizeRunRequest
<1>3. CASE PlanRunRequest
  <2> DEFINE now == ResolveOperationPolicy(validated.request.scope.workplace, Built(settings))
  <2>1. /\ validated # None /\ validated.ok
        /\ planned' = [plan |-> PlanPayrollExecution(validated.request, now.policy), policy |-> now.policy]
        /\ UNCHANGED <<payload, validated, decided>>
    BY <1>3 DEF PlanRunRequest
  <2>2. now.policy.basis \in Bases
    BY PolicyNormal
  <2> HIDE DEF now
  <2> QED BY <2>1, <2>2
<1>4. ASSUME NEW ok \in BOOLEAN, AnswerRun(ok) PROVE AnswerInv'
  BY <1>4 DEF AnswerRun
<1>5. ASSUME NEW calls \in Settings, ChangeSettings(calls) PROVE AnswerInv'
  BY <1>5 DEF ChangeSettings
<1>6. ASSUME NEW in \in SlipInput, CalculatePayrollSalary(in) PROVE AnswerInv'
  BY <1>6 DEF CalculatePayrollSalary
<1>7. ASSUME NEW in \in Attendance, AggregateAttendanceRecords(in) PROVE AnswerInv'
  BY <1>7 DEF AggregateAttendanceRecords
<1>8. CASE UNCHANGED vars
  BY <1>8 DEF vars
<1> QED BY <1>1, <1>2, <1>3, <1>4, <1>5, <1>6, <1>7, <1>8 DEF Next

\* The answers to one request fit together: a plan that is ok runs from the
\* request's own sources to the payroll, one that is not can only come from an
\* "auto" request and a policy that names a source the request lacks, and
\* rights nest (request.rs, policy_resolution.rs, access.rs,
\* execution_plan.rs).
THEOREM AnswersFit == Spec => []AnswersAgree
<1>1. Init => AnswerInv
  BY DEF Init, AnswerInv, AnswerSound, PlanMade
<1>2. AnswerInv => AnswersAgree
  <2> SUFFICES ASSUME AnswerInv PROVE AnswersAgree
    OBVIOUS
  <2>1. decided # None => RunRightNests(decided)
    BY DEF AnswerInv
  <2>2. ASSUME planned # None
        PROVE  /\ planned.plan.ok => RunsEndToEnd(planned.plan)
               /\ ~planned.plan.ok => /\ planned.plan.steps = <<>>
                                     /\ validated.request.type = "auto"
                                     /\ planned.policy.basis \in planned.plan.missing
               /\ planned.policy = validated.policy => planned.plan.type = validated.type
    <3>1. /\ Sound(validated.request) /\ planned.policy.basis \in Bases
          /\ planned.plan = PlanPayrollExecution(validated.request, planned.policy)
          /\ validated.type = ResolvedInputType(validated.request, validated.policy)
      BY <2>2 DEF AnswerInv, AnswerSound, PlanMade
    <3> QED BY <3>1, PlanAgrees
  <2> QED BY <2>1, <2>2 DEF AnswersAgree
<1> QED BY <1>1, <1>2, AnswerStep, PTL DEF Spec
=============================================================================
