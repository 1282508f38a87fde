------------------------ MODULE BusinessTripsProofs -------------------------
(***************************************************************************)
(* Proofs about BusinessTrips for any rows of the known fields, any store  *)
(* and any viewers: statuses and KPI statuses fit, recorded moments stay,  *)
(* migration comes to rest, one source is one trip, nobody loses a trip to *)
(* a step, and the rights over a trip nest.                                *)
(***************************************************************************)
EXTENDS BusinessTrips, TLAPS

-----------------------------------------------------------------------------
(* Lemmas about rows *)

\* A row as the crate reads it: a function on its fields.
IsRow(row) == row = [f \in Field |-> row[f]]

\* FirstSet finds the value before which all are empty.
LEMMA FirstFound ==
    ASSUME NEW n \in Nat, NEW s, DOMAIN s = 1..n
    PROVE  /\ \A k \in 1..n : s[k] # None /\ (\A j \in 1..n : j < k => s[j] = None)
                => FirstSet(s) = s[k]
           /\ (\A i \in 1..n : s[i] = None) => FirstSet(s) = None
<1> DEFINE Least(i) == s[i] # None /\ \A j \in 1..n : s[j] # None => i <= j
<1>1. FirstSet(s) = IF \E i \in 1..n : s[i] # None
                    THEN s[CHOOSE i \in 1..n : Least(i)] ELSE None
  BY DEF FirstSet
<1>2. ASSUME NEW k \in 1..n, s[k] # None, \A j \in 1..n : j < k => s[j] = None
      PROVE  FirstSet(s) = s[k]
  <2>1. \A i \in 1..n : Least(i) <=> i = k
    BY <1>2
  <2>2. (CHOOSE i \in 1..n : Least(i)) = k
    BY <2>1
  <2> HIDE DEF Least
  <2> QED BY <1>1, <1>2, <2>2
<1>3. (\A i \in 1..n : s[i] = None) => FirstSet(s) = None
  BY <1>1
<1> QED BY <1>2, <1>3

LEMMA FirstOfTwo ==
    ASSUME NEW a, NEW b
    PROVE  FirstSet(<<a, b>>) =
           IF a # None THEN a ELSE b
<1> DEFINE s == <<a, b>>
<1>1. DOMAIN s = 1..2 /\ s[1] = a /\ s[2] = b
  OBVIOUS
<1> HIDE DEF s
<1>2. ASSUME NEW k \in 1..2, s[k] # None, \A j \in 1..2 : j < k => s[j] = None
      PROVE  FirstSet(s) = s[k]
  BY <1>1, <1>2, FirstFound
<1>3. (\A i \in 1..2 : s[i] = None) => FirstSet(s) = None
  BY <1>1, FirstFound
<1>4. s[1] # None => FirstSet(s) = s[1]
  BY <1>2
<1>5. s[1] = None /\ s[2] # None => FirstSet(s) = s[2]
  BY <1>2
<1>6. (s[1] = None /\ s[2] = None) => FirstSet(s) = None
  BY <1>3
<1> QED BY <1>1, <1>4, <1>5, <1>6 DEF s

LEMMA FirstOfThree ==
    ASSUME NEW a, NEW b, NEW c
    PROVE  FirstSet(<<a, b, c>>) =
           IF a # None THEN a ELSE IF b # None THEN b ELSE c
<1> DEFINE s == <<a, b, c>>
<1>1. DOMAIN s = 1..3 /\ s[1] = a /\ s[2] = b /\ s[3] = c
  OBVIOUS
<1> HIDE DEF s
<1>2. ASSUME NEW k \in 1..3, s[k] # None, \A j \in 1..3 : j < k => s[j] = None
      PROVE  FirstSet(s) = s[k]
  BY <1>1, <1>2, FirstFound
<1>3. (\A i \in 1..3 : s[i] = None) => FirstSet(s) = None
  BY <1>1, FirstFound
<1>4. s[1] # None => FirstSet(s) = s[1]
  BY <1>2
<1>5. s[1] = None /\ s[2] # None => FirstSet(s) = s[2]
  BY <1>2
<1>6. s[1] = None /\ s[2] = None /\ s[3] # None => FirstSet(s) = s[3]
  BY <1>2
<1>7. (s[1] = None /\ s[2] = None /\ s[3] = None) => FirstSet(s) = None
  BY <1>3
<1> QED BY <1>1, <1>4, <1>5, <1>6, <1>7 DEF s

LEMMA FirstOfFour ==
    ASSUME NEW a, NEW b, NEW c, NEW d
    PROVE  FirstSet(<<a, b, c, d>>) =
           IF a # None THEN a
           ELSE IF b # None THEN b ELSE IF c # None THEN c ELSE d
<1> DEFINE s == <<a, b, c, d>>
<1>1. DOMAIN s = 1..4 /\ s[1] = a /\ s[2] = b /\ s[3] = c /\ s[4] = d
  OBVIOUS
<1> HIDE DEF s
<1>2. ASSUME NEW k \in 1..4, s[k] # None, \A j \in 1..4 : j < k => s[j] = None
      PROVE  FirstSet(s) = s[k]
  BY <1>1, <1>2, FirstFound
<1>3. (\A i \in 1..4 : s[i] = None) => FirstSet(s) = None
  BY <1>1, FirstFound
<1>4. s[1] # None => FirstSet(s) = s[1]
  BY <1>2
<1>5. s[1] = None /\ s[2] # None => FirstSet(s) = s[2]
  BY <1>2
<1>6. s[1] = None /\ s[2] = None /\ s[3] # None => FirstSet(s) = s[3]
  BY <1>2
<1>7. s[1] = None /\ s[2] = None /\ s[3] = None /\ s[4] # None => FirstSet(s) = s[4]
  BY <1>2
<1>8. (s[1] = None /\ s[2] = None /\ s[3] = None /\ s[4] = None) => FirstSet(s) = None
  BY <1>3
<1> QED BY <1>1, <1>4, <1>5, <1>6, <1>7, <1>8 DEF s

LEMMA FirstOfFive ==
    ASSUME NEW a, NEW b, NEW c, NEW d, NEW e
    PROVE  FirstSet(<<a, b, c, d, e>>) =
           IF a # None THEN a ELSE IF b # None THEN b
           ELSE IF c # None THEN c ELSE IF d # None THEN d ELSE e
<1> DEFINE s == <<a, b, c, d, e>>
<1>1. DOMAIN s = 1..5 /\ s[1] = a /\ s[2] = b /\ s[3] = c /\ s[4] = d /\ s[5] = e
  OBVIOUS
<1> HIDE DEF s
<1>2. ASSUME NEW k \in 1..5, s[k] # None, \A j \in 1..5 : j < k => s[j] = None
      PROVE  FirstSet(s) = s[k]
  BY <1>1, <1>2, FirstFound
<1>3. (\A i \in 1..5 : s[i] = None) => FirstSet(s) = None
  BY <1>1, FirstFound
<1>4. s[1] # None => FirstSet(s) = s[1]
  BY <1>2
<1>5. s[1] = None /\ s[2] # None => FirstSet(s) = s[2]
  BY <1>2
<1>6. s[1] = None /\ s[2] = None /\ s[3] # None => FirstSet(s) = s[3]
  BY <1>2
<1>7. s[1] = None /\ s[2] = None /\ s[3] = None /\ s[4] # None => FirstSet(s) = s[4]
  BY <1>2
<1>8. s[1] = None /\ s[2] = None /\ s[3] = None /\ s[4] = None /\ s[5] # None => FirstSet(s) = s[5]
  BY <1>2
<1>9. (s[1] = None /\ s[2] = None /\ s[3] = None /\ s[4] = None /\ s[5] = None) => FirstSet(s) = None
  BY <1>3
<1> QED BY <1>1, <1>4, <1>5, <1>6, <1>7, <1>8, <1>9 DEF s

LEMMA NormalSourceKind == \A source : NormalSource(source).kind \in SourceKind
BY DEF NormalSource, SourceKind

\* Setting fields of a row sets them, and nothing else.
LEMMA SetField ==
    ASSUME NEW row, IsRow(row), NEW f \in Field, NEW v
    PROVE  LET new == [row EXCEPT ![f] = v] IN
           /\ IsRow(new) /\ new[f] = v
           /\ \A g \in Field : g # f => new[g] = row[g]
BY DEF IsRow

LEMMA MigratedRow ==
    ASSUME NEW row, IsRow(row), NEW tenant, NEW t, NEW id
    PROVE  LET new == Migrate(row, tenant, t, id) IN
           /\ IsRow(new)
           /\ new.status = NormalStatus(row.status)
           /\ new.kpi = KpiOf(NormalStatus(row.status), NormalKpi(row.kpi))
           /\ new.source = NormalSource(row.source)
           /\ \A s \in Stamp : new[s] = row[s]
<1> DEFINE new == Migrate(row, tenant, t, id)
<1>1. IsRow(new)
  BY DEF Migrate, IsRow
<1>2. new.status = NormalStatus(row.status)
  BY DEF Migrate, IsRow, Field
<1>3. new.kpi = KpiOf(NormalStatus(row.status), NormalKpi(row.kpi))
  BY DEF Migrate, IsRow, Field
<1>4. new.source = NormalSource(row.source)
  BY DEF Migrate, IsRow, Field
<1>5. \A s \in Stamp : new[s] = row[s]
  BY DEF Migrate, IsRow, Field, Stamp
<1> QED BY <1>1, <1>2, <1>3, <1>4, <1>5

LEMMA StampsAreFields == \A s \in Stamp : s \in Field
BY DEF Field

LEMMA MovedRow ==
    ASSUME NEW row, IsRow(row), NEW to \in TripStatus, NEW t
    PROVE  /\ IsRow(Moved(row, to, t))
           /\ \A s \in Stamp : row[s] # None => Moved(row, to, t)[s] = row[s]
<1> DEFINE old == Migrate(row, row.tenant_id, t, row.trip_id)
           new == Moved(row, to, t)
<1>1. IsRow(old) /\ \A s \in Stamp : old[s] = row[s]
  BY MigratedRow
<1>2. DOMAIN Migrate(row, row.tenant_id, t, row.trip_id) = Field
  BY <1>1 DEF IsRow
<1>3. IsRow(new)
  <2>1. new = [f \in Field |-> new[f]]
    BY <1>2 DEF Moved
  <2> QED BY <2>1 DEF IsRow
<1>4. ASSUME NEW s \in Stamp, row[s] # None PROVE new[s] = row[s]
  <2>1. s \notin {"status", "updated_at", "kpi"} /\ s \in Field
    BY StampsAreFields DEF Stamp
  <2>2. new[s] = MovedField(old, s, to, t)
    BY <2>1, <1>2 DEF Moved
  <2>3. new[s] = IF s \in StampsOf(old, to) THEN Recorded(old[s], t) ELSE old[s]
    BY <2>1, <2>2 DEF MovedField
  <2>4. old[s] = row[s]
    BY <1>1
  <2>5. Recorded(old[s], t) = old[s]
    BY <2>4, <1>4, FirstOfTwo DEF Recorded
  <2> QED BY <2>3, <2>4, <2>5
<1> QED BY <1>3, <1>4

-----------------------------------------------------------------------------
(* The invariant: what is stored is a row *)

RowsStored == trips \in [Trip -> {trips[id] : id \in Trip}]
              /\ \A id \in Stored : IsRow(trips[id])

LEMMA RawRows == \A row \in Raw : IsRow(row)
BY RowsAssumption DEF IsRow

\* What a transition makes of a row is a row that keeps the row's moments.
LEMMA TransitionRow ==
    ASSUME NEW id \in Trip, NEW target \in TripStatus, Transition(id, target), RowsStored
    PROVE  /\ id \in Stored
           /\ \E row : /\ trips' = [trips EXCEPT ![id] = row]
                       /\ IsRow(row)
                       /\ \A s \in Stamp : trips[id][s] # None => row[s] = trips[id][s]
<1> DEFINE to == NormalStatus(target)
<1>1. id \in Stored /\ IsRow(trips[id]) /\ to \in TripStatus
  BY DEF Transition, RowsStored, NormalStatus, TripStatus
<1>2. CASE trips' = [trips EXCEPT ![id] = Migrate(@, @.tenant_id, now, @.trip_id)]
  <2> DEFINE new == Migrate(trips[id], trips[id].tenant_id, now, trips[id].trip_id)
  <2>1. trips' = [trips EXCEPT ![id] = new]
    BY <1>2
  <2>2. IsRow(new) /\ \A s \in Stamp : new[s] = trips[id][s]
    BY <1>1, MigratedRow
  <2> HIDE DEF new
  <2> QED BY <1>1, <2>1, <2>2
<1>3. CASE trips' = [trips EXCEPT ![id] = Moved(@, to, now)]
  <2> DEFINE new == Moved(trips[id], to, now)
  <2>1. trips' = [trips EXCEPT ![id] = new]
    BY <1>3
  <2>2. IsRow(new) /\ \A s \in Stamp : trips[id][s] # None => new[s] = trips[id][s]
    BY <1>1, MovedRow
  <2> HIDE DEF new
  <2> QED BY <1>1, <2>1, <2>2
<1> QED BY <1>1, <1>2, <1>3 DEF Transition

\* Every step sets at most one row, to a row that keeps its moments.
LEMMA StepRow ==
    ASSUME RowsStored, [Next]_vars
    PROVE  \/ trips' = trips
           \/ \E id \in Trip : \E row :
                 /\ trips' = [trips EXCEPT ![id] = row]
                 /\ IsRow(row)
                 /\ id \in Stored =>
                       \A s \in Stamp : trips[id][s] # None => row[s] = trips[id][s]
<1>1. ASSUME NEW id \in Trip, NEW row \in Raw, Import(id, row)
      PROVE  id \notin Stored /\ trips' = [trips EXCEPT ![id] = row] /\ IsRow(row)
  BY <1>1, RawRows DEF Import
<1>2. ASSUME NEW id \in Trip, Upgrade(id)
      PROVE  \E row : /\ trips' = [trips EXCEPT ![id] = row] /\ IsRow(row)
                      /\ \A s \in Stamp : row[s] = trips[id][s]
  <2>1. IsRow(trips[id]) /\ trips' = [trips EXCEPT ![id] = Migrate(trips[id], Store, now, id)]
    BY <1>2 DEF Upgrade, RowsStored
  <2> DEFINE new == Migrate(trips[id], Store, now, id)
  <2>2. IsRow(new) /\ \A s \in Stamp : new[s] = trips[id][s]
    BY <2>1, MigratedRow
  <2>3. trips' = [trips EXCEPT ![id] = new]
    BY <2>1
  <2> HIDE DEF new
  <2> QED BY <2>2, <2>3
<1>3. CASE Tick \/ UNCHANGED vars
  BY <1>3 DEF Tick, vars
<1> QED BY <1>1, <1>2, <1>3, TransitionRow DEF Next

LEMMA RowsInit == Init => RowsStored
BY DEF Init, RowsStored, Stored

LEMMA RowsStep == RowsStored /\ [Next]_vars => RowsStored'
<1> SUFFICES ASSUME RowsStored, [Next]_vars PROVE RowsStored'
  OBVIOUS
<1>1. CASE trips' = trips
  BY <1>1 DEF RowsStored, Stored
<1>2. ASSUME NEW id \in Trip, NEW row, trips' = [trips EXCEPT ![id] = row], IsRow(row)
      PROVE  RowsStored'
  <2>1. DOMAIN trips = Trip
    BY DEF RowsStored
  <2>2. \A other \in Trip : trips'[other] = IF other = id THEN row ELSE trips[other]
    BY <1>2, <2>1
  <2>3. trips' \in [Trip -> {trips'[other] : other \in Trip}]
    BY <1>2, <2>1
  <2> QED BY <1>2, <2>2, <2>3 DEF RowsStored, Stored
<1> QED BY <1>1, <1>2, StepRow

LEMMA SpecRows == Spec => []RowsStored
BY RowsInit, RowsStep, PTL DEF Spec

-----------------------------------------------------------------------------
(* Migration comes to rest *)

\* A row in which migration finds nothing to fill in or to correct.
Rested(row) ==
    /\ row.trip_id # None /\ row.id = row.trip_id
    /\ row.tenant_id # None /\ row.origin_tenant_id # None
    /\ row.legal_entity_id # None \/ row.entity_id = None
    /\ NormalStatus(row.status) = row.status
    /\ KpiOf(row.status, NormalKpi(row.kpi)) = row.kpi
    /\ row.requester_id # None \/ (row.traveler_user_id = None /\ row.traveler_id = None)
    /\ row.traveler_user_id # None \/ row.requester_id = None
    /\ row.planned_start # None \/ row.period_start = None
    /\ row.period_start # None \/ row.planned_start = None
    /\ row.planned_end # None \/ row.period_end = None
    /\ row.period_end # None \/ row.planned_end = None
    /\ row.plan_document_id # None \/ row.approved_document_id = None
    /\ NormalSource(row.source) = row.source
    /\ row.dedupe_key # None
    /\ row.created_at # None /\ row.updated_at # None

LEMMA RestedStays ==
    ASSUME NEW row, IsRow(row), Rested(row), NEW tenant, NEW t, NEW id
    PROVE  Migrate(row, tenant, t, id) = row
<1>1. FirstSet(<<row.trip_id, row.id, id>>) = row.trip_id
  BY FirstOfThree DEF Rested
<1>2. FirstSet(<<row.tenant_id, tenant>>) = row.tenant_id
  BY FirstOfTwo DEF Rested
<1>3. FirstSet(<<row.origin_tenant_id, row.legal_tenant_id, row.tenant_origin_id,
                 row.tenant_id, tenant>>) = row.origin_tenant_id
  BY FirstOfFive DEF Rested
<1>4. FirstSet(<<row.legal_entity_id, row.entity_id>>) = row.legal_entity_id
  BY FirstOfTwo DEF Rested
<1>5. RequesterOf(row) = row.requester_id
  BY FirstOfThree DEF Rested, RequesterOf
<1>6. FirstSet(<<row.traveler_user_id, row.requester_id>>) = row.traveler_user_id
  BY FirstOfTwo DEF Rested
<1>7. /\ FirstSet(<<row.planned_start, row.period_start>>) = row.planned_start
      /\ FirstSet(<<row.period_start, row.planned_start>>) = row.period_start
      /\ FirstSet(<<row.planned_end, row.period_end>>) = row.planned_end
      /\ FirstSet(<<row.period_end, row.planned_end>>) = row.period_end
  BY FirstOfTwo DEF Rested
<1>8. FirstSet(<<row.plan_document_id, row.approved_document_id>>) = row.plan_document_id
  BY FirstOfTwo DEF Rested
<1>9. FirstSet(<<row.dedupe_key, row.source.dedupe, row.trip_id>>) = row.dedupe_key
  BY FirstOfThree DEF Rested
<1>10. /\ FirstSet(<<row.created_at, t>>) = row.created_at
       /\ FirstSet(<<row.updated_at, t>>) = row.updated_at
  BY FirstOfTwo DEF Rested
<1>11. /\ NormalStatus(row.status) = row.status
       /\ KpiOf(row.status, NormalKpi(row.kpi)) = row.kpi
       /\ NormalSource(row.source) = row.source
       /\ row.id = row.trip_id
  BY DEF Rested
<1> DEFINE new == Migrate(row, tenant, t, id)
<1>12. new = [f \in Field |-> new[f]]
  BY DEF Migrate, IsRow
<1>13. ASSUME NEW f \in Field PROVE new[f] = row[f]
  BY <1>1, <1>2, <1>3, <1>4, <1>5, <1>6, <1>7, <1>8, <1>9, <1>10, <1>11
     DEF Migrate, IsRow
<1> HIDE DEF new
<1>14. new = row
  BY <1>12, <1>13 DEF IsRow
<1> QED BY <1>14 DEF new

LEMMA SourceRests ==
    ASSUME NEW source, NormalSource(source) # None
    PROVE  NormalSource(NormalSource(source)) = NormalSource(source)
<1> DEFINE s == NormalSource(source)
<1>1. /\ s = [kind |-> s.kind, document |-> s.document, dedupe |-> s.dedupe]
      /\ s.kind \in SourceKind
      /\ s.dedupe = None => s.document = None
  BY FirstOfTwo DEF NormalSource, SourceKind
<1> HIDE DEF s
<1>2. FirstSet(<<s.dedupe, s.document>>) = s.dedupe
  BY <1>1, FirstOfTwo
<1>3. NormalSource(s) = [kind |-> s.kind, document |-> s.document, dedupe |-> s.dedupe]
  BY <1>1, <1>2 DEF NormalSource, s
<1> QED BY <1>1, <1>3 DEF s

LEMMA MigratedRests ==
    ASSUME NEW row, IsRow(row), NormalSource(row.source) # None,
           NEW t, t # None, NEW id, id # None
    PROVE  Rested(Migrate(row, Store, t, id))
<1> DEFINE new == Migrate(row, Store, t, id)
<1>0. Store # None
  BY TripsAssumption
<1>1. new.trip_id # None /\ new.id = new.trip_id
  BY FirstOfThree DEF Migrate, IsRow, Field
<1>2. new.tenant_id # None /\ new.origin_tenant_id # None
  BY <1>0, FirstOfTwo, FirstOfFive DEF Migrate, IsRow, Field
<1>3. new.legal_entity_id # None \/ new.entity_id = None
  BY FirstOfTwo DEF Migrate, IsRow, Field
<1>4. /\ NormalStatus(new.status) = new.status
      /\ KpiOf(new.status, NormalKpi(new.kpi)) = new.kpi
  <2>1. /\ new.status = NormalStatus(row.status)
        /\ new.kpi = KpiOf(NormalStatus(row.status), NormalKpi(row.kpi))
    BY MigratedRow
  <2>2. NormalStatus(row.status) \in TripStatus /\ NormalKpi(row.kpi) \in KpiStatus
    BY DEF NormalStatus, NormalKpi, TripStatus, KpiStatus
  <2> HIDE DEF new
  <2> QED BY <2>1, <2>2 DEF NormalStatus, NormalKpi, KpiOf, KpiStatus
<1>5. /\ new.requester_id = RequesterOf(row)
      /\ new.traveler_user_id = FirstSet(<<row.traveler_user_id, RequesterOf(row)>>)
      /\ new.traveler_id = row.traveler_id
  BY DEF Migrate, IsRow, Field
<1>6. /\ new.requester_id # None \/ (new.traveler_user_id = None /\ new.traveler_id = None)
      /\ new.traveler_user_id # None \/ new.requester_id = None
  <2>1. (row.requester_id # None \/ row.traveler_user_id # None \/ row.traveler_id # None)
          <=> RequesterOf(row) # None
    BY FirstOfThree DEF RequesterOf
  <2> HIDE DEF new
  <2> QED BY <1>5, <2>1, FirstOfTwo
<1>7. /\ new.planned_start = FirstSet(<<row.planned_start, row.period_start>>)
      /\ new.period_start = FirstSet(<<row.period_start, row.planned_start>>)
      /\ new.planned_end = FirstSet(<<row.planned_end, row.period_end>>)
      /\ new.period_end = FirstSet(<<row.period_end, row.planned_end>>)
  BY DEF Migrate, IsRow, Field
<1>8. /\ new.planned_start # None \/ new.period_start = None
      /\ new.period_start # None \/ new.planned_start = None
      /\ new.planned_end # None \/ new.period_end = None
      /\ new.period_end # None \/ new.planned_end = None
  <2> HIDE DEF new
  <2> QED BY <1>7, FirstOfTwo
<1>9. new.plan_document_id # None \/ new.approved_document_id = None
  BY FirstOfTwo DEF Migrate, IsRow, Field
<1>10. NormalSource(new.source) = new.source
  BY MigratedRow, SourceRests
<1>11. new.dedupe_key # None
  <2>1. FirstSet(<<row.trip_id, row.id, id>>) # None
    BY FirstOfThree
  <2>2. new.dedupe_key = FirstSet(<<row.dedupe_key, NormalSource(row.source).dedupe,
                                    FirstSet(<<row.trip_id, row.id, id>>)>>)
    BY DEF Migrate, IsRow, Field
  <2> HIDE DEF new
  <2> QED BY <2>1, <2>2, FirstOfThree
<1>12. new.created_at # None /\ new.updated_at # None
  BY FirstOfTwo DEF Migrate, IsRow, Field
<1> HIDE DEF new
<1>13. Rested(new)
  BY <1>1, <1>2, <1>3, <1>4, <1>6, <1>8, <1>9, <1>10, <1>11, <1>12 DEF Rested
<1> QED BY <1>13 DEF new

\* Time is a moment, and stored sources are not empty once normalised.
Sourced == now \in 1..MaxTime /\ \A id \in Stored : NormalSource(trips[id].source) # None

LEMMA SourcedInit == Init => Sourced
BY TripsAssumption DEF Init, Sourced, Stored

LEMMA MovedSource ==
    ASSUME NEW row, IsRow(row), NEW to, NEW t
    PROVE  Moved(row, to, t).source = NormalSource(row.source)
<1> DEFINE old == Migrate(row, row.tenant_id, t, row.trip_id)
<1>1. IsRow(old) /\ old.source = NormalSource(row.source)
  BY MigratedRow
<1>2. "source" \in Field /\ "source" \notin StampsOf(old, to)
  BY DEF Field, StampsOf
<1> HIDE DEF old
<1>3. MovedField(old, "source", to, t) = old.source
  BY <1>2 DEF MovedField
<1>4. Moved(row, to, t) = [f \in DOMAIN old |-> MovedField(old, f, to, t)]
  BY DEF Moved, old
<1>5. "source" \in DOMAIN old
  BY <1>1, <1>2 DEF IsRow
<1> QED BY <1>1, <1>3, <1>4, <1>5

LEMMA SourcedStep == RowsStored /\ Sourced /\ [Next]_vars => Sourced'
<1> SUFFICES ASSUME RowsStored, Sourced, [Next]_vars PROVE Sourced'
  OBVIOUS
<1>1. ASSUME NEW id \in Trip, NEW row, NormalSource(row.source) # None,
             trips' = [trips EXCEPT ![id] = row], now' = now
      PROVE  Sourced'
  <2>1. \A other \in Trip : trips'[other] = IF other = id THEN row ELSE trips[other]
    BY <1>1 DEF RowsStored
  <2> QED BY <1>1, <2>1 DEF Sourced, Stored
<1>2. ASSUME NEW id \in Trip, NEW row \in Raw, Import(id, row) PROVE Sourced'
  BY <1>1, <1>2, NothingIsEmpty DEF Import
<1>3. ASSUME NEW id \in Stored, NEW tenant, NEW key,
             trips' = [trips EXCEPT ![id] = Migrate(trips[id], tenant, now, key)], now' = now
      PROVE  Sourced'
  <2> DEFINE row == Migrate(trips[id], tenant, now, key)
  <2>1. row.source = NormalSource(trips[id].source)
    BY MigratedRow DEF RowsStored
  <2>2. NormalSource(row.source) # None
    BY <2>1, SourceRests DEF Sourced
  <2> HIDE DEF row
  <2> QED BY <1>1, <1>3, <2>2 DEF Stored, row
<1>4. ASSUME NEW id \in Stored, NEW to,
             trips' = [trips EXCEPT ![id] = Moved(trips[id], to, now)], now' = now
      PROVE  Sourced'
  <2> DEFINE row == Moved(trips[id], to, now)
  <2>1. row.source = NormalSource(trips[id].source)
    BY MovedSource DEF RowsStored
  <2>2. NormalSource(row.source) # None
    BY <2>1, SourceRests DEF Sourced
  <2> HIDE DEF row
  <2> QED BY <1>1, <1>4, <2>2 DEF Stored, row
<1>5. ASSUME NEW id \in Trip, Upgrade(id) PROVE Sourced'
  BY <1>3, <1>5 DEF Upgrade
<1>6. ASSUME NEW id \in Trip, NEW target \in TripStatus, Transition(id, target) PROVE Sourced'
  <2>1. id \in Stored /\ now' = now
    BY <1>6 DEF Transition
  <2> QED BY <1>3, <1>4, <1>6, <2>1 DEF Transition
<1>7. CASE Tick
  BY <1>7, TripsAssumption DEF Tick, Sourced, Stored
<1>8. CASE UNCHANGED vars
  BY <1>8 DEF vars, Sourced, Stored
<1> QED BY <1>2, <1>5, <1>6, <1>7, <1>8 DEF Next

LEMMA SpecSourced == Spec => []Sourced
BY SourcedInit, SourcedStep, SpecRows, PTL DEF Spec

-----------------------------------------------------------------------------
(* Rights survive migration *)

\* What the permission predicates read of a row.
RightsField == {"executor_id", "site_id", "department_id", "org_unit_id",
                "approver_ids", "approval_user_ids"}

\* A row that nobody loses: what the predicates read is as it was, a requester
\* stays, and whoever was in scope still is.
Keeps(old, new) ==
    /\ \A f \in RightsField : new[f] = old[f]
    /\ Requester(old) # None => Requester(new) = Requester(old)
    /\ \A p : TripInScope(p, old, Store) => TripInScope(p, new, Store)

LEMMA MigratedScope ==
    ASSUME NEW row, IsRow(row), NEW tenant \in {Store, row.tenant_id}, NEW t, NEW id, NEW p,
           TripInScope(p, row, Store)
    PROVE  TripInScope(p, Migrate(row, tenant, t, id), Store)
<1> DEFINE new == Migrate(row, tenant, t, id)
<1>1. /\ new.tenant_id = FirstSet(<<row.tenant_id, tenant>>)
      /\ new.origin_tenant_id = FirstSet(<<row.origin_tenant_id, row.legal_tenant_id,
                                           row.tenant_origin_id, row.tenant_id, tenant>>)
      /\ new.legal_tenant_id = row.legal_tenant_id
  BY DEF Migrate, IsRow, Field
<1> HIDE DEF new
<1>2. row.tenant_id \in {None, Store}
  BY DEF TripInScope
<1>3. new.tenant_id \in {None, Store}
  BY <1>1, <1>2, FirstOfTwo
<1> DEFINE was == FirstSet(<<row.origin_tenant_id, row.legal_tenant_id, row.tenant_id, Store>>)
           is  == FirstSet(<<new.origin_tenant_id, new.legal_tenant_id, new.tenant_id, Store>>)
<1>4. is = was \/ was = Store
  BY <1>1, <1>2, <1>3, FirstOfFour, FirstOfFive, TripsAssumption
<1>5. p.tenant \in {None, was} \/ (p.tenant = Store /\ Store # was)
  BY DEF TripInScope
<1> HIDE DEF was, is
<1>6. p.tenant \in {None, is} \/ (p.tenant = Store /\ Store # is)
  BY <1>4, <1>5
<1> QED BY <1>3, <1>6 DEF TripInScope, is, new

LEMMA MigratedKeeps ==
    ASSUME NEW row, IsRow(row), NEW tenant \in {Store, row.tenant_id}, NEW t, NEW id
    PROVE  Keeps(row, Migrate(row, tenant, t, id))
<1> DEFINE new == Migrate(row, tenant, t, id)
<1>1. \A f \in RightsField : new[f] = row[f]
  BY DEF Migrate, IsRow, Field, RightsField
<1>2. /\ new.requester_id = FirstSet(<<row.requester_id, row.traveler_user_id, row.traveler_id>>)
  BY DEF Migrate, RequesterOf, IsRow, Field
<1>3. Requester(row) # None => Requester(new) = Requester(row)
  <2> HIDE DEF new
  <2> QED BY <1>2, FirstOfTwo, FirstOfThree DEF Requester
<1>4. \A p : TripInScope(p, row, Store) => TripInScope(p, new, Store)
  BY MigratedScope
<1> HIDE DEF new
<1>5. Keeps(row, new)
  BY <1>1, <1>3, <1>4 DEF Keeps
<1> QED BY <1>5 DEF new

LEMMA MovedKeeps ==
    ASSUME NEW row, IsRow(row), NEW to, NEW t
    PROVE  Keeps(row, Moved(row, to, t))
<1> DEFINE old == Migrate(row, row.tenant_id, t, row.trip_id)
           new == Moved(row, to, t)
           Read == RightsField \cup {"requester_id", "traveler_user_id", "tenant_id",
                                     "origin_tenant_id", "legal_tenant_id"}
<1>1. IsRow(old) /\ Keeps(row, old)
  BY MigratedRow, MigratedKeeps
<1> HIDE DEF old
<1>2. ASSUME NEW f \in Read PROVE new[f] = old[f]
  <2>1. f \in Field /\ f \notin Stamp \cup {"status", "updated_at", "kpi"}
    BY DEF RightsField, Field, Stamp
  <2>2. f \in DOMAIN old /\ f \notin StampsOf(old, to)
    BY <1>1, <2>1 DEF IsRow, StampsOf, Stamp
  <2>3. new[f] = MovedField(old, f, to, t)
    BY <2>2 DEF Moved, old
  <2> QED BY <2>1, <2>2, <2>3 DEF MovedField
<1> HIDE DEF new
<1>3. \A f \in RightsField : new[f] = old[f]
  BY <1>2
<1>4. Requester(new) = Requester(old)
  BY <1>2 DEF Requester
<1>5. \A p : TripInScope(p, new, Store) <=> TripInScope(p, old, Store)
  BY <1>2 DEF TripInScope
<1>6. Keeps(row, new)
  BY <1>1, <1>3, <1>4, <1>5 DEF Keeps
<1> QED BY <1>6 DEF new

LEMMA KeptRights ==
    ASSUME NEW v, v.p.user # None \/ HasAdminView(WorkflowRoles(v.p, v.profile)),
           NEW old, NEW new, Keeps(old, new)
    PROVE  /\ CanViewTrip(v.p, v.profile, v.theirs, old, Store)
                => CanViewTrip(v.p, v.profile, v.theirs, new, Store)
           /\ CanManageTrip(v.p, v.profile, old, Store)
                => CanManageTrip(v.p, v.profile, new, Store)
<1>1. /\ new.executor_id = old.executor_id /\ new.site_id = old.site_id
      /\ Department(new) = Department(old) /\ Approvers(new) = Approvers(old)
  BY DEF Keeps, RightsField, Department, Approvers
<1>2. TripInScope(v.p, old, Store) => TripInScope(v.p, new, Store)
  BY DEF Keeps
<1>3. /\ Requester(old) # None => Requester(new) = Requester(old)
      /\ v.p.user = Requester(old) /\ ~HasAdminView(WorkflowRoles(v.p, v.profile))
           => v.p.user = Requester(new)
  BY DEF Keeps
<1>4. RunsPlaceOf(v.profile, WorkflowRoles(v.p, v.profile), old)
        => RunsPlaceOf(v.profile, WorkflowRoles(v.p, v.profile), new)
  BY <1>1 DEF RunsPlaceOf
<1>5. CanManageTrip(v.p, v.profile, old, Store) => CanManageTrip(v.p, v.profile, new, Store)
  BY <1>1, <1>2, <1>3 DEF CanManageTrip
<1>6. CanViewTrip(v.p, v.profile, v.theirs, old, Store)
        => CanViewTrip(v.p, v.profile, v.theirs, new, Store)
  BY <1>1, <1>2, <1>3, <1>4 DEF CanViewTrip
<1> QED BY <1>5, <1>6

-----------------------------------------------------------------------------
(* The theorems *)

\* However a row came to the store and to its status, what readers are shown
\* of it has a status, a KPI status and a source kind the crate knows; only a
\* completed trip counts for the KPIs, and a cancelled one never does.
THEOREM KpiFollows == Spec => []KpiFollowsStatus
<1>1. RowsStored => KpiFollowsStatus
  <2> SUFFICES ASSUME NEW id \in Trip, trips[id] # None, IsRow(trips[id])
               PROVE  /\ Shown(id).status \in TripStatus /\ Shown(id).kpi \in KpiStatus
                      /\ Shown(id).source.kind \in SourceKind
                      /\ Shown(id).kpi \in {"ready", "reflected"} => Shown(id).status = "completed"
                      /\ Shown(id).status = "cancelled" => Shown(id).kpi = "not_applicable"
    BY DEF RowsStored, KpiFollowsStatus, Stored
  <2> DEFINE row == trips[id]
  <2>1. /\ Shown(id).status = NormalStatus(row.status)
        /\ Shown(id).kpi = KpiOf(NormalStatus(row.status), NormalKpi(row.kpi))
        /\ Shown(id).source = NormalSource(row.source)
    BY MigratedRow DEF Shown, ViewModel
  <2>2. NormalStatus(row.status) \in TripStatus /\ NormalKpi(row.kpi) \in KpiStatus
    BY DEF NormalStatus, NormalKpi, TripStatus, KpiStatus
  <2>3. Shown(id).source.kind \in SourceKind
    BY <2>1, NormalSourceKind
  <2> HIDE DEF row
  <2> QED BY <2>1, <2>2, <2>3 DEF KpiOf, KpiStatus, TripStatus
<1> QED BY <1>1, SpecRows, PTL

\* What a reader is shown of a migrated row is that row, at any later time and
\* whatever id and tenant the reader falls back to.
THEOREM MigrationRests == Spec => []MigrationSettles
<1>1. RowsStored /\ Sourced => MigrationSettles
  <2> SUFFICES ASSUME RowsStored, Sourced, NEW id \in Stored, NEW other \in Trip,
                      NEW t \in now..MaxTime
               PROVE  LET row == Migrate(trips[id], Store, now, id)
                      IN  Migrate(row, Store, t, other) = row /\ ViewModel(row, t, other) = row
    BY DEF MigrationSettles
  <2> DEFINE row == Migrate(trips[id], Store, now, id)
  <2>1. /\ IsRow(trips[id]) /\ NormalSource(trips[id].source) # None
        /\ now # None /\ id # None
    BY NothingIsEmpty DEF RowsStored, Sourced, Stored
  <2>2. IsRow(row) /\ Rested(row)
    BY <2>1, MigratedRow, MigratedRests
  <2> HIDE DEF row
  <2>3. Migrate(row, Store, t, other) = row /\ ViewModel(row, t, other) = row
    BY <2>2, RestedStays DEF ViewModel
  <2> QED BY <2>3 DEF row
<1> QED BY <1>1, SpecRows, SpecSourced, PTL

\* Two stored rows never name one document or one key in their sources: the
\* guard of an import compares normalised sources, and migration keeps them.
THEOREM OneTrip == Spec => []OneTripPerSource
<1> DEFINE Differ(a, b) == /\ a.document # None => a.document # b.document
                           /\ a.dedupe # None => a.dedupe # b.dedupe
           Src(id) == NormalSource(trips[id].source)
<1>1. OneTripPerSource <=>
        \A id, other \in Stored : id # other => Differ(Src(id), Src(other))
  BY DEF OneTripPerSource
<1>2. Init => OneTripPerSource
  BY DEF Init, OneTripPerSource, Stored
<1>3. RowsStored /\ Sourced /\ OneTripPerSource /\ [Next]_vars => OneTripPerSource'
  <2> SUFFICES ASSUME RowsStored, Sourced, OneTripPerSource, [Next]_vars
               PROVE  OneTripPerSource'
    OBVIOUS
  <2>1. ASSUME NEW id \in Stored, NEW row, NormalSource(row.source) = Src(id),
               trips' = [trips EXCEPT ![id] = row]
        PROVE  OneTripPerSource'
    <3>1. \A x \in Trip : trips'[x] = IF x = id THEN row ELSE trips[x]
      BY <2>1 DEF RowsStored
    <3>2. \A x \in Stored' : x \in Stored /\ Src(x)' = Src(x)
      BY <2>1, <3>1 DEF Stored
    <3> QED BY <3>2 DEF OneTripPerSource
  <2>2. ASSUME NEW id \in Trip, NEW row \in Raw, Import(id, row)
        PROVE  OneTripPerSource'
    <3>1. \A x \in Trip : trips'[x] = IF x = id THEN row ELSE trips[x]
      BY <2>2 DEF Import, RowsStored
    <3>2. ASSUME NEW other \in Stored
          PROVE  Differ(NormalSource(row.source), Src(other))
                 /\ Differ(Src(other), NormalSource(row.source))
      BY <2>2 DEF Import, SourceMatches
    <3>3. \A x \in Stored' : x # id => x \in Stored /\ Src(x)' = Src(x)
      BY <3>1 DEF Stored
    <3>4. Src(id)' = NormalSource(row.source)
      BY <3>1
    <3> QED BY <3>2, <3>3, <3>4 DEF OneTripPerSource
  <2>3. ASSUME NEW id \in Stored, NEW tenant, NEW key,
               trips' = [trips EXCEPT ![id] = Migrate(trips[id], tenant, now, key)]
        PROVE  OneTripPerSource'
    <3> DEFINE row == Migrate(trips[id], tenant, now, key)
    <3>1. NormalSource(row.source) = Src(id)
      BY MigratedRow, SourceRests DEF RowsStored, Sourced
    <3> HIDE DEF row
    <3> QED BY <2>1, <2>3, <3>1 DEF row
  <2>4. ASSUME NEW id \in Stored, NEW to,
               trips' = [trips EXCEPT ![id] = Moved(trips[id], to, now)]
        PROVE  OneTripPerSource'
    <3> DEFINE row == Moved(trips[id], to, now)
    <3>1. NormalSource(row.source) = Src(id)
      BY MovedSource, SourceRests DEF RowsStored, Sourced
    <3> HIDE DEF row
    <3> QED BY <2>1, <2>4, <3>1 DEF row
  <2>5. ASSUME NEW id \in Trip, Upgrade(id) PROVE OneTripPerSource'
    BY <2>3, <2>5 DEF Upgrade
  <2>6. ASSUME NEW id \in Trip, NEW target \in TripStatus, Transition(id, target)
        PROVE  OneTripPerSource'
    <3>1. id \in Stored
      BY <2>6 DEF Transition
    <3> QED BY <2>3, <2>4, <2>6, <3>1 DEF Transition
  <2>7. CASE Tick \/ UNCHANGED vars
    BY <2>7 DEF Tick, vars, OneTripPerSource, Stored
  <2> QED BY <2>2, <2>5, <2>6, <2>7 DEF Next
<1> QED BY <1>2, <1>3, SpecRows, SpecSourced, PTL DEF Spec

\* No move, repetition or migration rewrites a recorded moment.
THEOREM StampsKept == Spec => StampsAreKept
<1>1. RowsStored /\ [Next]_vars =>
        [\A id \in Stored, s \in Stamp :
            trips[id][s] # None => trips'[id][s] = trips[id][s]]_vars
  <2> SUFFICES ASSUME RowsStored, [Next]_vars, NEW id \in Stored, NEW s \in Stamp,
                      trips[id][s] # None
               PROVE  trips'[id][s] = trips[id][s]
    OBVIOUS
  <2>1. CASE trips' = trips
    BY <2>1
  <2>2. ASSUME NEW one \in Trip, NEW row, trips' = [trips EXCEPT ![one] = row],
               one \in Stored =>
                 \A x \in Stamp : trips[one][x] # None => row[x] = trips[one][x]
        PROVE  trips'[id][s] = trips[id][s]
    BY <2>2 DEF RowsStored, Stored
  <2> QED BY <2>1, <2>2, StepRow
<1> QED BY <1>1, SpecRows, PTL DEF Spec, StampsAreKept

\* Nobody who has a user id, or sees everything anyway, loses a trip to its
\* migration or a move: the fallbacks of the predicates are the migration's.
THEOREM NobodyLoses ==
    ASSUME \A v \in Viewer : v.p.user # None \/ HasAdminView(WorkflowRoles(v.p, v.profile))
    PROVE  Spec => NobodyLosesTheTrip
<1> DEFINE Kept(id, v) ==
      /\ CanViewTrip(v.p, v.profile, v.theirs, trips[id], Store)
           => CanViewTrip(v.p, v.profile, v.theirs, trips'[id], Store)
      /\ CanManageTrip(v.p, v.profile, trips[id], Store)
           => CanManageTrip(v.p, v.profile, trips'[id], Store)
<1>1. RowsStored /\ [Next]_vars =>
        [\A id \in Stored : trips'[id] # trips[id] => \A v \in Viewer : Kept(id, v)]_vars
  <2> SUFFICES ASSUME RowsStored, [Next]_vars, NEW id \in Stored, trips'[id] # trips[id],
                      NEW v \in Viewer
               PROVE  Kept(id, v)
    OBVIOUS
  <2>1. IsRow(trips[id]) /\ DOMAIN trips = Trip /\ id \in Trip
    BY DEF RowsStored, Stored
  <2>2. ASSUME Keeps(trips[id], trips'[id]) PROVE Kept(id, v)
    BY <2>2, KeptRights
  <2>3. ASSUME NEW one \in Trip, NEW row \in Raw, Import(one, row) PROVE FALSE
    BY <2>1, <2>3 DEF Import
  <2>4. ASSUME NEW one \in Trip, Upgrade(one) PROVE Keeps(trips[id], trips'[id])
    <3>1. one = id /\ trips'[id] = Migrate(trips[id], Store, now, id)
      BY <2>1, <2>4 DEF Upgrade
    <3> QED BY <2>1, <3>1, MigratedKeeps
  <2>5. ASSUME NEW one \in Trip, NEW target \in TripStatus, Transition(one, target)
        PROVE  Keeps(trips[id], trips'[id])
    <3>1. CASE trips' = [trips EXCEPT ![one] = Migrate(@, @.tenant_id, now, @.trip_id)]
      <4>1. trips'[id] = Migrate(trips[id], trips[id].tenant_id, now, trips[id].trip_id)
        BY <2>1, <3>1
      <4> QED BY <2>1, <4>1, MigratedKeeps
    <3>2. CASE trips' = [trips EXCEPT ![one] = Moved(@, NormalStatus(target), now)]
      <4>1. trips'[id] = Moved(trips[id], NormalStatus(target), now)
        BY <2>1, <3>2
      <4> QED BY <2>1, <4>1, MovedKeeps
    <3> QED BY <2>5, <3>1, <3>2 DEF Transition
  <2>6. CASE Tick \/ UNCHANGED vars
    BY <2>6 DEF Tick, vars
  <2> QED BY <2>2, <2>3, <2>4, <2>5, <2>6 DEF Next
<1> QED BY <1>1, SpecRows, PTL DEF Spec, NobodyLosesTheTrip

\* Who manages a trip sees it, who evaluates it sees it and may evaluate,
\* who closes a month sees its report: for every row, viewer and store.
THEOREM RightsNested == Spec => []RightsNest
<1>1. RightsNest
  <2> SUFFICES ASSUME NEW id \in Stored, NEW v \in Viewer
               PROVE  /\ CanManageTrip(v.p, v.profile, trips[id], Store)
                           => CanViewTrip(v.p, v.profile, v.theirs, trips[id], Store)
                      /\ CanEvaluateOverdue(v.p, v.profile, trips[id], Store)
                           => /\ CanViewTrip(v.p, v.profile, v.theirs, trips[id], Store)
                              /\ CanRunOverdueEvaluator(v.p, v.profile)
                      /\ CanCloseMonth(v.p, v.profile, trips[id].site_id)
                           => CanViewSiteReport(v.p, v.profile, trips[id].site_id)
                      /\ CanAdministerTrips(v.p, v.profile) /\ TripInScope(v.p, trips[id], Store)
                           => CanManageTrip(v.p, v.profile, trips[id], Store)
    BY DEF RightsNest
  <2>1. CanManageTrip(v.p, v.profile, trips[id], Store)
          => CanViewTrip(v.p, v.profile, v.theirs, trips[id], Store)
    BY DEF CanManageTrip, CanViewTrip
  <2>2. CanEvaluateOverdue(v.p, v.profile, trips[id], Store)
          => CanViewTrip(v.p, v.profile, v.theirs, trips[id], Store)
    BY DEF CanEvaluateOverdue, CanViewTrip
  <2>3. CanEvaluateOverdue(v.p, v.profile, trips[id], Store)
          => CanRunOverdueEvaluator(v.p, v.profile)
    BY DEF CanEvaluateOverdue, CanRunOverdueEvaluator, RunsPlaceOf
  <2>4. CanCloseMonth(v.p, v.profile, trips[id].site_id)
          => CanViewSiteReport(v.p, v.profile, trips[id].site_id)
    BY DEF CanCloseMonth
  <2>5. CanAdministerTrips(v.p, v.profile) /\ TripInScope(v.p, trips[id], Store)
          => CanManageTrip(v.p, v.profile, trips[id], Store)
    BY DEF CanAdministerTrips, CanManageTrip
  <2> QED BY <2>1, <2>2, <2>3, <2>4, <2>5
<1> QED BY <1>1, PTL
=============================================================================
