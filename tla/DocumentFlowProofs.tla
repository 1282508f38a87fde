------------------------ MODULE DocumentFlowProofs --------------------------
(***************************************************************************)
(* Proofs about DocumentFlow for any forms, approval lines and people:     *)
(* whoever is to decide was asked, the requester finds the document in one *)
(* box, the fields of the document are those of the form, rights nest.     *)
(***************************************************************************)
EXTENDS DocumentFlow, FiniteSetTheorems, WellFoundedInduction, TLAPS

-----------------------------------------------------------------------------
(* The inductive invariant *)

DocField == {"type", "trip_id", "origin_tenant_id", "content_origin_tenant_id",
             "content_legal_tenant_id", "requester", "site", "status", "steps",
             "cc", "gw", "fields"}
IsStep(s) == s = [approver |-> s.approver, status |-> s.status]

Shape ==
    /\ doc = [f \in DocField |-> doc[f]]
    /\ doc.requester \in Asker /\ doc.status \in DocStatus
    /\ \E n \in Nat : DOMAIN doc.steps = 1..n
    /\ \A i \in DOMAIN doc.steps : IsStep(doc.steps[i])
    /\ form \in Form /\ rounds \in Nat

HasTodo(u) == \E t \in todos : /\ t.action = "todo" /\ t.source = "workflow_approval"
                              /\ t.user = u /\ t.due # None

\* Not only the approver in turn: everybody on the line was asked at once.
LineAsked ==
    Active(doc.status) =>
        \A i \in DOMAIN doc.steps :
            Id(doc.steps[i].approver) # None => HasTodo(Id(doc.steps[i].approver))

\* A form that was submitted once had no errors, and the document has its fields.
Filled == rounds > 0 => /\ Errors(form.type, form.values) = {}
                        /\ doc.fields = DocumentFields(form.values)

IInv == Shape /\ LineAsked /\ Filled

-----------------------------------------------------------------------------
(* Lemmas about numbers and lists *)

\* A set of numbers has a least one: the sets 0..n are well founded.
LEMMA LeastElement ==
    ASSUME NEW S \in SUBSET Nat, S # {}
    PROVE  \E n \in S : \A m \in S : n <= m
<1> DEFINE Below == {0..n : n \in S}
           R == StrictSubsetOrdering(Nat)
<1>1. Below \subseteq FiniteSubsetsOf(Nat) /\ Below # {}
  <2>1. \A n \in S : 0..n \in SUBSET Nat /\ IsFiniteSet(0..n)
    BY FS_Interval
  <2> QED BY <2>1 DEF FiniteSubsetsOf
<1>2. IsWellFoundedOn(R, FiniteSubsetsOf(Nat))
  BY FS_StrictSubsetOrderingWellFounded
<1>3. \E x \in Below : \A y \in Below : ~ (<<y, x>> \in R)
  BY <1>1, <1>2, WFMin
<1>4. PICK n \in S : \A m \in S : ~ (<<0..m, 0..n>> \in R)
  BY <1>3
<1>5. ASSUME NEW m \in S, m < n PROVE FALSE
  <2>1. 0..m \subseteq 0..n /\ n \in 0..n /\ n \notin 0..m
    BY <1>5
  <2>2. <<0..m, 0..n>> \in R
    BY <2>1 DEF StrictSubsetOrdering
  <2> QED BY <2>2, <1>4
<1> QED BY <1>5

\* FirstSet finds the value before which all are empty.
LEMMA FirstFound ==
    ASSUME NEW n \in Nat, NEW s, DOMAIN s = 1..n
    PROVE  /\ \A k \in 1..n : s[k] # None /\ (\A j \in 1..n : j < k => s[j] = None)
                => FirstSet(s) = s[k]
           /\ (\A i \in 1..n : s[i] = None) => FirstSet(s) = None
<1> DEFINE Least(i) == s[i] # None /\ \A j \in 1..n : s[j] # None => i <= j
<1>1. FirstSet(s) = IF \E i \in 1..n : s[i] # None
                    THEN s[CHOOSE i \in 1..n : Least(i)] ELSE None
  BY DEF FirstSet
<1>2. ASSUME NEW k \in 1..n, s[k] # None, \A j \in 1..n : j < k => s[j] = None
      PROVE  FirstSet(s) = s[k]
  <2>1. \A i \in 1..n : Least(i) <=> i = k
    BY <1>2
  <2>2. (CHOOSE i \in 1..n : Least(i)) = k
    BY <2>1
  <2> HIDE DEF Least
  <2> QED BY <1>1, <1>2, <2>2
<1>3. (\A i \in 1..n : s[i] = None) => FirstSet(s) = None
  BY <1>1
<1> QED BY <1>2, <1>3

LEMMA FirstOfTwo ==
    ASSUME NEW a, NEW b
    PROVE  FirstSet(<<a, b>>) =
           IF a # None THEN a ELSE b
<1> DEFINE s == <<a, b>>
<1>1. DOMAIN s = 1..2 /\ s[1] = a /\ s[2] = b
  OBVIOUS
<1> HIDE DEF s
<1>2. ASSUME NEW k \in 1..2, s[k] # None, \A j \in 1..2 : j < k => s[j] = None
      PROVE  FirstSet(s) = s[k]
  BY <1>1, <1>2, FirstFound
<1>3. (\A i \in 1..2 : s[i] = None) => FirstSet(s) = None
  BY <1>1, FirstFound
<1>4. s[1] # None => FirstSet(s) = s[1]
  BY <1>2
<1>5. s[1] = None /\ s[2] # None => FirstSet(s) = s[2]
  BY <1>2
<1>6. (s[1] = None /\ s[2] = None) => FirstSet(s) = None
  BY <1>3
<1> QED BY <1>1, <1>4, <1>5, <1>6 DEF s

\* The least of the steps that wait.
LEMMA CurrentIsLeast ==
    ASSUME Shape, Pending(doc) # {}
    PROVE  Current(doc) \in DOMAIN doc.steps
<1>1. Pending(doc) \in SUBSET Nat
  BY DEF Shape, Pending
<1>2. \E i \in Pending(doc) : \A j \in Pending(doc) : i <= j
  BY <1>1, LeastElement
<1>3. Current(doc) \in Pending(doc)
  BY <1>2 DEF Current
<1> QED BY <1>3 DEF Pending

\* To trim the ids of a document changes nothing else about its steps.
LEMMA CleanedSteps ==
    ASSUME Shape
    PROVE  /\ Cleaned(doc).status = doc.status
           /\ DOMAIN Cleaned(doc).steps = DOMAIN doc.steps
           /\ \A i \in DOMAIN doc.steps : Cleaned(doc).steps[i].approver = Id(doc.steps[i].approver)
           /\ Pending(Cleaned(doc)) = Pending(doc)
           /\ Current(Cleaned(doc)) = Current(doc)
<1> DEFINE s == [i \in DOMAIN doc.steps |->
                   [approver |-> Id(doc.steps[i].approver), status |-> doc.steps[i].status]]
<1>1. Cleaned(doc) = [doc EXCEPT !.requester = Id(doc.requester), !.steps = s]
  BY DEF Cleaned
<1>2. /\ DOMAIN s = DOMAIN doc.steps
      /\ \A i \in DOMAIN doc.steps : /\ s[i].approver = Id(doc.steps[i].approver)
                                     /\ s[i].status = doc.steps[i].status
  OBVIOUS
<1> HIDE DEF s
<1>3. Cleaned(doc).steps = s /\ Cleaned(doc).status = doc.status
  BY <1>1 DEF Shape, DocField
<1>4. Pending(Cleaned(doc)) = Pending(doc)
  BY <1>2, <1>3 DEF Pending
<1>5. Current(Cleaned(doc)) = Current(doc)
  BY <1>4 DEF Current
<1> QED BY <1>2, <1>3, <1>4, <1>5

\* Everybody on a line has a step that asks them.
LEMMA AllAsked ==
    ASSUME NEW line \in Line, NEW i \in DOMAIN line, Id(line[i]) # None
    PROVE  \E j \in FirstOnLine(line) : Id(line[j]) = Id(line[i])
<1>1. DOMAIN line = 1..Len(line) /\ Len(line) \in Nat
  BY PeopleAssumption
<1> DEFINE Same == {j \in DOMAIN line : Id(line[j]) = Id(line[i])}
<1>2. Same \in SUBSET Nat /\ i \in Same
  BY <1>1
<1>3. PICK j \in Same : \A k \in Same : j <= k
  BY <1>2, LeastElement
<1>4. \A k \in 1..(j - 1) : Id(line[k]) # Id(line[j])
  BY <1>1, <1>3
<1> QED BY <1>3, <1>4 DEF FirstOnLine

-----------------------------------------------------------------------------
(* The steps *)

\* Every form asks for the day it begins.
LEMMA BeginAsked ==
    ASSUME NEW x \in Form, Errors(x.type, x.values) = {}
    PROVE  Typed(x.values, "period_start") # None
<1>1. F("period_start", "date", TRUE, "period_start") \in Schema(x.type)
  BY DEF Schema, Period, Bought, Begin
<1>2. ASSUME Typed(x.values, "period_start") = None
      PROVE  "period_start" \in Errors(x.type, x.values)
  BY <1>1, <1>2 DEF Errors, F
<1> QED BY <1>2

\* What is planned at a submission has a date.
LEMMA PlannedTodo ==
    ASSUME NEW fields, fields.period_start # None, NEW line \in Line, NEW cc, NEW u,
           NEW i \in DOMAIN line, Id(line[i]) # None
    PROVE  \E t \in AfterSubmission(fields, u, line, cc) :
              /\ t.action = "todo" /\ t.source = "workflow_approval"
              /\ t.user = Id(line[i]) /\ t.due # None
<1> DEFINE end == FirstSet(<<fields.period_end, fields.due_date, fields.period_start>>)
           due == FirstSet(<<end, fields.period_start>>)
<1>1. due # None
  <2> HIDE DEF end
  <2> QED BY FirstOfTwo
<1>2. PICK j \in FirstOnLine(line) : Id(line[j]) = Id(line[i])
  BY AllAsked
<1> DEFINE t == FollowUp("todo", "workflow_approval", j, Id(line[j]), due)
<1>3. t \in AfterSubmission(fields, u, line, cc)
  BY DEF AfterSubmission
<1>4. /\ t.action = "todo" /\ t.source = "workflow_approval"
      /\ t.user = Id(line[i]) /\ t.due = due
  BY <1>2 DEF FollowUp
<1> HIDE DEF due, t
<1> QED BY <1>1, <1>3, <1>4

LEMMA InitInv == Init => IInv
<1> SUFFICES ASSUME Init PROVE IInv
  OBVIOUS
<1>1. Shape
  BY DEF Init, Shape, DocField, DocStatus
<1>2. doc.status = "draft" /\ rounds = 0
  BY DEF Init
<1> QED BY <1>1, <1>2 DEF IInv, LineAsked, Filled, Active

LEMMA SubmitInv ==
    ASSUME IInv, NEW v \in People, NEW line \in Line, Submit(v, line)
    PROVE  IInv'
<1> DEFINE fields == DocumentFields(form.values)
           steps == [i \in DOMAIN line |-> [approver |-> line[i], status |-> "pending"]]
<1>1. doc' = [doc EXCEPT !.status = "submitted", !.fields = fields, !.steps = steps]
  BY DEF Submit
<1>2. /\ doc'.status = "submitted" /\ doc'.fields = fields /\ doc'.steps = steps
      /\ doc'.requester = doc.requester
      /\ doc' = [f \in DocField |-> doc'[f]]
  BY <1>1 DEF IInv, Shape, DocField
<1>3. /\ todos' = todos \cup AfterSubmission(fields, doc.requester, line, doc.cc)
      /\ rounds' = rounds + 1 /\ form' = form
      /\ Errors(form.type, form.values) = {}
  BY DEF Submit
<1>4. Len(line) \in Nat /\ DOMAIN line = 1..Len(line)
  BY PeopleAssumption
<1>5. Shape'
  <2>1. DOMAIN steps = 1..Len(line) /\ \A i \in DOMAIN steps : IsStep(steps[i])
    BY <1>4 DEF IsStep
  <2> HIDE DEF steps, fields
  <2> QED BY <1>2, <1>3, <1>4, <2>1 DEF IInv, Shape, DocStatus
<1>6. fields.period_start # None
  BY <1>3, BeginAsked DEF IInv, Shape, DocumentFields
<1>7. LineAsked'
  <2> HIDE DEF fields
  <2>1. ASSUME NEW i \in DOMAIN line, Id(line[i]) # None
        PROVE  \E t \in todos' : /\ t.action = "todo" /\ t.source = "workflow_approval"
                                  /\ t.user = Id(line[i]) /\ t.due # None
    BY <1>3, <1>6, <2>1, PlannedTodo
  <2>2. \A i \in DOMAIN doc'.steps : i \in DOMAIN line /\ doc'.steps[i].approver = line[i]
    BY <1>2
  <2> QED BY <2>1, <2>2 DEF LineAsked, HasTodo
<1>8. Filled'
  BY <1>2, <1>3 DEF Filled
<1> QED BY <1>5, <1>7, <1>8 DEF IInv

\* Steps after which the line, the fields and the form are as they were.
LEMMA SameLine ==
    ASSUME IInv, doc' = [f \in DocField |-> doc'[f]],
           doc'.requester = doc.requester, doc'.fields = doc.fields,
           doc'.status \in DocStatus, Active(doc'.status) => Active(doc.status),
           DOMAIN doc'.steps = DOMAIN doc.steps,
           \A i \in DOMAIN doc.steps : /\ IsStep(doc'.steps[i])
                                       /\ doc'.steps[i].approver = doc.steps[i].approver,
           todos \subseteq todos', UNCHANGED <<form, rounds>>
    PROVE  IInv'
<1>1. Shape'
  BY DEF IInv, Shape
<1>2. LineAsked'
  BY DEF IInv, LineAsked, HasTodo
<1>3. Filled'
  BY DEF IInv, Filled
<1> QED BY <1>1, <1>2, <1>3 DEF IInv

\* Steps that only move the status.
LEMMA SameSteps ==
    ASSUME IInv, NEW status \in DocStatus, doc' = [doc EXCEPT !.status = status],
           Active(status) => Active(doc.status), UNCHANGED <<form, todos, rounds>>
    PROVE  IInv'
<1>1. /\ doc' = [f \in DocField |-> doc'[f]]
      /\ doc'.requester = doc.requester /\ doc'.fields = doc.fields
      /\ doc'.steps = doc.steps /\ doc'.status = status
  BY DEF IInv, Shape, DocField
<1> QED BY <1>1, SameLine DEF IInv, Shape

LEMMA ApproveInv ==
    ASSUME IInv, NEW v \in People, Approve(v)
    PROVE  IInv'
<1> DEFINE last == Cardinality(Pending(doc)) = 1
           now  == IF last THEN "approved" ELSE "in_review"
           c    == Current(doc)
<1>1. Active(doc.status)
  BY CleanedSteps DEF IInv, Approve, MayApprove, CanApproveDocument, Active
<1>2. doc' = [doc EXCEPT !.steps[c].status = "approved", !.status = now]
  BY DEF Approve
<1> HIDE DEF c
<1>3. now \in DocStatus
  BY DEF DocStatus
<1> HIDE DEF now
<1>4. /\ doc' = [f \in DocField |-> doc'[f]]
      /\ doc'.requester = doc.requester /\ doc'.fields = doc.fields /\ doc'.status = now
  BY <1>2 DEF IInv, Shape, DocField
<1>5. doc'.steps = [doc.steps EXCEPT ![c].status = "approved"]
  BY <1>2 DEF IInv, Shape, DocField
<1>6. ASSUME NEW i \in DOMAIN doc.steps
      PROVE  IsStep(doc'.steps[i]) /\ doc'.steps[i].approver = doc.steps[i].approver
  <2>1. doc.steps[i] = [approver |-> doc.steps[i].approver, status |-> doc.steps[i].status]
    BY DEF IInv, Shape, IsStep
  <2>2. CASE i = c
    <3>1. doc'.steps[i] = [doc.steps[i] EXCEPT !.status = "approved"]
      BY <1>5, <2>2
    <3>2. doc'.steps[i] = [approver |-> doc.steps[i].approver, status |-> "approved"]
      BY <2>1, <3>1
    <3> QED BY <3>2 DEF IsStep
  <2>3. CASE i # c
    BY <1>5, <2>1, <2>3 DEF IsStep
  <2> QED BY <2>2, <2>3
<1>7. DOMAIN doc'.steps = DOMAIN doc.steps
  BY <1>5
<1>8. todos \subseteq todos' /\ UNCHANGED <<form, rounds>>
  BY DEF Approve
<1> QED BY <1>1, <1>3, <1>4, <1>6, <1>7, <1>8, SameLine

LEMMA StepInv == IInv /\ [Next]_vars => IInv'
<1> SUFFICES ASSUME IInv, [Next]_vars PROVE IInv'
  OBVIOUS
<1>1. ASSUME NEW v \in People, NEW verdict \in {"rejected", "requested_changes"},
             Refuse(v, verdict)
      PROVE  IInv'
  BY <1>1, SameSteps DEF Refuse, DocStatus, Active
<1>2. ASSUME NEW v \in People, Withdraw(v) PROVE IInv'
  BY <1>2, SameSteps DEF Withdraw, DocStatus, Active
<1>3. CASE Finish
  <2>1. PICK step \in {<<"approved", "completed">>, <<"completed", "closed">>} :
          doc' = [doc EXCEPT !.status = step[2]]
    BY <1>3 DEF Finish
  <2>2. step[2] \in {"completed", "closed"}
    OBVIOUS
  <2> QED BY <1>3, <2>1, <2>2, SameSteps DEF Finish, DocStatus, Active
<1>4. CASE UNCHANGED vars
  BY <1>4 DEF vars, IInv, Shape, LineAsked, HasTodo, Filled
<1> QED BY <1>1, <1>2, <1>3, <1>4, SubmitInv, ApproveInv DEF Next

LEMMA SpecInv == Spec => []IInv
BY InitInv, StepInv, PTL DEF Spec

-----------------------------------------------------------------------------
(* The fields of a document *)

\* What the first of some keys that is filled in says.
LEMMA FirstTypedIs ==
    ASSUME NEW keys, NEW n \in Nat, DOMAIN keys = 1..n, NEW values, NEW k \in DOMAIN keys,
           Typed(values, keys[k]) # None,
           \A j \in DOMAIN keys : j < k => Typed(values, keys[j]) = None
    PROVE  FirstTyped(values, keys) = Typed(values, keys[k])
<1> DEFINE s == [i \in DOMAIN keys |-> Typed(values, keys[i])]
<1>1. /\ DOMAIN s = 1..n /\ s[k] = Typed(values, keys[k])
      /\ \A j \in 1..n : j < k => s[j] = None
  OBVIOUS
<1> HIDE DEF s
<1>2. FirstSet(s) = s[k]
  BY <1>1, FirstFound
<1> QED BY <1>1, <1>2 DEF FirstTyped, s

\* Where the schema sends a field, and that no other field is found before it.
Goes(f, type) ==
    \/ f.to = f.key /\ f.key \in {"title", "period_start", "period_end", "due_date"}
    \/ /\ f.to = "total_amount" /\ f.kind = "number"
       /\ \/ f.key = "total_amount"
          \/ f.key = "estimated_amount" /\ "total_amount" \notin Keys(type)
    \/ /\ f.to = "summary"
       /\ \E k \in 1..6 : /\ f.key = SummaryKeys[k]
                          /\ \A j \in 1..6 : j < k => SummaryKeys[j] \notin Keys(type)

LEMMA SchemaGoes ==
    ASSUME NEW type, NEW f \in Schema(type), f.to # None
    PROVE  Goes(f, type)
<1>0. /\ DOMAIN SummaryKeys = 1..6
      /\ SummaryKeys[1] = "summary" /\ SummaryKeys[2] = "content"
      /\ SummaryKeys[3] = "business_trip_purpose" /\ SummaryKeys[4] = "purpose"
      /\ SummaryKeys[5] = "reason" /\ SummaryKeys[6] = "item_summary"
  BY DEF SummaryKeys
<1>1. CASE type = "ATTENDANCE_REQUEST"
  <2>1. \A g \in Schema(type) : g.key \in
           {"title", "period_start", "period_end", "attendance_type", "reason",
            "substitute"}
    BY <1>1 DEF Schema, Period, Begin, F
  <2>2. \/ f.to = f.key /\ f.key \in {"title", "period_start", "period_end"}
        \/ f.to = "summary" /\ f.key = "reason"
    BY <1>1 DEF Schema, Period, Begin, F
  <2> QED BY <1>0, <2>1, <2>2 DEF Goes, Keys
<1>2. CASE type = "PURCHASE_REQUEST"
  <2>1. \A g \in Schema(type) : g.key \in
           {"title", "period_start", "period_end", "total_amount", "purpose",
            "item_summary", "vendor"}
    BY <1>2 DEF Schema, Bought, Begin, F
  <2>2. \/ f.to = f.key /\ f.key \in {"title", "period_start", "period_end"}
        \/ f.to = "summary" /\ f.key = "purpose"
        \/ f.to = "total_amount" /\ f.key = "total_amount" /\ f.kind = "number"
    BY <1>2 DEF Schema, Bought, Begin, F
  <2> QED BY <1>0, <2>1, <2>2 DEF Goes, Keys
<1>3. CASE type = "EXPENSE_REPORT"
  <2>1. \A g \in Schema(type) : g.key \in
           {"title", "period_start", "period_end", "total_amount", "purpose",
            "expense_category"}
    BY <1>3 DEF Schema, Bought, Begin, F
  <2>2. \/ f.to = f.key /\ f.key \in {"title", "period_start", "period_end"}
        \/ f.to = "summary" /\ f.key = "purpose"
        \/ f.to = "total_amount" /\ f.key = "total_amount" /\ f.kind = "number"
    BY <1>3 DEF Schema, Bought, Begin, F
  <2> QED BY <1>0, <2>1, <2>2 DEF Goes, Keys
<1>4. CASE type = "CLOSING_REPORT"
  <2>1. \A g \in Schema(type) : g.key \in
           {"title", "period_start", "period_end", "closing_month", "summary",
            "issues"}
    BY <1>4 DEF Schema, Period, Begin, F
  <2>2. \/ f.to = f.key /\ f.key \in {"title", "period_start", "period_end"}
        \/ f.to = "summary" /\ f.key = "summary"
    BY <1>4 DEF Schema, Period, Begin, F
  <2> QED BY <1>0, <2>1, <2>2 DEF Goes, Keys
<1>5. CASE type = "BUSINESS_TRIP_REQUEST"
  <2>1. \A g \in Schema(type) : g.key \in
           {"title", "period_start", "period_end", "destination",
            "business_trip_purpose", "transportation", "estimated_amount",
            "executor_id", "expected_outcome", "site_id", "department_id",
            "trip_dedupe_key"}
    BY <1>5 DEF Schema, Period, Begin, F
  <2>2. \/ f.to = f.key /\ f.key \in {"title", "period_start", "period_end"}
        \/ f.to = "summary" /\ f.key = "business_trip_purpose"
        \/ f.to = "total_amount" /\ f.key = "estimated_amount" /\ f.kind = "number"
    BY <1>5 DEF Schema, Period, Begin, F
  <2> QED BY <1>0, <2>1, <2>2 DEF Goes, Keys
<1>6. CASE type \notin {"ATTENDANCE_REQUEST", "PURCHASE_REQUEST", "EXPENSE_REPORT",
                       "CLOSING_REPORT", "BUSINESS_TRIP_REQUEST"}
  <2>1. \A g \in Schema(type) : g.key \in
           {"title", "period_start", "period_end", "purpose", "content",
            "expected_outcome", "due_date"}
    BY <1>6 DEF Schema, Period, Begin, F
  <2>2. \/ f.to = f.key /\ f.key \in {"title", "period_start", "period_end"}
        \/ f.to = "summary" /\ f.key = "content"
        \/ f.to = f.key /\ f.key = "due_date"
    BY <1>6 DEF Schema, Period, Begin, F
  <2> QED BY <1>0, <2>1, <2>2 DEF Goes, Keys
<1> QED BY <1>1, <1>2, <1>3, <1>4, <1>5, <1>6

\* A form without errors fills the fields its schema names.
LEMMA FieldsOf ==
    ASSUME NEW x \in Form, Errors(x.type, x.values) = {}, NEW f \in Schema(x.type)
    PROVE  LET v == Typed(x.values, f.key)
           IN  /\ f.required => v # None
               /\ f.to # None /\ v # None /\ ~Shadowed(x, f.to, f.key) =>
                    DocumentFields(x.values)[f.to] = v
<1> DEFINE values == x.values
           v == Typed(values, f.key)
           fields == DocumentFields(values)
<1>1. ASSUME f.required, v = None PROVE FALSE
  BY <1>1 DEF Errors
<1>2. f.kind = "number" => v \in {None, "amount"}
  <2>1. f.kind = "number" => v # "words"
    BY DEF Errors
  <2> QED BY <2>1, FormsAssumption
<1>3. ASSUME f.to # None, v # None, ~Shadowed(x, f.to, f.key) PROVE fields[f.to] = v
  <2>1. Goes(f, x.type)
    BY <1>3, SchemaGoes
  <2>2. CASE f.to = f.key /\ f.key \in {"title", "period_start", "period_end"}
    BY <2>2 DEF DocumentFields
  <2>3. CASE f.to = f.key /\ f.key = "due_date"
    <3> DEFINE keys == DueKeys
    <3>1. keys = Searched(f.to) /\ DOMAIN keys = 1..2 /\ keys[1] = f.key
      BY <2>3 DEF Searched, DueKeys
    <3>2. fields[f.to] = FirstTyped(values, keys)
      BY <2>3 DEF DocumentFields
    <3> HIDE DEF keys
    <3>3. FirstTyped(values, keys) = Typed(values, keys[1])
      <4>1. 2 \in Nat /\ 1 \in 1..2 /\ \A j \in 1..2 : j < 1 => Typed(values, keys[j]) = None
        OBVIOUS
      <4>2. Typed(values, keys[1]) # None
        BY <1>3, <3>1
      <4> HIDE DEF values
      <4> QED BY <3>1, <4>1, <4>2, FirstTypedIs
    <3> QED BY <3>1, <3>2, <3>3
  <2>4. CASE /\ f.to = "total_amount" /\ f.kind = "number"
             /\ \/ f.key = "total_amount"
                \/ f.key = "estimated_amount" /\ "total_amount" \notin Keys(x.type)
    <3> DEFINE keys == AmountKeys
    <3>1. /\ keys = Searched(f.to) /\ DOMAIN keys = 1..2
          /\ keys[1] = "total_amount" /\ keys[2] = "estimated_amount"
      BY <2>4 DEF Searched, AmountKeys
    <3>2. fields[f.to] = Amount(FirstTyped(values, keys))
      BY <2>4 DEF DocumentFields
    <3> HIDE DEF keys
    <3>3. PICK k \in 1..2 :
            keys[k] = f.key /\ \A j \in 1..2 : j < k => keys[j] \notin Keys(x.type)
      BY <2>4, <3>1
    <3>4. FirstTyped(values, keys) = v
      <4>1. \A j \in DOMAIN keys : j < k => Typed(values, keys[j]) = None
        BY <1>3, <3>1, <3>3 DEF Shadowed
      <4>2. /\ 2 \in Nat /\ k \in DOMAIN keys /\ DOMAIN keys = 1..2
            /\ Typed(values, keys[k]) # None /\ Typed(values, keys[k]) = v
        BY <1>3, <3>1, <3>3
      <4> HIDE DEF values, v
      <4>3. FirstTyped(values, keys) = Typed(values, keys[k])
        BY <4>1, <4>2, FirstTypedIs
      <4> QED BY <4>2, <4>3
    <3>5. v = "amount"
      BY <1>2, <1>3, <2>4
    <3> QED BY <3>2, <3>4, <3>5 DEF Amount
  <2>5. CASE /\ f.to = "summary"
             /\ \E k \in 1..6 : /\ f.key = SummaryKeys[k]
                                /\ \A j \in 1..6 : j < k => SummaryKeys[j] \notin Keys(x.type)
    <3>1. DOMAIN SummaryKeys = 1..6 /\ SummaryKeys = Searched(f.to) /\ 6 \in Nat
      BY <2>5 DEF SummaryKeys, Searched
    <3>2. FirstTyped(values, SummaryKeys) = v
      <4>1. PICK k \in 1..6 : /\ f.key = SummaryKeys[k]
                             /\ \A j \in 1..6 : j < k => SummaryKeys[j] \notin Keys(x.type)
        BY <2>5
      <4>2. \A j \in 1..6 : j < k => Typed(values, SummaryKeys[j]) = None
        BY <1>3, <3>1, <4>1 DEF Shadowed
      <4>3. /\ Typed(values, SummaryKeys[k]) # None
            /\ Typed(values, SummaryKeys[k]) = v
        BY <1>3, <4>1
      <4> HIDE DEF values
      <4>4. FirstTyped(values, SummaryKeys) = Typed(values, SummaryKeys[k])
        BY <3>1, <4>2, <4>3, FirstTypedIs
      <4> QED BY <4>3, <4>4
    <3>3. fields[f.to] = FirstTyped(values, SummaryKeys)
      BY <2>5 DEF DocumentFields
    <3> QED BY <3>2, <3>3
  <2> QED BY <2>1, <2>2, <2>3, <2>4, <2>5 DEF Goes
<1> QED BY <1>1, <1>3

-----------------------------------------------------------------------------
(* The theorems *)

\* Whoever is in turn to decide has a todo with a date, and the document lies
\* in the box of documents to approve of everybody who may approve it.
THEOREM DecidersAsked == Spec => []DecidersWereAsked
<1>1. IInv => DecidersWereAsked
  <2> SUFFICES ASSUME IInv, NEW v \in People, MayApprove(v)
               PROVE  /\ InBox("to_approve", v.p.user, doc, TRUE)
                      /\ Id(doc.steps[Current(doc)].approver) = Id(v.p.user)
                           => HasTodo(Id(v.p.user))
    BY DEF DecidersWereAsked, HasTodo
  <2>1. Active(doc.status) /\ Pending(doc) # {}
    BY CleanedSteps DEF IInv, MayApprove, CanApproveDocument, Active
  <2>2. InBox("to_approve", v.p.user, doc, TRUE)
    BY <2>1 DEF InBox
  <2>3. Current(doc) \in DOMAIN doc.steps
    BY <2>1, CurrentIsLeast DEF IInv
  <2>4. Id(v.p.user) # None
    BY PeopleAssumption
  <2> QED BY <2>1, <2>2, <2>3, <2>4 DEF IInv, LineAsked
<1> QED BY <1>1, SpecInv, PTL

\* The fields of a submitted document are what its form says, and nothing
\* that a form requires is missing.
THEOREM FieldsFollow == Spec => []FieldsFollowSchema
<1>1. IInv => FieldsFollowSchema
  BY FieldsOf DEF IInv, Shape, Filled, FieldsFollowSchema
<1> QED BY <1>1, SpecInv, PTL

\* Nobody finds a document in two of the boxes for drafts, running, finished
\* and rejected documents, and the requester, named as in it, in one.
THEOREM RequesterFinds == Spec => []RequesterFindsDocument
<1>1. IInv => RequesterFindsDocument
  <2> SUFFICES ASSUME IInv, doc.gw = None, NEW v \in People
               PROVE  LET In(a) == InBox(a, v.p.user, doc, MayApprove(v))
                      IN  /\ \A a, b \in Shelves : In(a) /\ In(b) => a = b
                          /\ v.p.user = doc.requester => \E a \in Shelves : In(a)
    BY DEF RequesterFindsDocument
  <2> DEFINE In(a) == InBox(a, v.p.user, doc, MayApprove(v))
  <2>1. /\ In("my_draft") => doc.status \in {"draft", "requested_changes"}
        /\ In("in_progress") => doc.status \in {"submitted", "in_review"}
        /\ In("completed") => doc.status \in {"approved", "completed", "closed"}
        /\ In("rejected") => doc.status \in {"rejected", "cancelled"}
    BY DEF InBox, InRejected, Active
  <2>2. ASSUME v.p.user = doc.requester PROVE \E a \in Shelves : In(a)
    <3>1. Mine(v.p.user, doc)
      BY <2>2, PeopleAssumption DEF IInv, Shape, Mine
    <3>2. /\ doc.status \in {"draft", "requested_changes"} => In("my_draft")
          /\ doc.status \in {"submitted", "in_review"} => In("in_progress")
          /\ doc.status \in {"approved", "completed", "closed"} => In("completed")
          /\ doc.status \in {"rejected", "cancelled"} => In("rejected")
      BY <3>1 DEF InBox, InRejected, Active
    <3>3. doc.status \in DocStatus
      BY DEF IInv, Shape
    <3> HIDE DEF In
    <3> QED BY <3>2, <3>3 DEF DocStatus, Shelves
  <2>3. \A a, b \in Shelves : In(a) /\ In(b) => a = b
    <3> HIDE DEF In
    <3> QED BY <2>1 DEF Shelves
  <2> QED BY <2>2, <2>3
<1> QED BY <1>1, SpecInv, PTL

\* Who edits or approves a document sees it, nobody both edits and approves
\* it, and what waits to be approved does not circulate.
THEOREM RightsNested == Spec => []DocumentRightsNest
<1>1. IInv => DocumentRightsNest
  <2> SUFFICES ASSUME IInv, NEW v \in People
               PROVE  LET edits == CanEditDocument(Caller(v), v.profile, Cleaned(doc), Store)
                      IN  /\ edits \/ MayApprove(v) =>
                               CanViewDocument(Caller(v), v.profile, Cleaned(doc), Store)
                          /\ ~(edits /\ MayApprove(v))
                          /\ ~(/\ doc.gw = None
                               /\ InBox("to_approve", v.p.user, doc, MayApprove(v))
                               /\ InBox("circulate", v.p.user, doc, MayApprove(v)))
    BY DEF DocumentRightsNest
  <2>1. CanEditDocument(Caller(v), v.profile, Cleaned(doc), Store)
          => CanViewDocument(Caller(v), v.profile, Cleaned(doc), Store)
    BY DEF CanEditDocument, CanViewDocument
  <2>2. ASSUME MayApprove(v)
        PROVE  CanViewDocument(Caller(v), v.profile, Cleaned(doc), Store)
    <3>1. Current(Cleaned(doc)) \in DOMAIN Cleaned(doc).steps
      BY <2>2, CurrentIsLeast, CleanedSteps DEF IInv, MayApprove, CanApproveDocument
    <3> QED BY <2>2, <3>1 DEF MayApprove, CanApproveDocument, CanViewDocument
  <2>3. ~(CanEditDocument(Caller(v), v.profile, Cleaned(doc), Store) /\ MayApprove(v))
    BY DEF CanEditDocument, MayApprove, CanApproveDocument
  <2>4. ~(/\ doc.gw = None
          /\ InBox("to_approve", v.p.user, doc, MayApprove(v))
          /\ InBox("circulate", v.p.user, doc, MayApprove(v)))
    BY PeopleAssumption DEF InBox
  <2> QED BY <2>1, <2>2, <2>3, <2>4
<1> QED BY <1>1, SpecInv, PTL
=============================================================================
