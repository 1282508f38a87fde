---------------------------- MODULE DocumentFlow ----------------------------
(***************************************************************************)
(* A workflow document from its form to its end.  The crate decides: which *)
(* forms are complete (workflow_forms.rs), what follows a submission and   *)
(* an approval (workflow_follow_up.rs), in whose boxes the document lies   *)
(* (workflow_inbox.rs) and who may touch it (TripPermissions).  The store  *)
(* that acts on the decisions is not in the repository: it is modelled by  *)
(* the inputs those functions take, statuses, approval steps, a line.      *)
(*                                                                         *)
(* A text is the key it was typed under, so that it can be traced; a date  *)
(* is a number, a month "month" or "short", an amount "amount" or, if it   *)
(* does not parse, "words".                                                *)
(*                                                                         *)
(* A person's id is kept as it was written: the permissions and the line   *)
(* and the copies of the follow-ups trim it, the inbox does not.           *)
(***************************************************************************)
EXTENDS TripPermissions, FiniteSets

CONSTANTS
    Form,      \* forms: [type, values], with any keys filled in
    Padded,    \* for an id written with blanks around it, the id; None if blank
    Line,      \* approval lines
    Cc,        \* those a document may be copied to
    People,    \* [p, profile, mayApprove]
    Asker,     \* the requester, as the documents may have it
    Executor,  \* who carries out what was approved, or None
    Store,     \* the tenant
    Imports,   \* groupware lists a document may have come from, or None
    MaxRounds  \* bound: submissions of a document

DocStatus == {"draft", "submitted", "in_review", "approved", "rejected",
              "requested_changes", "cancelled", "completed", "closed"}

VARIABLES
    form,   \* what the requester has typed
    doc,    \* the document
    todos,  \* the follow-ups planned so far, by what makes their key
    rounds  \* how often it was submitted

vars == <<form, doc, todos, rounds>>

-----------------------------------------------------------------------------
(* Forms *)

F(key, kind, required, to) ==
    [key |-> key, kind |-> kind, required |-> required, to |-> to]

\* What three of the forms begin with; the others have their own.
Begin == {F("title", "text", TRUE, "title"),
          F("period_start", "date", TRUE, "period_start")}
Period == Begin \cup {F("period_end", "date", TRUE, "period_end")}
Bought == Begin \cup {F("period_end", "date", FALSE, "period_end"),
                      F("total_amount", "number", TRUE, "total_amount"),
                      F("purpose", "text", TRUE, "summary")}

\* The built-in forms; a type without one has that of a general draft.
Schema(type) ==
    CASE type = "ATTENDANCE_REQUEST" -> Period \cup
           {F("attendance_type", "select", TRUE, None),
            F("reason", "text", TRUE, "summary"),
            F("substitute", "text", FALSE, None)}
      [] type = "PURCHASE_REQUEST" -> Bought \cup
           {F("item_summary", "text", TRUE, None), F("vendor", "text", FALSE, None)}
      [] type = "EXPENSE_REPORT" -> Bought \cup
           {F("expense_category", "select", TRUE, None)}
      [] type = "CLOSING_REPORT" -> Period \cup
           {F("closing_month", "text", TRUE, None),
            F("summary", "text", TRUE, "summary"),
            F("issues", "text", FALSE, None)}
      [] type = "BUSINESS_TRIP_REQUEST" -> Period \cup
           {F("destination", "text", TRUE, None),
            F("business_trip_purpose", "text", TRUE, "summary"),
            F("transportation", "select", TRUE, None),
            F("estimated_amount", "number", FALSE, "total_amount"),
            F("executor_id", "text", TRUE, None)}
           \cup {F(k, "text", FALSE, None) :
                   k \in {"expected_outcome", "site_id", "department_id", "trip_dedupe_key"}}
      [] OTHER -> Period \cup
           {F("purpose", "text", TRUE, None),
            F("content", "text", TRUE, "summary"),
            F("expected_outcome", "text", FALSE, None),
            F("due_date", "date", FALSE, "due_date")}

Keys(type) == {f.key : f \in Schema(type)}
Typed(values, key) == IF key \in DOMAIN values THEN values[key] ELSE None

\* (Mutant: a number is not looked at unless it is required.)
ErrorsIfRequired(type, values) ==
    {f.key : f \in {g \in Schema(type) :
        LET v == Typed(values, g.key)
        IN  \/ g.required /\ (v = None \/ (g.kind = "number" /\ v = "words"))
            \/ g.key = "closing_month" /\ v = "short"}}

\* What is wrong with a form, as the keys that are complained about.
Errors(type, values) ==
    {f.key : f \in {g \in Schema(type) :
        LET v == Typed(values, g.key)
        IN  \/ g.required /\ v = None
            \/ g.kind = "number" /\ v = "words"
            \/ g.key = "closing_month" /\ v = "short"}}
    \cup {k \in {"period_end"} :
            LET from == Typed(values, "period_start")
                to   == Typed(values, "period_end")
            IN  from # None /\ to # None /\ from > to}

\* (Mutant: the purpose is asked before the content.)
PurposeFirst == <<"summary", "business_trip_purpose", "purpose", "content",
                  "reason", "item_summary">>

\* Where a summary is looked for.  The code joins the keys it finds in a second
\* pass; by then only item_summary can still hold a text.
SummaryKeys == <<"summary", "content", "business_trip_purpose", "purpose",
                 "reason", "item_summary">>

AmountKeys == <<"total_amount", "estimated_amount">>
DueKeys    == <<"due_date", "period_end">>

Amount(text) == IF text = "amount" THEN text ELSE "zero"

FirstTyped(values, keys) == FirstSet([i \in DOMAIN keys |-> Typed(values, keys[i])])

DocumentFields(values) ==
    [title        |-> Typed(values, "title"),
     summary      |-> FirstTyped(values, SummaryKeys),
     total_amount |-> Amount(FirstTyped(values, AmountKeys)),
     due_date     |-> FirstTyped(values, DueKeys),
     period_start |-> Typed(values, "period_start"),
     period_end   |-> Typed(values, "period_end")]

-----------------------------------------------------------------------------
(* Names *)

\* What clean() leaves of an id.
Id(name) == IF name \in DOMAIN Padded THEN Padded[name] ELSE name

\* The document and the caller as the permissions read them.
Cleaned(d) ==
    [d EXCEPT !.requester = Id(d.requester),
              !.steps = [i \in DOMAIN d.steps |->
                           [approver |-> Id(d.steps[i].approver), status |-> d.steps[i].status]]]
Caller(v)  == [v.p EXCEPT !.user = Id(v.p.user)]

-----------------------------------------------------------------------------
(* Follow-ups.  "at" is the step of the approval line a key is made of, 0   *)
(* where there is none; the document, the same in all keys, is left out.    *)

FollowUp(action, source, at, user, due) ==
    [action |-> action, source |-> source, at |-> at, user |-> user, due |-> due]

\* (Mutant: who asked is not asked to approve.)
FirstOnLineButAsker(line) ==
    {i \in DOMAIN line : /\ Id(line[i]) \notin {None} \cup {Id(a) : a \in Asker}
                         /\ \A j \in 1..(i - 1) : Id(line[j]) # Id(line[i])}

\* The steps that ask somebody who was not asked by an earlier step.
FirstOnLine(line) ==
    {i \in DOMAIN line : /\ Id(line[i]) # None
                         /\ \A j \in 1..(i - 1) : Id(line[j]) # Id(line[i])}

AfterSubmission(fields, requester, line, cc) ==
    LET from == fields.period_start
        end  == FirstSet(<<fields.period_end, fields.due_date, from>>)
        due  == FirstSet(<<end, from>>)
        approvers == {Id(line[i]) : i \in FirstOnLine(line)}
    IN  {FollowUp("calendar", "workflow", 0, requester, FirstSet(<<from, due>>)),
         FollowUp("todo", "workflow", 0, requester, due)}
        \cup {FollowUp(action, "workflow_approval", i, Id(line[i]), due) :
                action \in {"todo", "calendar"}, i \in FirstOnLine(line)}
        \cup {FollowUp("todo", "workflow_cc", 0, u, due) :
                u \in {Id(c) : c \in cc} \ (approvers \cup {None, requester})}

AfterApproval(fields, requester, executor) ==
    LET end == FirstSet(<<fields.period_end, fields.due_date>>)
    IN  {FollowUp("todo", "workflow_execution", 0, requester, end)}
        \cup IF executor \in {None, requester} THEN {}
             ELSE {FollowUp("todo", "workflow_execution", 0, executor, end),
                   FollowUp("calendar", "workflow_execution", 0, executor,
                            FirstSet(<<end, fields.period_start>>))}

-----------------------------------------------------------------------------
(* Boxes.  "u" is who looks, as the caller names them. *)

Active(status) == status \in {"submitted", "in_review"}
OnLine(u, d) == u # None /\ \E i \in DOMAIN d.steps : d.steps[i].approver = u
Mine(u, d)   == u # None /\ d.requester = u
InCc(u, d)   == u # None /\ u \in d.cc

\* (Mutant: a rejected document is only shown to its approvers.)
RejectedOnLine(u, d) ==
    d.status \in {"rejected", "cancelled"} /\ OnLine(u, d)

InRejected(u, d) ==
    d.status \in {"rejected", "cancelled"} /\ (Mine(u, d) \/ OnLine(u, d))

\* "d.gw": the groupware list an imported document came from, or None.
InBox(box, u, d, canApprove) ==
    CASE box \in {"to_approve", "pending_approval"} ->
           Active(d.status) /\ (d.gw = "pending" \/ canApprove)
      [] box = "my_draft" ->
           IF d.gw # None THEN d.gw = "drafts"
           ELSE Mine(u, d) /\ d.status \in {"draft", "requested_changes"}
      [] box = "in_progress" -> Active(d.status) /\ (Mine(u, d) \/ OnLine(u, d))
      [] box = "completed" ->
           /\ d.status \in {"approved", "completed", "closed"}
           /\ Mine(u, d) \/ OnLine(u, d) \/ InCc(u, d)
      [] box = "rejected" -> InRejected(u, d)
      [] box = "circulate" ->
           \/ d.gw = "circulate"
           \/ /\ InCc(u, d)
              /\ ~(canApprove /\ Active(d.status))
              /\ d.status \notin {"draft", "cancelled"}
      [] box = "reference" ->
           ~InCc(u, d) /\ OnLine(u, d) /\ ~Mine(u, d) /\ d.status # "draft"
      [] box = "my_requests" -> Mine(u, d)
      [] OTHER -> TRUE

-----------------------------------------------------------------------------
(* The store that acts on the decisions *)

\* A number is an amount that parses or words that do not.
ASSUME FormsAssumption ==
    \A x \in Form : \A f \in Schema(x.type) :
        f.kind = "number" => Typed(x.values, f.key) \in {None, "amount", "words"}

\* Lines are sequences, whoever is logged in has a user id, and a requester
\* is named (an empty one is replaced by the session's user).
ASSUME PeopleAssumption ==
    /\ \A line \in Line : Len(line) \in Nat /\ DOMAIN line = 1..Len(line)
    /\ None \notin Asker \cup {Id(v.p.user) : v \in People}
    /\ None \notin {"pending", "drafts", "circulate"}

\* Nothing is left to trim where clean() has trimmed.
ASSUME PaddedAssumption ==
    /\ None \notin DOMAIN Padded
    /\ \A name \in DOMAIN Padded : Padded[name] \notin DOMAIN Padded

NoFields == DocumentFields(<<>>)

Init ==
    /\ form \in Form
    /\ \E cc \in Cc, gw \in Imports, requester \in Asker :
         doc = [type |-> form.type, trip_id |-> None, origin_tenant_id |-> None,
                content_origin_tenant_id |-> None, content_legal_tenant_id |-> None,
                requester |-> requester, site |-> Typed(form.values, "site_id"),
                status |-> "draft", steps |-> <<>>, cc |-> cc, gw |-> gw, fields |-> NoFields]
    /\ todos = {}
    /\ rounds = 0

\* A complete form becomes a document on an approval line.
Submit(v, line) ==
    /\ rounds < MaxRounds
    /\ CanSubmitDocument(Caller(v), v.profile, Cleaned(doc), Store)
    /\ Errors(form.type, form.values) = {}
    /\ LET fields == DocumentFields(form.values)
       IN  /\ doc' = [doc EXCEPT !.status = "submitted", !.fields = fields,
                        !.steps = [i \in DOMAIN line |->
                                     [approver |-> line[i], status |-> "pending"]]]
           /\ todos' = todos \cup AfterSubmission(fields, doc.requester, line, doc.cc)
    /\ rounds' = rounds + 1
    /\ UNCHANGED form

MayApprove(v) ==
    CanApproveDocument(Caller(v), v.profile, Cleaned(doc), Store, v.mayApprove)

\* The step whose turn it is is approved; after the last one the document is.
Approve(v) ==
    /\ MayApprove(v)
    /\ LET last == Cardinality(Pending(doc)) = 1
       IN  /\ doc' = [doc EXCEPT !.steps[Current(doc)].status = "approved",
                        !.status = IF last THEN "approved" ELSE "in_review"]
           /\ todos' = IF last
                       THEN todos \cup AfterApproval(doc.fields, doc.requester, Executor)
                       ELSE todos
    /\ UNCHANGED <<form, rounds>>

Refuse(v, verdict) ==
    /\ MayApprove(v)
    /\ doc' = [doc EXCEPT !.status = verdict]
    /\ UNCHANGED <<form, todos, rounds>>

Withdraw(v) ==
    /\ CanEditDocument(Caller(v), v.profile, Cleaned(doc), Store)
    /\ doc' = [doc EXCEPT !.status = "cancelled"]
    /\ UNCHANGED <<form, todos, rounds>>

Finish ==
    /\ \E step \in {<<"approved", "completed">>, <<"completed", "closed">>} :
         doc.status = step[1] /\ doc' = [doc EXCEPT !.status = step[2]]
    /\ UNCHANGED <<form, todos, rounds>>

Next ==
    \/ \E v \in People, line \in Line : Submit(v, line)
    \/ \E v \in People : Approve(v)
    \/ \E v \in People, verdict \in {"rejected", "requested_changes"} : Refuse(v, verdict)
    \/ \E v \in People : Withdraw(v)
    \/ Finish

Spec == Init /\ [][Next]_vars

-----------------------------------------------------------------------------
(* Invariants *)

\* Whoever is in turn to decide was asked: the planner, which leaves out people
\* it has asked already, gave an approver whose step is the current one a todo
\* with a date, however the line and the approver write their id, and the
\* document lies in the box of documents to approve of everybody who may
\* approve it, administrators included.
DecidersWereAsked ==
    \A v \in People : MayApprove(v) =>
        /\ InBox("to_approve", v.p.user, doc, TRUE)
        /\ Id(doc.steps[Current(doc)].approver) = Id(v.p.user) =>
             \E t \in todos : /\ t.action = "todo" /\ t.source = "workflow_approval"
                              /\ t.user = Id(v.p.user) /\ t.due # None

Searched(field) == CASE field = "summary"      -> SummaryKeys
                     [] field = "total_amount" -> AmountKeys
                     [] field = "due_date"     -> DueKeys
                     [] OTHER                  -> <<field>>

\* A key that the form's schema does not have is filled in all the same, and
\* build_document_fields looks there before it looks at the key.
Shadowed(x, field, key) ==
    LET keys == Searched(field)
    IN  \E i, j \in DOMAIN keys :
           /\ i < j /\ keys[j] = key
           /\ keys[i] \notin Keys(x.type) /\ Typed(x.values, keys[i]) # None

\* The fields of a submitted document are what its form says: the search order
\* of build_document_fields finds, for every built-in form, the very keys the
\* schema maps unless a key from outside the schema is found first, an amount
\* is never dropped, and nothing required is missing.
FieldsFollowSchema ==
    rounds > 0 => \A f \in Schema(form.type) :
        LET v == Typed(form.values, f.key)
        IN  /\ f.required => v # None
            /\ f.to # None /\ v # None /\ ~Shadowed(form, f.to, f.key) => doc.fields[f.to] = v

Shelves == {"my_draft", "in_progress", "completed", "rejected"}

\* Of the boxes for drafts, running, finished and rejected documents nobody
\* finds a document in two, and the requester always finds it in one, whatever
\* its status is, if they are named as the document names them: the inbox does
\* not trim the ids that the permissions trim.
RequesterFindsDocument ==
    doc.gw = None => \A v \in People :
        LET In(a) == InBox(a, v.p.user, doc, MayApprove(v))
        IN  /\ \A a, b \in Shelves : In(a) /\ In(b) => a = b
            /\ v.p.user = doc.requester => \E a \in Shelves : In(a)

\* Who edits or approves a document sees it, and nobody both edits and
\* approves it; what waits in the box to approve does not circulate.
DocumentRightsNest ==
    \A v \in People :
        LET edits == CanEditDocument(Caller(v), v.profile, Cleaned(doc), Store)
        IN  /\ edits \/ MayApprove(v) =>
                 CanViewDocument(Caller(v), v.profile, Cleaned(doc), Store)
            /\ ~(edits /\ MayApprove(v))
            /\ ~(/\ doc.gw = None
                 /\ InBox("to_approve", v.p.user, doc, MayApprove(v))
                 /\ InBox("circulate", v.p.user, doc, MayApprove(v)))
=============================================================================
