--------------------------- MODULE MCDocumentFlow ---------------------------
\* Instances of DocumentFlow for TLC.
EXTENDS DocumentFlow, TLC

CONSTANTS ann, boss, cat, root, store, legal, site,
          annPadded, bossPadded, blank  \* ids with blanks around them, and blanks alone

PaddedIds == annPadded :> ann @@ bossPadded :> boss @@ blank :> None

Types == {"GENERAL_DRAFT", "ATTENDANCE_REQUEST", "PURCHASE_REQUEST",
          "EXPENSE_REPORT", "CLOSING_REPORT", "BUSINESS_TRIP_REQUEST"}

\* Every key filled in as it should be.
Good(key) ==
    CASE key = "period_start" -> 1
      [] key \in {"period_end", "due_date"} -> 2
      [] key \in {"total_amount", "estimated_amount"} -> "amount"
      [] key = "closing_month" -> "month"
      [] key = "site_id" -> site
      [] OTHER -> key

\* One or two keys left out, one typed wrongly.
Wrong == {<<"period_start", 3>>, <<"total_amount", "words">>,
          <<"estimated_amount", "words">>, <<"closing_month", "short">>, <<"title", "title">>}
SomeForms ==
    UNION {{[type |-> type, values |-> [k \in Keys(type) |->
                IF k \in out THEN None ELSE IF k = w[1] THEN w[2] ELSE Good(k)]] :
              w \in Wrong, out \in {{k, l} : k \in Keys(type), l \in Keys(type)} \cup {{}}} :
           type \in Types}

\* Forms filled in as they should be, and a key of another form as well.
Extra == {"summary", "content", "business_trip_purpose", "purpose", "reason", "item_summary",
          "total_amount", "estimated_amount", "due_date"}
ExtraForms ==
    UNION {{[type |-> type, values |-> [k \in Keys(type) \cup {e} |->
                IF k \notin Keys(type) /\ k \in {"total_amount", "estimated_amount"}
                THEN w ELSE Good(k)]] : w \in {"amount", "words"}, e \in Extra} :
           type \in Types}
AllForms == SomeForms \cup ExtraForms

SomeLines == {<<boss>>, <<blank, bossPadded, cat, boss>>, <<annPadded, cat>>}

Staff(u) == [user |-> u, tenant |-> store, role |-> "staff"]
SomePeople ==
    {[p |-> Staff(u), profile |-> None, mayApprove |-> TRUE] : u \in {ann, annPadded, boss, cat}}
    \cup {[p |-> [user |-> root, tenant |-> t, role |-> "admin"], profile |-> None,
           mayApprove |-> may] : t \in {store, legal}, may \in BOOLEAN}
=============================================================================
