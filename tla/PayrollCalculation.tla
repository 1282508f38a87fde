------------------------- MODULE PayrollCalculation -------------------------
(***************************************************************************)
(* The pay calculations: earnings.rs, social_insurance.rs, salary.rs,      *)
(* deductions.rs and the attendance rows of attendance.rs.  Amounts are    *)
(* whole won, hours are whole hours.  The code computes with f64 and       *)
(* rounds each figure; here a figure of pay is an exact fraction rounded   *)
(* the same way.  An ordinary hourly wage is the fraction w.num / w.den.   *)
(* Attendance is kept in ticks, of which both a minute and the fourth      *)
(* decimal of an hour are whole numbers: 500 and 3.                        *)
(***************************************************************************)
EXTENDS Integers, Sequences, SequencesExt, FiniteSetsExt

CONSTANT None    \* an absent Option, field or row

\* An absent amount is told from every amount.
ASSUME NoneAssumption == None \notin Int

-----------------------------------------------------------------------------
(* Rounding *)

\* amount * num / den to the nearest whole, ties to even.  The quotient is
\* split so that no product leaves 32 bits.
Rounded(amount, num, den) ==
    LET rest == (amount % den) * num
        whole == (amount \div den) * num + rest \div den
        twice == 2 * (rest % den)
    IN  IF twice > den \/ (twice = den /\ whole % 2 = 1) THEN whole + 1 ELSE whole

RoundedTens(amount, num, den) == 10 * Rounded(amount, num, 10 * den)

Least(a, b) == IF a <= b THEN a ELSE b
Greatest(a, b) == IF a >= b THEN a ELSE b

\* The figures g of the elements of S, added up.
SumOf(g, S) == MapThenSumSet(LAMBDA x : g[x], S)

\* A preset counts only when it is given and positive.
Preset(p) == p # None /\ p > 0

-----------------------------------------------------------------------------
(* Income tax and deductions *)

SimplifiedTaxTable ==
    << <<1060000, 0>>, <<1500000, 8000>>, <<2000000, 42000>>, <<2500000, 120000>>,
       <<3000000, 210000>>, <<3500000, 310000>>, <<4000000, 420000>>,
       <<5000000, 650000>>, <<6000000, 920000>>, <<8000000, 1450000>>,
       <<10000000, 2100000>> >>

LookupSimplifiedIncomeTax(taxable) ==
    LET above == {b \in DOMAIN SimplifiedTaxTable : taxable <= SimplifiedTaxTable[b][1]}
    IN  IF above # {} THEN SimplifiedTaxTable[Min(above)][2]
        ELSE Rounded(Greatest(taxable - 1500000, 0), 3, 100)

IncomeTax(income, local, method) ==
    [incomeTax |-> income, localTax |-> local, total |-> income + local, method |-> method]

\* A preset income tax takes the preset local tax or ten per cent in whole
\* tens; a tax from the table takes ten per cent in whole won.
\* (Mutant: a preset local tax is not read.)
CalculateIncomeTaxTens(taxable, presetTax, presetLocal) ==
    IF Preset(presetTax) THEN IncomeTax(presetTax, RoundedTens(presetTax, 1, 10), "preset")
    ELSE LET tax == LookupSimplifiedIncomeTax(taxable)
         IN  IncomeTax(tax, Rounded(tax, 1, 10), "simplified_table")

CalculateIncomeTax(taxable, presetTax, presetLocal) ==
    IF Preset(presetTax)
    THEN IncomeTax(presetTax,
                   IF Preset(presetLocal) THEN presetLocal ELSE RoundedTens(presetTax, 1, 10),
                   "preset")
    ELSE LET tax == LookupSimplifiedIncomeTax(taxable)
         IN  IncomeTax(tax, Rounded(tax, 1, 10), "simplified_table")

\* in: [gross, insurance, presetTax, presetLocal, identity]
FinalizeDeductions(in) ==
    LET taxable == in.gross - in.insurance
        tax == CalculateIncomeTax(taxable, in.presetTax, in.presetLocal)
        total == in.insurance + tax.total + Greatest(in.identity, 0 - in.identity)
    IN  [taxable |-> taxable, incomeTax |-> tax.incomeTax, localTax |-> tax.localTax,
         taxTotal |-> tax.total, totalDeduction |-> total, net |-> in.gross - total,
         method |-> tax.method]

-----------------------------------------------------------------------------
(* Social insurance *)

EmploymentInsurance(taxable) == RoundedTens(taxable, 9, 1000)

SocialInsurance(taxable, presetPension, presetHealth, exempt) ==
    LET pension == IF Preset(presetPension) THEN presetPension
                   ELSE Rounded(Least(Greatest(taxable, 390000), 6170000), 45, 1000)
        health == IF Preset(presetHealth) THEN presetHealth
                  ELSE Rounded(taxable, 3545, 100000)
        care == Rounded(health, 1295, 10000)
        employment == EmploymentInsurance(taxable)
    IN  IF exempt
        THEN [pension |-> 0, health |-> 0, care |-> 0, employment |-> 0, total |-> 0]
        ELSE [pension |-> pension, health |-> health, care |-> care,
              employment |-> employment, total |-> pension + health + care + employment]

-----------------------------------------------------------------------------
(* Earnings *)

OrdinaryHourly(base, fixed, preset) ==
    IF preset > 0 THEN [num |-> preset, den |-> 1]
    ELSE IF base + fixed <= 0 THEN [num |-> 0, den |-> 1]
    ELSE [num |-> base + fixed, den |-> 209]

\* hours * w * halves / 2
HourPay(hours, w, halves) == Rounded(w.num, hours * halves, 2 * w.den)

\* Eight hours a week, in proportion to a week of forty.
WeeklyHolidayPay(w, weekHours) ==
    IF w.num <= 0 THEN 0 ELSE Rounded(w.num, Least(weekHours, 40), 5 * w.den)

\* A raw amount up to 300 is taken for hours unless it is within five per
\* cent of the pay for as many hours.
IsLikelyHours(raw, w) ==
    /\ raw > 0
    /\ raw <= 300
    /\ LET off == 2 * w.den - 3 * w.num IN
       ~(w.num > 0 /\ 20 * Greatest(off, 0 - off) < 3 * w.num)

\* The amount for the hours, else the raw amount of the invoice.
AmountOrRaw(amount, raw, w) ==
    IF amount <= 0 /\ raw > 0 /\ ~IsLikelyHours(raw, w) THEN raw ELSE amount

\* Hours that are both overtime and night.  Overtime known only by its
\* raw amount stands for raw / (1.5 w) hours, so its half premium is a third
\* of the raw amount.
OverlapPremium(in, w) ==
    LET paid == HourPay(in.otHours, w, 3)
        fromRaw == AmountOrRaw(paid, in.otRaw, w) # paid /\ w.num > 0
        night == Greatest(in.nightHours, 0)
    IN  IF ~fromRaw THEN HourPay(Least(Greatest(in.otHours, 0), night), w, 1)
        ELSE IF 2 * in.otRaw * w.den <= 3 * night * w.num THEN Rounded(in.otRaw, 1, 3)
        ELSE HourPay(night, w, 1)

\* in: [base, fixed, hourly, otHours, nightHours, holidayHours, otRaw,
\*      nightRaw, holidayRaw, mealDays, transport, other, additional, weekHours]
EarningsAt(in, w, meal) ==
    [base |-> IF in.base <= 0 /\ w.num > 0 THEN Rounded(w.num, 209, w.den) ELSE in.base,
     fixed |-> in.fixed,
     overtime |-> AmountOrRaw(HourPay(in.otHours, w, 3), in.otRaw, w),
     night |-> AmountOrRaw(HourPay(in.nightHours, w, 1), in.nightRaw, w),
     holiday |-> AmountOrRaw(HourPay(in.holidayHours, w, 3), in.holidayRaw, w),
     overlap |-> OverlapPremium(in, w),
     weekly |-> WeeklyHolidayPay(w, in.weekHours),
     meal |-> meal, transport |-> in.transport, other |-> in.other,
     additional |-> in.additional]

EarningsOf(parts, gross) ==
    [earnings |-> parts, gross |-> gross, taxable |-> gross - Least(parts.meal, 200000)]

GrossOf(parts) == SumOf(parts, DOMAIN parts)

CalculateEarnings(in) ==
    LET parts == EarningsAt(in, OrdinaryHourly(in.base, in.fixed, in.hourly), 5500 * in.mealDays)
    IN  EarningsOf(parts, GrossOf(parts))

-----------------------------------------------------------------------------
(* A pay slip *)

\* The salary engine taxes the pay before insurance, and its local tax is
\* ten per cent in whole won whatever the method.
SalaryIncomeTax(taxable, presetTax) ==
    LET tax == IF Preset(presetTax) THEN presetTax ELSE LookupSimplifiedIncomeTax(taxable)
    IN  IncomeTax(tax, Rounded(tax, 1, 10),
                  IF Preset(presetTax) THEN "preset" ELSE "simplified_table")

PaySlip(earned, insurance, tax) ==
    LET total == insurance.total + tax.total
    IN  [earnings |-> earned.earnings, gross |-> earned.gross, taxable |-> earned.taxable,
         insurance |-> insurance, incomeTax |-> tax.incomeTax, localTax |-> tax.localTax,
         total |-> total, net |-> earned.gross - total, method |-> tax.method]

SalaryFrom(in, earned) ==
    PaySlip(earned,
            SocialInsurance(earned.taxable, in.presetPension, in.presetHealth, in.exempt),
            SalaryIncomeTax(earned.taxable, in.presetTax))

\* in: the earnings input with presetPension, presetHealth, presetTax, exempt
CalculateSalary(in) == SalaryFrom(in, CalculateEarnings(in))

-----------------------------------------------------------------------------
(* Attendance rows *)

\* A record: its name, the same without blanks, a key if one is given, its
\* workplace, its hours by kind in ticks and its days off.
AttendanceKey(rec) == IF rec.nameKey # None THEN rec.nameKey ELSE rec.plain

Ticks(minutes) == 500 * minutes

\* Time beyond the grace period; within it none counts.
PastGrace(t, grace) == IF t > Ticks(grace) THEN Greatest(t - Ticks(grace), 0) ELSE 0

\* The multiples of d that t may be rounded to: a sum of f64 hours that lies
\* midway between two is rounded to either, as the last bits of the sum
\* have it, and those depend on the order of the records.
Nearest(t, d) == {k \in {t \div d, t \div d + 1} : 2 * (k * d - t) \in (0 - d)..d}

\* Whole units of minutes, and of those four decimals of an hour.
RoundedHours(t, unit) ==
    LET u == Greatest(unit, 1)
    IN  IF t <= 0 THEN {0} ELSE {3 * Rounded(k * u, 500, 3) : k \in Nearest(t, Ticks(u))}

\* What a record adds to its row, by kind.
Counted(rec, policy) ==
    [work |-> Greatest(rec.work, 0), overtime |-> rec.overtime, night |-> rec.night,
     special |-> rec.special,
     early |-> PastGrace(rec.early, policy.early) + PastGrace(rec.late, policy.late),
     leave |-> rec.leave, unpaid |-> rec.unpaid]

TotalOf(records, policy, f, group) ==
    SumOf([n \in group |-> Counted(records[n], policy)[f]], group)

\* The rows that may come of a group.  A row is named as the first of its
\* records; it rounds each total once.
InvoiceRows(records, group, workplace, policy) ==
    LET total(f) == TotalOf(records, policy, f, group)
        hours(f) == RoundedHours(total(f), policy.rounding)
        first == records[Min(group)]
    IN  {[name |-> first.name,
          workplace |-> IF first.workplace = None THEN workplace ELSE first.workplace,
          work |-> work, overtime |-> overtime, night |-> night, special |-> special,
          early |-> early, leave |-> total("leave"), unpaid |-> total("unpaid"),
          days |-> Cardinality(group)] :
             work \in hours("work"), overtime \in hours("overtime"), night \in hours("night"),
             special \in hours("special"), early \in hours("early")}

GroupOf(records, key) == {n \in DOMAIN records : AttendanceKey(records[n]) = key}

\* One row per key; a record without a name or key is skipped.
AggregateAttendance(records, workplace, policy) ==
    LET keys == {AttendanceKey(records[n]) : n \in DOMAIN records} \ {None}
    IN  [k \in keys |-> InvoiceRows(records, GroupOf(records, k), workplace, policy)]
=============================================================================
