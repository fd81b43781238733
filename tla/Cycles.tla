------------------------------- MODULE Cycles -------------------------------
(* The calendar of one subscription: which month each billing period covers, *)
(* on which day it is charged, and which months' discounts and bonuses its   *)
(* invoices carry (common/utils/billing-date.util, subscriptions, payroll,   *)
(* customer-migration's subscription writer).  Dates are days in UTC, which  *)
(* is also taken to be the server's time zone; the hours of a date are left  *)
(* out.  What can go wrong between the steps of billing one period is the    *)
(* business of BillingCycle; here billing a period is one step.              *)
EXTENDS Integers, FiniteSets, SequencesExt

CONSTANTS
  AdvanceDays,  \* charge days charged in the month before their period
  Customers,    \* a charge day, and whether it is charged in advance
  Employees,    \* an employee's discount, and the months with a bonus
  Today,        \* the days on which something happens
  Given,        \* the dates callers send
  MaxCharges,   \* bound on the periods charged between two activations
  MaxDrafts,    \* bound on the drafts open at once
  Nothing       \* no date, no month

\* 12 * year + month, with months counted from 0, and a day counted from 1.
Date == [month: Int, day: 1..31]

ASSUME CyclesAssumption ==
  /\ AdvanceDays \subseteq 1..31
  /\ Customers \subseteq [chargeDay: 1..31, prepaid: BOOLEAN]
  /\ Employees \subseteq [discounted: Date, months: Nat, bonuses: SUBSET Int]
  /\ Today \subseteq Date /\ Given \subseteq Date /\ Nothing \notin Date \cup Int
  /\ MaxCharges \in Nat /\ MaxDrafts \in Nat

VARIABLES
  customer,  \* the customer's settings
  employee,  \* what the monolith knows of the customer's employee
  today,
  sub,       \* the subscription
  drafts,    \* its open drafts, oldest first
  charged    \* the periods it was charged for since it was last activated

vars == <<customer, employee, today, sub, drafts, charged>>
settings == <<customer, employee>>
books == <<drafts, charged>>

-----------------------------------------------------------------------------
(* The calendar *)

Leap(year) == year % 4 = 0 /\ (year % 100 # 0 \/ year % 400 = 0)
DaysInMonth(month) ==
  CASE month % 12 = 1 -> IF Leap(month \div 12) THEN 29 ELSE 28
    [] month % 12 \in {3, 5, 8, 10} -> 30
    [] OTHER -> 31
ClampDay(day, month) == IF day <= DaysInMonth(month) THEN day ELSE DaysInMonth(month)
Clamped(month, day) == [month |-> month, day |-> ClampDay(day, month)]
AddMonths(date, months) == Clamped(date.month + months, date.day)

Before(d, e) == d.month < e.month \/ (d.month = e.month /\ d.day < e.day)
NotAfter(d, e) == ~ Before(e, d)

\* Seeded fault: only the charge day that most months lack moves to the 1st.
CycleDayOfThe31st(chargeDay) == IF chargeDay = 31 THEN 1 ELSE chargeDay
\* Seeded fault: a day the month lacks rolls over into the next one.
RolledOver(month, day) ==
  IF day <= DaysInMonth(month) THEN [month |-> month, day |-> day]
  ELSE [month |-> month + 1, day |-> day - DaysInMonth(month)]

IsBoundary(chargeDay) == chargeDay \in AdvanceDays
CycleDay(chargeDay) == IF IsBoundary(chargeDay) THEN 1 ELSE chargeDay

\* Seeded fault.
InvoiceDueDateRollingOver(start, c) ==
  LET month == IF IsBoundary(c.chargeDay) THEN start.month - 1 ELSE start.month
      due == RolledOver(month, c.chargeDay)
  IN IF c.prepaid THEN due ELSE RolledOver(due.month + 1, due.day)

\* When the period that starts at start is charged.
InvoiceDueDate(start, c) ==
  LET month == IF IsBoundary(c.chargeDay) THEN start.month - 1 ELSE start.month
      due == Clamped(month, c.chargeDay)
  IN IF c.prepaid THEN due ELSE AddMonths(due, 1)

PeriodEnd(start) == AddMonths(start, 1)

FirstPeriodStart(onboarding) ==
  LET month == IF onboarding.month > today.month THEN onboarding.month ELSE today.month
  IN Clamped(month + 1, CycleDay(customer.chargeDay))

\* The migration's own rules, which do not read AdvanceDays.
AtMonthsEnd(chargeDay) == chargeDay \in 28..31
MigratedPeriodStart ==
  [month |-> IF customer.prepaid THEN today.month + 1 ELSE today.month,
   day |-> IF AtMonthsEnd(customer.chargeDay) THEN 1 ELSE customer.chargeDay]
MigratedDueDate ==
  IF AtMonthsEnd(customer.chargeDay)
  THEN IF customer.chargeDay <= DaysInMonth(today.month)
       THEN [month |-> today.month, day |-> customer.chargeDay]
       ELSE [month |-> today.month + 1, day |-> 1]
  ELSE [month |-> today.month + 1, day |-> customer.chargeDay]

-----------------------------------------------------------------------------
(* What the payroll of a period adds to the employee's salary *)

InDiscount(start) ==
  /\ NotAfter(employee.discounted, start)
  /\ Before(start, AddMonths(employee.discounted, employee.months))
CycleBonus(start) == IF start.month - 1 \in employee.bonuses THEN start.month - 1 ELSE Nothing

Plain == [discount |-> FALSE, bonus |-> Nothing]
Resolved(start) == [discount |-> InDiscount(start), bonus |-> CycleBonus(start)]

\* An invoice has a line per employee, of a payroll resolved for its period or
\* stripped to salary and fee, or one line over the subscription's amount, extras
\* included.
Source == {"fresh", "stale", "amount"}
Draft(start, fresh) ==
  [start |-> start, end |-> PeriodEnd(start), payroll |-> IF fresh THEN "fresh" ELSE "stale",
   extras |-> IF fresh THEN Resolved(start) ELSE Plain]

\* Seeded fault.
CopyWithExtras(closing, start) ==
  [Draft(start, FALSE) EXCEPT !.extras = closing.extras]

\* The draft made without the monolith: employees' lines lose their extras, the
\* single line of an invoice over the amount is copied as it is.
Copy(closing, start) ==
  IF closing.payroll = "amount"
  THEN [start |-> start, end |-> PeriodEnd(start), payroll |-> "amount", extras |-> closing.extras]
  ELSE Draft(start, FALSE)

Anchor == {"cycle", "migration", "timed", "given", "resume"}
Extras == [discount: BOOLEAN, bonus: Int \cup {Nothing}]
NoSubscription == [status |-> "none", anchor |-> "given", start |-> Nothing, end |-> Nothing,
                   due |-> Nothing, amount |-> Plain]

TypeOK ==
  /\ customer \in Customers /\ employee \in Employees /\ today \in Today
  /\ sub \in [status: {"none", "pending", "active", "paused"}, anchor: Anchor,
              start: Date \cup {Nothing}, end: Date \cup {Nothing},
              due: Date \cup {Nothing}, amount: Extras]
  /\ drafts \in Seq([start: Date, end: Date, payroll: Source, extras: Extras])
  /\ charged \in Seq([start: Date, end: Date, due: Date, anchor: Anchor,
                      payroll: Source, extras: Extras])
  /\ sub.status \in {"pending", "active"} =>
       /\ sub.start # Nothing /\ sub.end # Nothing /\ sub.due # Nothing
       /\ sub.anchor # "timed" => Before(sub.start, sub.end)

Init ==
  /\ customer \in Customers /\ employee \in Employees /\ today \in Today
  /\ sub = NoSubscription /\ drafts = <<>> /\ charged = <<>>

-----------------------------------------------------------------------------
(* Where a subscription's dates come from *)

Subscription(status, anchor, start, due, amount) ==
  [status |-> status, anchor |-> anchor, start |-> start, end |-> PeriodEnd(start),
   due |-> due, amount |-> amount]
OnCycle(status, anchor, start, amount) ==
  Subscription(status, anchor, start, InvoiceDueDate(start, customer), amount)

\* subscription.create for a customer with no paused subscription.  Without
\* employees its first draft is empty.
CreateFromEvent ==
  /\ sub.status = "none"
  /\ \E onboarding \in Given, fresh \in BOOLEAN :
       LET start == FirstPeriodStart(onboarding)
           draft == Draft(start, fresh)
       IN /\ sub' = OnCycle("active", "cycle", start, draft.extras)
          /\ drafts' = <<draft>>
  /\ UNCHANGED <<settings, today, charged>>

\* POST /subscriptions: the caller says when the first period starts.
Create ==
  /\ sub.status = "none"
  /\ \E start \in Given : sub' = OnCycle("pending", "given", start, Plain)
  /\ UNCHANGED <<settings, today, books>>

\* The caller's dates are taken as they are; without them the migration has
\* rules of its own.  The draft it links is for a month of the monolith's, from
\* the 1st to the 1st, and may be missing.
Migrate ==
  /\ sub.status = "none"
  /\ \/ sub' = Subscription("active", "migration", MigratedPeriodStart, MigratedDueDate, Plain)
     \/ \E start, end, due \in Given :
          sub' = [Subscription("active", "timed", start, due, Plain) EXCEPT !.end = end]
  /\ \/ drafts' = <<>>
     \/ \E month \in {today.month, today.month + 1} :
          drafts' = <<Draft(Clamped(month, 1), FALSE)>>
  /\ UNCHANGED <<settings, today, charged>>

Activate ==
  /\ sub.status = "pending"
  /\ sub' = [sub EXCEPT !.status = "active"]
  /\ UNCHANGED <<settings, today, books>>

\* Pausing voids one draft, the customer's oldest: it may be one of a charge
\* outside the subscription.
Pause ==
  /\ sub.status = "active"
  /\ sub' = [sub EXCEPT !.status = "paused", !.due = Nothing]
  /\ drafts' = drafts \/ (drafts # <<>> /\ drafts' = Tail(drafts))
  /\ UNCHANGED <<settings, today, charged>>

\* Payroll lines replace those of the only open draft, whichever period that
\* one is for; of several, none is touched.
Rewritten(extras, fresh) ==
  IF Len(drafts) = 1
  THEN <<[drafts[1] EXCEPT !.payroll = IF fresh THEN "fresh" ELSE "stale", !.extras = extras]>>
  ELSE drafts

\* subscription.create for a customer with a paused subscription: a draft that
\* outlived the pause is rewritten, and keeps its period.
ResumeFromEvent ==
  /\ sub.status = "paused"
  /\ \E start \in Given, fresh \in BOOLEAN :
       LET draft == Draft(start, fresh)
       IN /\ sub' = OnCycle("active", "given", start, draft.extras)
          /\ drafts' = IF drafts = <<>> THEN <<draft>> ELSE Rewritten(draft.extras, fresh)
  /\ charged' = <<>>
  /\ UNCHANGED <<settings, today>>

\* PATCH /subscriptions/:id/state: the period starts now and is charged at its
\* end; no draft is made, and the amount is the one resolved before the pause.
Resume ==
  /\ sub.status = "paused"
  /\ sub' = Subscription("active", "resume", today, PeriodEnd(today), sub.amount)
  /\ charged' = <<>>
  /\ UNCHANGED <<settings, today, drafts>>

-----------------------------------------------------------------------------
(* Payroll and billing *)

\* payroll.calculated is resolved for the current period.
ApplyPayrollUpdate ==
  /\ sub.status = "active"
  /\ sub' = [sub EXCEPT !.amount = Resolved(sub.start)]
  /\ drafts' = Rewritten(Resolved(sub.start), TRUE)
  /\ UNCHANGED <<settings, today, charged>>

PeriodDrafts == {i \in DOMAIN drafts : drafts[i].start = sub.start /\ drafts[i].end = sub.end}

Charge(payroll, extras) ==
  [start |-> sub.start, end |-> sub.end, due |-> sub.due, anchor |-> sub.anchor,
   payroll |-> payroll, extras |-> extras]

\* The due subscription's draft is finalized, or an invoice over its amount
\* is created; then its period advances and the next draft is seeded, from the
\* monolith's payroll or from the closing invoice.
Advanced ==
  OnCycle("active",
          CASE sub.anchor = "migration" -> "cycle" [] sub.anchor \in {"timed", "resume"} -> "given"
            [] OTHER -> sub.anchor,
          sub.end, sub.amount)
Seeded(open, closing, fresh) ==
  IF \E i \in DOMAIN open : open[i].start = sub.end /\ open[i].end = PeriodEnd(sub.end)
  THEN open
  ELSE Append(open, IF fresh THEN Draft(sub.end, TRUE) ELSE Copy(closing, sub.end))
Bill ==
  /\ sub.status = "active" /\ NotAfter(sub.due, today)
  /\ Len(charged) < MaxCharges
  /\ \E fresh \in BOOLEAN :
       IF PeriodDrafts = {}
       THEN LET closing == Charge("amount", sub.amount)
            IN /\ charged' = Append(charged, closing)
               /\ drafts' = Seeded(drafts, closing, fresh)
       ELSE \E i \in PeriodDrafts :
              LET closing == Charge(drafts[i].payroll, drafts[i].extras)
              IN /\ charged' = Append(charged, closing)
                 /\ drafts' = Seeded(RemoveAt(drafts, i), closing, fresh)
  /\ Len(drafts') <= MaxDrafts
  /\ sub' = Advanced
  /\ UNCHANGED <<settings, today>>

Wait ==
  /\ \E day \in Today : Before(today, day) /\ today' = day
  /\ UNCHANGED <<settings, sub, books>>

Next ==
  \/ CreateFromEvent \/ Create \/ Migrate \/ Activate
  \/ Pause \/ ResumeFromEvent \/ Resume
  \/ ApplyPayrollUpdate \/ Bill \/ Wait

Spec == Init /\ [][Next]_vars

-----------------------------------------------------------------------------
(* Properties *)

DefaultAdvanceDays == 28..31

\* How the due date of a period follows that of the period before it.  Two
\* kinds are left out until their first charge: a subscription resumed over
\* HTTP, charged at the end of its period whatever the charge day, and one
\* migrated with dates of its caller's, which nothing compares.
Follows(one, two) ==
  /\ one.anchor \in {"cycle", "given"} => two.due.month = one.due.month + 1
  /\ one.anchor = "migration" => Before(one.due, two.due) /\ two.due.month <= one.due.month + 1

\* However the lengths of the months fall, successive periods are charged in
\* successive calendar months: no month is charged twice and none left out.
\* The first charge of a subscription migrated without dates may share its
\* month with the next one, and is the earlier of the two; whatever dates a
\* caller gave, the rule holds from the charge after them.
ChargedMonthly ==
  \A i \in DOMAIN charged : i + 1 \in DOMAIN charged => Follows(charged[i], charged[i + 1])

InStep(period) ==
  /\ period.start.day = CycleDay(customer.chargeDay)
  /\ IF customer.prepaid
     THEN NotAfter(period.due, period.start) /\ period.start.month <= period.due.month + 1
     ELSE NotAfter(period.start, period.due) /\ NotAfter(period.due, period.end)

\* A subscription whose first period the service or the migration computed
\* from its customer's charge day starts every period on the same day, is charged
\* no later than the start when it is prepaid and within the period when it is
\* not: short months never make it drift.  A period that began on a date of the
\* caller's need not stand so.
DueWithPeriod ==
  \A i \in DOMAIN charged : charged[i].anchor \in {"cycle", "migration"} => InStep(charged[i])

Drafted == {i \in DOMAIN charged : charged[i].payroll # "amount"}
Covers(first, last) ==  \* every charge is fresh, from before first to after last
  /\ \A i \in DOMAIN charged : charged[i].payroll = "fresh"
  /\ charged # <<>>
  /\ charged[1].start.month < first /\ last < charged[Len(charged)].start.month

\* Along a subscription that follows its charge day, a discount of n months is
\* given in no more than n of the periods billed from payroll, in exactly n when
\* every period's payroll was at hand; and a month's bonus is paid once.
BenefitsRunTheirMonths ==
  (\A i \in DOMAIN charged : charged[i].anchor = "cycle") =>
    LET discounted == {i \in Drafted : charged[i].extras.discount}
        paying(month) == {i \in Drafted : charged[i].extras.bonus = month}
        from == employee.discounted.month
    IN /\ Cardinality(discounted) <= employee.months
       /\ Covers(from, from + employee.months) => Cardinality(discounted) = employee.months
       /\ \A month \in employee.bonuses :
            /\ Cardinality(paying(month)) <= 1
            /\ Covers(month + 1, month + 1) => Cardinality(paying(month)) = 1

\* subscriptions.service.ts:626-630: a draft made without the monolith has
\* "zeroed one-time adjustments", whatever its closing invoice was made of.
StaleDraftsArePlain ==
  \A i \in DOMAIN drafts : drafts[i].payroll # "fresh" => drafts[i].extras = Plain

=============================================================================
