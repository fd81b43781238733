---------------------------- MODULE CyclesProofs -----------------------------
(* Theorems about Cycles, for any customers, employees, dates and bounds, and *)
(* the default advance days where the migration's rules rely on them.         *)
EXTENDS Cycles, FiniteSetTheorems, SequenceTheorems, TLAPS

-----------------------------------------------------------------------------
(* The calendar *)

LEMMA DaysInMonthBounds ==
  ASSUME NEW month \in Int
  PROVE  DaysInMonth(month) \in 28..31
BY DEF DaysInMonth

LEMMA ClampedIsDate ==
  ASSUME NEW month \in Int, NEW day \in 1..31
  PROVE  /\ Clamped(month, day) \in Date
         /\ Clamped(month, day).month = month
         /\ Clamped(month, day).day <= day
         /\ day <= 28 => Clamped(month, day).day = day
         /\ Clamped(month, day).day >= 28 \/ Clamped(month, day).day = day
<1>1. DaysInMonth(month) \in 28..31 BY DaysInMonthBounds
<1>2. ClampDay(day, month) \in 1..31 /\ ClampDay(day, month) <= day
      /\ (day <= 28 => ClampDay(day, month) = day)
      /\ (ClampDay(day, month) >= 28 \/ ClampDay(day, month) = day)
  BY <1>1 DEF ClampDay
<1> QED BY <1>2 DEF Clamped, Date

LEMMA AddMonthsIsDate ==
  ASSUME NEW date \in Date, NEW months \in Int
  PROVE  /\ AddMonths(date, months) \in Date
         /\ AddMonths(date, months).month = date.month + months
         /\ AddMonths(date, months).day <= date.day
         /\ date.day <= 28 => AddMonths(date, months).day = date.day
         /\ date.day >= 28 => AddMonths(date, months).day >= 28
<1>1. date.month \in Int /\ date.day \in 1..31 BY DEF Date
<1>2. date.month + months \in Int BY <1>1
<1> QED BY <1>1, <1>2, ClampedIsDate DEF AddMonths

LEMMA PeriodEndLater ==
  ASSUME NEW start \in Date
  PROVE  /\ PeriodEnd(start) \in Date /\ PeriodEnd(start).month = start.month + 1
         /\ PeriodEnd(start).day <= start.day
         /\ start.day <= 28 => PeriodEnd(start).day = start.day
         /\ Before(start, PeriodEnd(start))
<1>1. PeriodEnd(start) \in Date /\ PeriodEnd(start).month = start.month + 1
      /\ PeriodEnd(start).day <= start.day
      /\ (start.day <= 28 => PeriodEnd(start).day = start.day)
  BY AddMonthsIsDate DEF PeriodEnd
<1>2. start.month \in Int BY DEF Date
<1> QED BY <1>1, <1>2 DEF Before

\* The due date lies a fixed number of months from its period's, whatever the days.
Offset(c) == (IF IsBoundary(c.chargeDay) THEN -1 ELSE 0) + (IF c.prepaid THEN 0 ELSE 1)

LEMMA DueDateMonth ==
  ASSUME NEW start \in Date, NEW c \in [chargeDay: 1..31, prepaid: BOOLEAN]
  PROVE  /\ InvoiceDueDate(start, c) \in Date
         /\ InvoiceDueDate(start, c).month = start.month + Offset(c)
         /\ c.chargeDay >= 28 => InvoiceDueDate(start, c).day >= 28
<1> DEFINE month == IF IsBoundary(c.chargeDay) THEN start.month - 1 ELSE start.month
           due == Clamped(month, c.chargeDay)
<1>1. month \in Int /\ c.chargeDay \in 1..31 BY DEF Date
<1>2. due \in Date /\ due.month = month /\ (c.chargeDay >= 28 => due.day >= 28)
  <2> HIDE DEF month
  <2> QED BY <1>1, ClampedIsDate
<1>3. /\ AddMonths(due, 1) \in Date /\ AddMonths(due, 1).month = month + 1
      /\ c.chargeDay >= 28 => AddMonths(due, 1).day >= 28
  BY <1>2, AddMonthsIsDate
<1>4. start.month \in Int BY DEF Date
<1>5. CASE c.prepaid
  <2>1. InvoiceDueDate(start, c) = due BY <1>5 DEF InvoiceDueDate
  <2> QED BY <2>1, <1>2, <1>4, <1>5 DEF Offset
<1>6. CASE ~ c.prepaid
  <2>1. InvoiceDueDate(start, c) = AddMonths(due, 1) BY <1>6 DEF InvoiceDueDate
  <2> QED BY <2>1, <1>3, <1>4, <1>6 DEF Offset
<1> QED BY <1>5, <1>6

LEMMA CycleDayShort ==
  ASSUME NEW chargeDay \in 1..31, AdvanceDays = DefaultAdvanceDays
  PROVE  CycleDay(chargeDay) \in 1..27
BY DEF CycleDay, IsBoundary, DefaultAdvanceDays

\* A due date computed from a start on the cycle day is in step with its period.
LEMMA DueDateInStep ==
  ASSUME NEW start \in Date, NEW c \in [chargeDay: 1..31, prepaid: BOOLEAN],
         AdvanceDays = DefaultAdvanceDays, start.day = CycleDay(c.chargeDay)
  PROVE  LET due == InvoiceDueDate(start, c)
         IN IF c.prepaid
            THEN NotAfter(due, start) /\ start.month <= due.month + 1
            ELSE NotAfter(start, due) /\ NotAfter(due, PeriodEnd(start))
<1> DEFINE month == IF IsBoundary(c.chargeDay) THEN start.month - 1 ELSE start.month
           due == Clamped(month, c.chargeDay)
<1>1. start.month \in Int /\ month \in Int /\ c.chargeDay \in 1..31 BY DEF Date
<1>2. /\ due \in Date /\ due.month = month /\ due.day <= c.chargeDay
      /\ c.chargeDay <= 28 => due.day = c.chargeDay
  <2> HIDE DEF month
  <2> QED BY <1>1, ClampedIsDate
<1>3. /\ AddMonths(due, 1) \in Date /\ AddMonths(due, 1).month = month + 1
      /\ AddMonths(due, 1).day <= due.day
      /\ due.day <= 28 => AddMonths(due, 1).day = due.day
  BY <1>2, AddMonthsIsDate
<1>4. PeriodEnd(start) \in Date /\ PeriodEnd(start).month = start.month + 1
      /\ PeriodEnd(start).day = start.day
  <2>1. start.day \in 1..27 BY <1>1, CycleDayShort
  <2> QED BY <2>1, PeriodEndLater
<1>5. due.day \in 1..31 /\ AddMonths(due, 1).day \in 1..31 BY <1>2, <1>3 DEF Date
<1>6. CASE IsBoundary(c.chargeDay)
  <2>1. start.day = 1 /\ month = start.month - 1 BY <1>6 DEF CycleDay
  <2>2. CASE c.prepaid
    <3>1. InvoiceDueDate(start, c) = due BY <2>2 DEF InvoiceDueDate
    <3> QED BY <3>1, <2>1, <2>2, <1>1, <1>2, <1>5 DEF NotAfter, Before
  <2>3. CASE ~ c.prepaid
    <3>1. InvoiceDueDate(start, c) = AddMonths(due, 1) BY <2>3 DEF InvoiceDueDate
    <3> QED BY <3>1, <2>1, <2>3, <1>1, <1>3, <1>4, <1>5 DEF NotAfter, Before
  <2> QED BY <2>2, <2>3
<1>7. CASE ~ IsBoundary(c.chargeDay)
  <2>1. start.day = c.chargeDay /\ month = start.month /\ c.chargeDay \in 1..27
    BY <1>7, CycleDayShort DEF CycleDay
  <2>2. due.day = c.chargeDay /\ AddMonths(due, 1).day = c.chargeDay BY <2>1, <1>2, <1>3
  <2>3. CASE c.prepaid
    <3>1. InvoiceDueDate(start, c) = due BY <2>3 DEF InvoiceDueDate
    <3> QED BY <3>1, <2>1, <2>2, <2>3, <1>1, <1>2 DEF NotAfter, Before
  <2>4. CASE ~ c.prepaid
    <3>1. InvoiceDueDate(start, c) = AddMonths(due, 1) BY <2>4 DEF InvoiceDueDate
    <3> QED BY <3>1, <2>1, <2>2, <2>4, <1>1, <1>3, <1>4 DEF NotAfter, Before
  <2> QED BY <2>3, <2>4
<1> QED BY <1>6, <1>7

-----------------------------------------------------------------------------
(* Types *)

Customer == [chargeDay: 1..31, prepaid: BOOLEAN]
Drafts == [start: Date, end: Date, payroll: Source, extras: Extras]
Charges == [start: Date, end: Date, due: Date, anchor: Anchor,
            payroll: Source, extras: Extras]

Subscriptions == [status: {"none", "pending", "active", "paused"}, anchor: Anchor,
                  start: Date \cup {Nothing}, end: Date \cup {Nothing},
                  due: Date \cup {Nothing}, amount: Extras]

\* The dates of a subscription that is under way.
WellDated(s) ==
  s.status \in {"pending", "active"} =>
    /\ s.start \in Date /\ s.end \in Date /\ s.due \in Date
    /\ s.anchor # "timed" => s.end = PeriodEnd(s.start)
    /\ s.anchor \in {"cycle", "given"} => s.due = InvoiceDueDate(s.start, customer)
Dated == WellDated(sub)

Uncharged == sub.status \in {"none", "pending"} => charged = <<>>

TypeInv == TypeOK /\ Dated /\ Uncharged

LEMMA SettingsTypes ==
  ASSUME TypeOK
  PROVE  /\ customer \in Customer
         /\ employee \in [discounted: Date, months: Nat, bonuses: SUBSET Int]
         /\ today \in Date /\ Given \subseteq Date /\ Nothing \notin Date
BY CyclesAssumption DEF TypeOK, Customer

LEMMA PlainIsExtras == Plain \in Extras
BY DEF Plain, Extras

LEMMA ResolvedIsExtras ==
  ASSUME TypeOK, NEW start
  PROVE  Resolved(start) \in Extras
<1>1. employee.bonuses \subseteq Int BY SettingsTypes
<1>2. CycleBonus(start) \in Int \cup {Nothing} BY <1>1 DEF CycleBonus
<1>3. InDiscount(start) \in BOOLEAN BY DEF InDiscount, NotAfter, Before
<1> QED BY <1>2, <1>3 DEF Resolved, Extras

LEMMA DraftIsDraft ==
  ASSUME TypeOK, NEW start \in Date, NEW fresh \in BOOLEAN
  PROVE  Draft(start, fresh) \in Drafts
BY ResolvedIsExtras, PlainIsExtras, PeriodEndLater DEF Draft, Drafts, Source

LEMMA CopyIsDraft ==
  ASSUME TypeOK, NEW start \in Date, NEW closing \in Charges
  PROVE  Copy(closing, start) \in Drafts
<1>1. closing.extras \in Extras BY DEF Charges
<1>2. CASE closing.payroll = "amount"
  BY <1>1, <1>2, PeriodEndLater DEF Copy, Drafts, Source
<1>3. CASE closing.payroll # "amount"
  BY <1>3, DraftIsDraft DEF Copy
<1> QED BY <1>2, <1>3

LEMMA RewrittenAreDrafts ==
  ASSUME drafts \in Seq(Drafts), NEW extras \in Extras, NEW fresh \in BOOLEAN
  PROVE  Rewritten(extras, fresh) \in Seq(Drafts)
<1> DEFINE d == [drafts[1] EXCEPT !.payroll = IF fresh THEN "fresh" ELSE "stale", !.extras = extras]
<1>1. CASE Len(drafts) = 1
  <2>1. drafts[1] \in Drafts BY <1>1
  <2>2. d \in Drafts BY <2>1 DEF Drafts, Source
  <2>3. Rewritten(extras, fresh) = <<d>> BY <1>1 DEF Rewritten
  <2> HIDE DEF d
  <2> QED BY <2>2, <2>3
<1>2. CASE Len(drafts) # 1 BY <1>2 DEF Rewritten
<1> QED BY <1>1, <1>2

LEMMA OnCycleDated ==
  ASSUME TypeOK, NEW start \in Date, NEW amount \in Extras,
         NEW status \in {"pending", "active"}, NEW anchor \in Anchor
  PROVE  LET s == OnCycle(status, anchor, start, amount)
         IN /\ s.status = status /\ s.anchor = anchor
            /\ s.start = start /\ s.end = PeriodEnd(start)
            /\ s.due = InvoiceDueDate(start, customer)
            /\ s \in Subscriptions /\ WellDated(s)
<1>1. InvoiceDueDate(start, customer) \in Date
  BY SettingsTypes, DueDateMonth DEF Customer
<1> QED BY <1>1, PeriodEndLater DEF OnCycle, Subscription, Subscriptions, WellDated

\* What a step owes the type invariant.
LEMMA TypeInvStep ==
  ASSUME TypeInv, UNCHANGED settings, today' \in Today,
         sub' \in Subscriptions, WellDated(sub'),
         drafts' \in Seq(Drafts), charged' \in Seq(Charges),
         sub'.status \in {"none", "pending"} => charged' = <<>>
  PROVE  TypeInv'
<1>1. customer' = customer /\ employee' = employee BY DEF settings
<1>2. customer' \in Customers /\ employee' \in Employees BY <1>1 DEF TypeInv, TypeOK
<1>3. Dated' BY <1>1 DEF Dated, WellDated
<1>4. sub'.status \in {"pending", "active"} =>
        /\ sub'.start # Nothing /\ sub'.end # Nothing /\ sub'.due # Nothing
        /\ sub'.anchor # "timed" => Before(sub'.start, sub'.end)
  <2>1. Nothing \notin Date BY CyclesAssumption
  <2> QED BY <2>1, PeriodEndLater DEF WellDated
<1>5. TypeOK' BY <1>2, <1>4 DEF TypeOK, Subscriptions, Drafts, Charges
<1> QED BY <1>3, <1>5 DEF TypeInv, Uncharged

LEMMA RemoveAtSeq ==
  ASSUME NEW S, NEW s \in Seq(S), NEW i \in DOMAIN s
  PROVE  RemoveAt(s, i) \in Seq(S)
<1>1. i \in 1..Len(s) /\ Len(s) \in Nat OBVIOUS
<1>2. \A j \in 1..Len(s) : s[j] \in S OBVIOUS
<1>3. SubSeq(s, 1, i - 1) \in Seq(S)
  BY <1>1, <1>2, SubSeqProperties
<1>4. SubSeq(s, i + 1, Len(s)) \in Seq(S)
  BY <1>1, <1>2, SubSeqProperties
<1> QED BY <1>3, <1>4 DEF RemoveAt

THEOREM TypesInvariant == Spec => []TypeInv
<1>1. Init => TypeInv
  <2> SUFFICES ASSUME Init PROVE TypeInv OBVIOUS
  <2> QED BY DEF Init, NoSubscription, Plain, Extras, Anchor, TypeInv, TypeOK, Dated, WellDated, Uncharged
<1>2. TypeInv /\ [Next]_vars => TypeInv'
  <2> SUFFICES ASSUME TypeInv, [Next]_vars PROVE TypeInv' OBVIOUS
  <2> USE DEF TypeInv
  <2>0. /\ today \in Today /\ sub \in Subscriptions /\ WellDated(sub)
        /\ drafts \in Seq(Drafts) /\ charged \in Seq(Charges)
    BY DEF TypeOK, Subscriptions, Drafts, Charges, Dated
  <2>1. CASE CreateFromEvent
    <3>1. PICK onboarding \in Given, fresh \in BOOLEAN :
            LET start == FirstPeriodStart(onboarding)
                draft == Draft(start, fresh)
            IN sub' = OnCycle("active", "cycle", start, draft.extras) /\ drafts' = <<draft>>
      BY <2>1 DEF CreateFromEvent
    <3> DEFINE start == FirstPeriodStart(onboarding)
               draft == Draft(start, fresh)
    <3>2. start \in Date
      <4>1. onboarding \in Date /\ today \in Date /\ customer.chargeDay \in 1..31
        BY SettingsTypes DEF Customer
      <4> DEFINE month == IF onboarding.month > today.month THEN onboarding.month ELSE today.month
      <4>2. CycleDay(customer.chargeDay) \in 1..31 BY <4>1 DEF CycleDay
      <4>3. month + 1 \in Int BY <4>1 DEF Date
      <4>4. Clamped(month + 1, CycleDay(customer.chargeDay)) \in Date
        BY <4>2, <4>3, ClampedIsDate
      <4> QED BY <4>4 DEF FirstPeriodStart
    <3>3. draft \in Drafts BY <3>2, DraftIsDraft
    <3>4. draft.extras \in Extras BY <3>3 DEF Drafts
    <3>5. sub' = OnCycle("active", "cycle", start, draft.extras) /\ drafts' = <<draft>>
          /\ UNCHANGED settings /\ today' = today /\ charged' = charged
      BY <3>1, <2>1 DEF CreateFromEvent
    <3>6. drafts' \in Seq(Drafts) BY <3>3, <3>5
    <3>7. sub' \in Subscriptions /\ WellDated(sub') /\ sub'.status = "active"
      BY <3>2, <3>4, <3>5, OnCycleDated DEF Anchor
    <3> QED BY <3>5, <3>6, <3>7, <2>0, TypeInvStep
  <2>2. CASE Create
    <3>1. PICK start \in Given : sub' = OnCycle("pending", "given", start, Plain)
      BY <2>2 DEF Create
    <3>2. start \in Date /\ Plain \in Extras BY SettingsTypes DEF Plain, Extras
    <3>3. /\ UNCHANGED settings /\ today' = today /\ drafts' = drafts /\ charged' = charged
          /\ charged = <<>>
      BY <2>2 DEF Create, books, Uncharged
    <3>4. sub' \in Subscriptions /\ WellDated(sub') BY <3>1, <3>2, OnCycleDated DEF Anchor
    <3> QED BY <3>3, <3>4, <2>0, TypeInvStep
  <2>3. CASE Migrate
    <3>1. today \in Date /\ customer \in Customer /\ today.month \in Int
          /\ customer.chargeDay \in 1..31 /\ Given \subseteq Date
      BY SettingsTypes DEF Date, Customer
    <3>2. UNCHANGED settings /\ today' = today /\ charged' = charged BY <2>3 DEF Migrate
    <3>3. drafts' \in Seq(Drafts)
      <4>1. CASE drafts' = <<>> BY <4>1
      <4>2. ASSUME NEW month \in {today.month, today.month + 1},
                   drafts' = <<Draft(Clamped(month, 1), FALSE)>>
            PROVE  drafts' \in Seq(Drafts)
        <5>1. month \in Int BY <3>1
        <5>2. Clamped(month, 1) \in Date BY <5>1, ClampedIsDate
        <5> DEFINE draft == Draft(Clamped(month, 1), FALSE)
        <5>3. draft \in Drafts BY <5>2, DraftIsDraft
        <5>4. drafts' = <<draft>> BY <4>2
        <5> HIDE DEF draft
        <5> QED BY <5>3, <5>4
      <4> QED BY <2>3, <4>1, <4>2 DEF Migrate
    <3>4. sub' \in Subscriptions /\ WellDated(sub') /\ sub'.status = "active"
      <4>1. CASE sub' = Subscription("active", "migration", MigratedPeriodStart, MigratedDueDate, Plain)
        <5>1. MigratedPeriodStart \in Date BY <3>1 DEF MigratedPeriodStart, Date, AtMonthsEnd
        <5>2. MigratedDueDate \in Date BY <3>1 DEF MigratedDueDate, Date, AtMonthsEnd
        <5> QED BY <4>1, <5>1, <5>2, PlainIsExtras, PeriodEndLater
                DEF Subscription, Subscriptions, WellDated, Anchor
      <4>2. ASSUME NEW start \in Given, NEW end \in Given, NEW due \in Given,
                   sub' = [Subscription("active", "timed", start, due, Plain) EXCEPT !.end = end]
            PROVE  sub' \in Subscriptions /\ WellDated(sub') /\ sub'.status = "active"
        BY <3>1, <4>2, PlainIsExtras DEF Subscription, Subscriptions, WellDated, Anchor
      <4> QED BY <2>3, <4>1, <4>2 DEF Migrate
    <3> QED BY <3>2, <3>3, <3>4, <2>0, TypeInvStep
  <2>4. CASE Activate
    <3>1. /\ UNCHANGED settings /\ today' = today /\ drafts' = drafts /\ charged' = charged
          /\ sub' = [sub EXCEPT !.status = "active"] /\ sub.status = "pending"
      BY <2>4 DEF Activate, books
    <3>2. sub' \in Subscriptions /\ WellDated(sub') /\ sub'.status = "active"
      BY <3>1, <2>0 DEF Subscriptions, WellDated
    <3> QED BY <3>1, <3>2, <2>0, TypeInvStep
  <2>5. CASE Pause
    <3>1. /\ UNCHANGED settings /\ today' = today /\ charged' = charged
          /\ sub' = [sub EXCEPT !.status = "paused", !.due = Nothing]
      BY <2>5 DEF Pause
    <3>2. sub' \in Subscriptions /\ WellDated(sub') /\ sub'.status = "paused"
      BY <3>1, <2>0 DEF Subscriptions, WellDated
    <3>3. drafts' \in Seq(Drafts)
      <4>1. drafts # <<>> => Tail(drafts) \in Seq(Drafts) BY <2>0
      <4> QED BY <2>0, <2>5, <4>1 DEF Pause
    <3> QED BY <3>1, <3>2, <3>3, <2>0, TypeInvStep
  <2>6. CASE ResumeFromEvent
    <3>1. PICK start \in Given, fresh \in BOOLEAN :
            LET draft == Draft(start, fresh)
            IN /\ sub' = OnCycle("active", "given", start, draft.extras)
               /\ drafts' = IF drafts = <<>> THEN <<draft>> ELSE Rewritten(draft.extras, fresh)
      BY <2>6 DEF ResumeFromEvent
    <3> DEFINE draft == Draft(start, fresh)
    <3>2. start \in Date BY SettingsTypes
    <3>3. draft \in Drafts BY <3>2, DraftIsDraft
    <3>4. draft.extras \in Extras BY <3>3 DEF Drafts
    <3>5. /\ sub' = OnCycle("active", "given", start, draft.extras)
          /\ drafts' = IF drafts = <<>> THEN <<draft>> ELSE Rewritten(draft.extras, fresh)
          /\ charged' = <<>> /\ UNCHANGED settings /\ today' = today
      BY <3>1, <2>6 DEF ResumeFromEvent
    <3>6. drafts' \in Seq(Drafts) /\ charged' \in Seq(Charges)
      <4> HIDE DEF draft
      <4>1. <<draft>> \in Seq(Drafts) BY <3>3
      <4>2. Rewritten(draft.extras, fresh) \in Seq(Drafts) BY <3>4, <2>0, RewrittenAreDrafts
      <4> QED BY <3>5, <4>1, <4>2
    <3>7. sub' \in Subscriptions /\ WellDated(sub') /\ sub'.status = "active"
      BY <3>2, <3>4, <3>5, OnCycleDated DEF Anchor
    <3> QED BY <3>5, <3>6, <3>7, <2>0, TypeInvStep
  <2>7. CASE Resume
    <3>1. /\ sub' = Subscription("active", "resume", today, PeriodEnd(today), sub.amount)
          /\ charged' = <<>> /\ UNCHANGED settings /\ today' = today /\ drafts' = drafts
      BY <2>7 DEF Resume
    <3>2. today \in Date /\ sub.amount \in Extras BY SettingsTypes DEF TypeOK
    <3>3. sub' \in Subscriptions /\ WellDated(sub') /\ sub'.status = "active"
      BY <3>1, <3>2, PeriodEndLater DEF Subscription, Subscriptions, WellDated, Anchor
    <3>4. charged' \in Seq(Charges) BY <3>1
    <3> QED BY <3>1, <3>3, <3>4, <2>0, TypeInvStep
  <2>8. CASE ApplyPayrollUpdate
    <3>1. Resolved(sub.start) \in Extras BY ResolvedIsExtras
    <3>2. drafts' \in Seq(Drafts)
      BY <2>8, <2>0, <3>1, RewrittenAreDrafts DEF ApplyPayrollUpdate
    <3>3. /\ sub' = [sub EXCEPT !.amount = Resolved(sub.start)] /\ sub.status = "active"
          /\ UNCHANGED settings /\ today' = today /\ charged' = charged
      BY <2>8 DEF ApplyPayrollUpdate
    <3>4. sub' \in Subscriptions /\ WellDated(sub') /\ sub'.status = "active"
      BY <3>1, <3>3, <2>0 DEF Subscriptions, WellDated
    <3> QED BY <3>2, <3>3, <3>4, <2>0, TypeInvStep
  <2>9. CASE Bill
    <3>1. sub.status = "active" /\ sub' = Advanced /\ UNCHANGED settings /\ today' = today
      BY <2>9 DEF Bill
    <3>2. /\ sub.start \in Date /\ sub.end \in Date /\ sub.due \in Date
          /\ sub.anchor \in Anchor /\ sub.amount \in Extras
      BY <3>1, PeriodEndLater, <2>0 DEF Subscriptions, WellDated
    <3>3. charged' \in Seq(Charges) /\ drafts' \in Seq(Drafts)
      <4>1. \A payroll \in Source, extras \in Extras : Charge(payroll, extras) \in Charges
        BY <3>2 DEF Charge, Charges
      <4>2. \A open \in Seq(Drafts), closing \in Charges, fresh \in BOOLEAN :
              Seeded(open, closing, fresh) \in Seq(Drafts)
        <5> SUFFICES ASSUME NEW open \in Seq(Drafts), NEW closing \in Charges, NEW fresh \in BOOLEAN
                     PROVE  Seeded(open, closing, fresh) \in Seq(Drafts)
          OBVIOUS
        <5> DEFINE d == IF fresh THEN Draft(sub.end, TRUE) ELSE Copy(closing, sub.end)
        <5>1. d \in Drafts BY <3>2, DraftIsDraft, CopyIsDraft
        <5>2. Seeded(open, closing, fresh) \in {open, Append(open, d)} BY DEF Seeded
        <5> HIDE DEF d
        <5> QED BY <5>1, <5>2
      <4>3. PICK fresh \in BOOLEAN :
              IF PeriodDrafts = {}
              THEN /\ charged' = Append(charged, Charge("amount", sub.amount))
                   /\ drafts' = Seeded(drafts, Charge("amount", sub.amount), fresh)
              ELSE \E i \in PeriodDrafts :
                     LET closing == Charge(drafts[i].payroll, drafts[i].extras)
                     IN /\ charged' = Append(charged, closing)
                        /\ drafts' = Seeded(RemoveAt(drafts, i), closing, fresh)
        BY <2>9 DEF Bill
      <4>4. CASE PeriodDrafts = {}
        <5>1. Charge("amount", sub.amount) \in Charges BY <4>1, <3>2 DEF Source
        <5>2. drafts' \in Seq(Drafts) BY <4>2, <4>3, <4>4, <5>1, <2>0
        <5>3. charged' \in Seq(Charges) BY <5>1, <4>3, <4>4, <2>0
        <5> QED BY <5>2, <5>3
      <4>5. CASE PeriodDrafts # {}
        <5>1. PICK i \in PeriodDrafts :
                LET closing == Charge(drafts[i].payroll, drafts[i].extras)
                IN /\ charged' = Append(charged, closing)
                   /\ drafts' = Seeded(RemoveAt(drafts, i), closing, fresh)
          BY <4>3, <4>5
        <5>2. i \in DOMAIN drafts /\ drafts[i] \in Drafts BY <2>0 DEF PeriodDrafts
        <5>3. RemoveAt(drafts, i) \in Seq(Drafts) BY <5>2, <2>0, RemoveAtSeq
        <5>4. Charge(drafts[i].payroll, drafts[i].extras) \in Charges
          BY <5>2, <4>1 DEF Drafts
        <5>5. drafts' \in Seq(Drafts) BY <5>1, <5>3, <5>4, <4>2
        <5>6. charged' \in Seq(Charges) BY <5>1, <5>4, <2>0
        <5> QED BY <5>5, <5>6
      <4> QED BY <4>4, <4>5
    <3>4. PICK anchor \in Anchor : Advanced = OnCycle("active", anchor, sub.end, sub.amount)
      BY <3>2 DEF Advanced, Anchor
    <3>5. sub' \in Subscriptions /\ WellDated(sub') /\ sub'.status = "active"
      BY <3>1, <3>2, <3>4, OnCycleDated
    <3> QED BY <3>1, <3>3, <3>5, TypeInvStep, <2>0
  <2>10. CASE Wait
    <3>1. /\ UNCHANGED settings /\ today' \in Today /\ sub' = sub
          /\ drafts' = drafts /\ charged' = charged
      BY <2>10 DEF Wait, books
    <3> QED BY <3>1, <2>0, TypeInvStep DEF Uncharged
  <2>11. CASE UNCHANGED vars
    BY <2>11 DEF vars, TypeOK, Dated, WellDated, Uncharged
  <2> QED
    BY <2>1, <2>2, <2>3, <2>4, <2>5, <2>6, <2>7, <2>8, <2>9, <2>10, <2>11 DEF Next
<1> QED BY <1>1, <1>2, PTL DEF Spec
THEOREM CyclesTypes == Spec => []TypeOK
BY TypesInvariant, PTL DEF TypeInv

-----------------------------------------------------------------------------
(* The months that are charged *)

\* The current period follows the one charged last.
Linked ==
  charged # <<>> /\ sub.status = "active" => Follows(charged[Len(charged)], sub)

\* The current period is in step with its customer's charge day, and what the
\* migration set is earlier than, and at most a month from, the due date to come.
Stepping ==
  sub.status \in {"pending", "active"} =>
    /\ sub.anchor \in {"cycle", "migration"} => InStep(sub)
    /\ sub.anchor = "migration" =>
         LET next == InvoiceDueDate(sub.end, customer)
         IN Before(sub.due, next) /\ next.month <= sub.due.month + 1

CalendarInv == TypeInv /\ Linked /\ Stepping /\ ChargedMonthly /\ DueWithPeriod

LEMMA OnCycleInStep ==
  ASSUME TypeOK, AdvanceDays = DefaultAdvanceDays, NEW start \in Date, NEW amount,
         NEW status, NEW anchor, start.day = CycleDay(customer.chargeDay)
  PROVE  InStep(OnCycle(status, anchor, start, amount))
<1>1. customer \in Customer BY SettingsTypes
<1> QED BY <1>1, DueDateInStep DEF Customer, InStep, OnCycle, Subscription

\* The migration's dates are those of the subscriptions service, but for a
\* charge day its month lacks, which is charged on the 1st of the next.
LEMMA MigratedInStep ==
  ASSUME TypeOK, AdvanceDays = DefaultAdvanceDays
  PROVE  LET s == Subscription("active", "migration", MigratedPeriodStart, MigratedDueDate, Plain)
             next == InvoiceDueDate(s.end, customer)
         IN InStep(s) /\ Before(s.due, next) /\ next.month <= s.due.month + 1
<1> DEFINE start == MigratedPeriodStart
           end == PeriodEnd(start)
           due == MigratedDueDate
           next == InvoiceDueDate(end, customer)
<1>1. customer \in Customer /\ today.month \in Int /\ customer.chargeDay \in 1..31
      /\ customer.prepaid \in BOOLEAN
  BY SettingsTypes DEF Customer, Date
<1>2. AtMonthsEnd(customer.chargeDay) = IsBoundary(customer.chargeDay)
  BY DEF AtMonthsEnd, IsBoundary, DefaultAdvanceDays
<1>3. start \in Date /\ start.day = CycleDay(customer.chargeDay) /\ start.day <= 27
      /\ start.month = IF customer.prepaid THEN today.month + 1 ELSE today.month
  <2>1. CycleDay(customer.chargeDay) \in 1..27 BY <1>1, CycleDayShort
  <2>2. start.day = CycleDay(customer.chargeDay) BY <1>2 DEF MigratedPeriodStart, CycleDay
  <2>3. start.month = IF customer.prepaid THEN today.month + 1 ELSE today.month
    BY DEF MigratedPeriodStart
  <2>4. start \in [month: Int, day: 1..31]
    BY <2>1, <2>2, <2>3, <1>1 DEF MigratedPeriodStart
  <2> QED BY <2>1, <2>2, <2>3, <2>4 DEF Date
<1>4. end \in Date /\ end.month = start.month + 1 /\ end.day = start.day
  <2>1. start.day \in 1..31 BY <1>3 DEF Date
  <2> QED BY <1>3, <2>1, PeriodEndLater
<1>5. next \in Date /\ next.month = end.month + Offset(customer)
  BY <1>1, <1>4, DueDateMonth DEF Customer
<1>6. DaysInMonth(today.month) \in 28..31 BY <1>1, DaysInMonthBounds
<1>7. CASE AtMonthsEnd(customer.chargeDay)
  <2>1. start.day = 1 BY <1>7, <1>3, <1>2 DEF CycleDay
  <2>2. next.month = today.month + 1
    BY <1>1, <1>2, <1>3, <1>4, <1>5, <1>7 DEF Offset
  <2>3. CASE customer.chargeDay <= DaysInMonth(today.month)
    <3>1. due = [month |-> today.month, day |-> customer.chargeDay]
      BY <2>3, <1>7 DEF MigratedDueDate
    <3>2. Before(due, next) /\ next.month <= due.month + 1 BY <3>1, <2>2, <1>1 DEF Before
    <3>3. InStep(Subscription("active", "migration", start, due, Plain))
      BY <3>1, <2>1, <1>1, <1>3, <1>4 DEF InStep, Subscription, NotAfter, Before
    <3> QED BY <3>2, <3>3 DEF Subscription
  <2>4. CASE customer.chargeDay > DaysInMonth(today.month)
    <3>1. due = [month |-> today.month + 1, day |-> 1]
      BY <2>4, <1>1, <1>6, <1>7 DEF MigratedDueDate
    <3>2. next.day >= 28 /\ next.day \in Int
      <4>1. customer.chargeDay >= 28 BY <1>7 DEF AtMonthsEnd
      <4> QED BY <4>1, <1>1, <1>4, <1>5, DueDateMonth DEF Customer, Date
    <3>3. due.month = next.month /\ due.day < next.day BY <3>1, <3>2, <2>2
    <3>5. Before(due, next) /\ next.month <= due.month + 1 BY <3>1, <3>3, <2>2, <1>1 DEF Before
    <3>4. InStep(Subscription("active", "migration", start, due, Plain))
      BY <3>1, <2>1, <1>1, <1>3, <1>4 DEF InStep, Subscription, NotAfter, Before
    <3> QED BY <3>4, <3>5 DEF Subscription
  <2> QED BY <2>3, <2>4, <1>1, <1>6
<1>8. CASE ~ AtMonthsEnd(customer.chargeDay)
  <2>1. start.day = customer.chargeDay BY <1>8, <1>3, <1>2 DEF CycleDay
  <2>2. next.month = today.month + 2
    BY <1>1, <1>2, <1>3, <1>4, <1>5, <1>8 DEF Offset
  <2>3. due = [month |-> today.month + 1, day |-> customer.chargeDay]
    BY <1>8 DEF MigratedDueDate
  <2>4. Before(due, next) /\ next.month <= due.month + 1 BY <2>3, <2>2, <1>1 DEF Before
  <2>5. InStep(Subscription("active", "migration", start, due, Plain))
    BY <2>1, <2>3, <1>1, <1>3, <1>4 DEF InStep, Subscription, NotAfter, Before
  <2> QED BY <2>4, <2>5 DEF Subscription
<1> QED BY <1>7, <1>8
LEMMA PlainUncharged ==
  ASSUME charged' = <<>>
  PROVE  Linked' /\ ChargedMonthly' /\ DueWithPeriod'
BY DEF Linked, ChargedMonthly, DueWithPeriod

\* Steps that leave the charges, the settings and the subscription's dates alone.
LEMMA DatesUnchanged ==
  ASSUME CalendarInv, TypeInv', UNCHANGED <<settings, charged>>,
         sub'.start = sub.start, sub'.end = sub.end, sub'.due = sub.due,
         sub'.anchor = sub.anchor,
         sub'.status \in {"pending", "active"} => sub.status \in {"pending", "active"},
         sub'.status = "active" /\ charged # <<>> => sub.status = "active"
  PROVE  CalendarInv'
<1>1. customer' = customer /\ charged' = charged BY DEF settings
<1>2. ChargedMonthly' /\ DueWithPeriod'
  BY <1>1 DEF CalendarInv, ChargedMonthly, DueWithPeriod, InStep
<1>3. Linked' BY <1>1 DEF CalendarInv, Linked, Follows
<1>4. Stepping' BY <1>1 DEF CalendarInv, Stepping, InStep
<1> QED BY <1>2, <1>3, <1>4 DEF CalendarInv

\* The period that Bill leaves follows the one it charges.
LEMMA AdvancedFollows ==
  ASSUME CalendarInv, sub.status = "active", AdvanceDays = DefaultAdvanceDays
  PROVE  /\ Follows(sub, Advanced)
         /\ Advanced.anchor \in {"cycle", "given"}
         /\ Advanced.anchor = "cycle" => InStep(Advanced)
<1>1. TypeOK /\ sub.start \in Date /\ sub.end \in Date /\ sub.due \in Date
      /\ (sub.anchor # "timed" => sub.end = PeriodEnd(sub.start))
      /\ sub.anchor \in Anchor /\ sub.amount \in Extras
      /\ customer \in Customer
      /\ (sub.anchor \in {"cycle", "given"} => sub.due = InvoiceDueDate(sub.start, customer))
  BY SettingsTypes DEF CalendarInv, TypeInv, Dated, WellDated, TypeOK
<1>2. sub.anchor # "timed" =>
        /\ sub.end.month = sub.start.month + 1
        /\ sub.start.day <= 28 => sub.end.day = sub.start.day
  BY <1>1, PeriodEndLater
<1> DEFINE next == InvoiceDueDate(sub.end, customer)
<1>3. next \in Date /\ next.month = sub.end.month + Offset(customer)
  BY <1>1, DueDateMonth DEF Customer
<1>4. Advanced.due = next BY DEF Advanced, OnCycle, Subscription
<1>5. ASSUME sub.anchor \in {"cycle", "given"} PROVE Follows(sub, Advanced)
  <2>1. sub.due.month = sub.start.month + Offset(customer)
    BY <1>1, <1>5, DueDateMonth DEF Customer
  <2>2. sub.start.month \in Int /\ Offset(customer) \in Int BY <1>1 DEF Date, Offset
  <2>3. Advanced.due.month = sub.due.month + 1 BY <1>2, <1>3, <1>4, <1>5, <2>1, <2>2
  <2> QED BY <2>3, <1>5 DEF Follows
<1>6. ASSUME sub.anchor = "migration" PROVE Follows(sub, Advanced)
  BY <1>4, <1>6 DEF Follows, CalendarInv, Stepping
<1>7. ASSUME sub.anchor \in {"timed", "resume"} PROVE Follows(sub, Advanced)
  BY <1>7 DEF Follows
<1>8. Advanced.anchor \in {"cycle", "given"}
      /\ (Advanced.anchor = "cycle" => sub.anchor \in {"cycle", "migration"})
  BY <1>1 DEF Advanced, OnCycle, Subscription, Anchor
<1>9. ASSUME Advanced.anchor = "cycle" PROVE InStep(Advanced)
  <2>1. sub.start.day = CycleDay(customer.chargeDay)
    BY <1>8, <1>9 DEF CalendarInv, Stepping, InStep
  <2>2. CycleDay(customer.chargeDay) \in 1..27 BY <1>1, CycleDayShort DEF Customer
  <2>3. sub.end.day = CycleDay(customer.chargeDay) BY <1>2, <1>8, <1>9, <2>1, <2>2
  <2>4. InStep(OnCycle("active", "cycle", sub.end, sub.amount))
    BY <1>1, <1>2, <2>3, OnCycleInStep
  <2>5. Advanced = OnCycle("active", "cycle", sub.end, sub.amount)
    BY <1>8, <1>9, <1>1 DEF Advanced, Anchor, OnCycle, Subscription
  <2> QED BY <2>4, <2>5
<1> QED BY <1>1, <1>5, <1>6, <1>7, <1>8, <1>9 DEF Anchor

THEOREM CalendarInvariant ==
  ASSUME AdvanceDays = DefaultAdvanceDays
  PROVE  Spec => []CalendarInv
<1>1. Init => CalendarInv
  <2> SUFFICES ASSUME Init PROVE CalendarInv OBVIOUS
  <2>1. TypeInv
    BY DEF Init, NoSubscription, Plain, Extras, Anchor, TypeInv, TypeOK, Dated, WellDated, Uncharged
  <2> QED
    BY <2>1 DEF Init, NoSubscription, CalendarInv, Linked, Stepping, ChargedMonthly, DueWithPeriod
<1>2. TypeInv' /\ CalendarInv /\ [Next]_vars => CalendarInv'
  <2> SUFFICES ASSUME TypeInv', CalendarInv, [Next]_vars PROVE CalendarInv' OBVIOUS
  <2>0. TypeOK /\ TypeInv /\ customer \in Customer /\ charged \in Seq(Charges)
    BY SettingsTypes DEF CalendarInv, TypeInv, TypeOK, Charges
  <2>1. CASE CreateFromEvent
    <3>10. PICK onboarding \in Given : \E extras :
             sub' = OnCycle("active", "cycle", FirstPeriodStart(onboarding), extras)
      BY <2>1 DEF CreateFromEvent
    <3>1. PICK extras :
            sub' = OnCycle("active", "cycle", FirstPeriodStart(onboarding), extras)
      BY <3>10
    <3>2. UNCHANGED settings /\ charged' = <<>>
      BY <2>1, <2>0 DEF CreateFromEvent, TypeInv, Uncharged
    <3> DEFINE start == FirstPeriodStart(onboarding)
    <3>3. start \in Date /\ start.day = CycleDay(customer.chargeDay)
      <4>1. onboarding \in Date /\ today \in Date BY SettingsTypes, <2>0
      <4>2. CycleDay(customer.chargeDay) \in 1..27 BY <2>0, CycleDayShort DEF Customer
      <4> DEFINE month == IF onboarding.month > today.month THEN onboarding.month ELSE today.month
      <4>3. month + 1 \in Int BY <4>1 DEF Date
      <4>4. Clamped(month + 1, CycleDay(customer.chargeDay)) \in Date
            /\ Clamped(month + 1, CycleDay(customer.chargeDay)).day = CycleDay(customer.chargeDay)
        <5> DEFINE next == month + 1
                   day == CycleDay(customer.chargeDay)
        <5>1. next \in Int /\ day \in 1..31 /\ day <= 28 BY <4>2, <4>3
        <5> HIDE DEF next, day
        <5>2. Clamped(next, day) \in Date /\ Clamped(next, day).day = day BY <5>1, ClampedIsDate
        <5> QED BY <5>2 DEF next, day
      <4> QED BY <4>4 DEF FirstPeriodStart
    <3>4. InStep(sub') BY <3>1, <3>3, <2>0, OnCycleInStep
    <3>5. sub'.anchor = "cycle" BY <3>1 DEF OnCycle, Subscription
    <3>6. Stepping' BY <3>2, <3>4, <3>5 DEF Stepping, InStep, settings
    <3> QED BY <3>2, <3>6, PlainUncharged DEF CalendarInv
  <2>2. CASE Create
    <3>1. charged' = <<>> BY <2>2, <2>0 DEF Create, books, TypeInv, Uncharged
    <3>2. sub'.anchor = "given" BY <2>2 DEF Create, OnCycle, Subscription
    <3> QED BY <3>1, <3>2, PlainUncharged DEF CalendarInv, Stepping
  <2>3. CASE Migrate
    <3>1. charged' = <<>> /\ customer' = customer
      BY <2>3, <2>0 DEF Migrate, TypeInv, Uncharged, settings
    <3>2. Stepping'
      <4>1. CASE sub' = Subscription("active", "migration", MigratedPeriodStart, MigratedDueDate, Plain)
        BY <3>1, <4>1, <2>0, MigratedInStep DEF Stepping, InStep
      <4>2. ASSUME NEW start \in Given, NEW end \in Given, NEW due \in Given,
                   sub' = [Subscription("active", "timed", start, due, Plain) EXCEPT !.end = end]
            PROVE  Stepping'
        BY <4>2 DEF Subscription, Stepping
      <4> QED BY <2>3, <4>1, <4>2 DEF Migrate
    <3> QED BY <3>1, <3>2, PlainUncharged DEF CalendarInv
  <2>4. CASE Activate
    <3>1. charged = <<>> BY <2>4, <2>0 DEF Activate, TypeInv, Uncharged
    <3>2. /\ UNCHANGED <<settings, charged>> /\ sub' = [sub EXCEPT !.status = "active"]
          /\ sub.status = "pending"
      BY <2>4 DEF Activate, books
    <3> QED BY <3>1, <3>2, <2>0, DatesUnchanged DEF TypeOK
  <2>5. CASE Pause
    <3>1. /\ customer' = customer /\ charged' = charged /\ sub'.status = "paused"
      BY <2>5, <2>0 DEF Pause, settings, TypeOK
    <3> QED BY <3>1
        DEF CalendarInv, Linked, Stepping, ChargedMonthly, DueWithPeriod, InStep
  <2>6. CASE ResumeFromEvent
    <3>1. charged' = <<>> BY <2>6 DEF ResumeFromEvent
    <3>2. sub'.anchor = "given" BY <2>6 DEF ResumeFromEvent, OnCycle, Subscription
    <3> QED BY <3>1, <3>2, PlainUncharged DEF CalendarInv, Stepping
  <2>7. CASE Resume
    <3>1. charged' = <<>> BY <2>7 DEF Resume
    <3>2. sub'.anchor = "resume" BY <2>7 DEF Resume, Subscription
    <3> QED BY <3>1, <3>2, PlainUncharged DEF CalendarInv, Stepping
  <2>8. CASE ApplyPayrollUpdate
    <3>1. /\ UNCHANGED <<settings, charged>> /\ sub.status = "active"
          /\ sub' = [sub EXCEPT !.amount = Resolved(sub.start)]
      BY <2>8 DEF ApplyPayrollUpdate
    <3> QED BY <3>1, <2>0, DatesUnchanged DEF TypeOK
  <2>9. CASE Bill
    <3>1. sub.status = "active" /\ sub' = Advanced /\ customer' = customer
      BY <2>9 DEF Bill, settings
    <3>2. PICK payroll, extras : charged' = Append(charged, Charge(payroll, extras))
      BY <2>9 DEF Bill
    <3> DEFINE charge == Charge(payroll, extras)
    <3>3. /\ charge.start = sub.start /\ charge.end = sub.end
          /\ charge.due = sub.due /\ charge.anchor = sub.anchor
      BY DEF Charge
    <3>4. /\ Len(charged') = Len(charged) + 1
          /\ charged'[Len(charged) + 1] = charge
          /\ \A i \in 1..Len(charged) : charged'[i] = charged[i]
          /\ DOMAIN charged' = 1..(Len(charged) + 1) /\ DOMAIN charged = 1..Len(charged)
          /\ Len(charged) \in Nat
      BY <3>2, <2>0
    <3> HIDE DEF charge
    <3>5. Follows(charge, sub') BY <3>1, <3>3, AdvancedFollows DEF Follows
    <3>6. Linked' BY <3>4, <3>5 DEF Linked
    <3>7. Stepping' BY <3>1, AdvancedFollows DEF Stepping, InStep
    <3>8. ChargedMonthly'
      <4> SUFFICES ASSUME NEW i \in DOMAIN charged', i + 1 \in DOMAIN charged'
                   PROVE  Follows(charged'[i], charged'[i + 1])
        BY DEF ChargedMonthly
      <4>1. CASE i + 1 \in DOMAIN charged
        BY <4>1, <3>4 DEF CalendarInv, ChargedMonthly
      <4>2. CASE i + 1 = Len(charged) + 1
        <5>1. i = Len(charged) /\ i \in 1..Len(charged) /\ charged # <<>>
          BY <4>2, <3>4
        <5>2. Follows(charged[i], sub) BY <5>1, <3>1 DEF CalendarInv, Linked
        <5>3. Follows(charged[i], charge) BY <5>2, <3>3 DEF Follows
        <5> QED BY <5>1, <5>3, <4>2, <3>4
      <4> QED BY <4>1, <4>2, <3>4
    <3>9. DueWithPeriod'
      <4>1. charge.anchor \in {"cycle", "migration"} => InStep(charge)
        BY <3>1, <3>3 DEF CalendarInv, Stepping, InStep
      <4> SUFFICES ASSUME NEW i \in DOMAIN charged', charged'[i].anchor \in {"cycle", "migration"}
                   PROVE  InStep(charged'[i])
        BY <3>1 DEF DueWithPeriod, InStep
      <4>2. CASE i \in DOMAIN charged BY <4>2, <3>4 DEF CalendarInv, DueWithPeriod
      <4>3. CASE i = Len(charged) + 1 BY <4>3, <4>1, <3>4
      <4> QED BY <4>2, <4>3, <3>4
    <3> QED BY <3>6, <3>7, <3>8, <3>9 DEF CalendarInv
  <2>10. CASE Wait
    <3>1. UNCHANGED <<settings, charged, sub>> BY <2>10 DEF Wait, books
    <3> QED BY <3>1, DatesUnchanged
  <2>11. CASE UNCHANGED vars
    <3>1. UNCHANGED <<settings, charged, sub>> BY <2>11 DEF vars, settings
    <3> QED BY <3>1, DatesUnchanged
  <2> QED
    BY <2>1, <2>2, <2>3, <2>4, <2>5, <2>6, <2>7, <2>8, <2>9, <2>10, <2>11 DEF Next
<1> QED BY <1>1, <1>2, TypesInvariant, PTL DEF Spec

\* However the months' lengths fall, no month is charged twice or left out.
THEOREM MonthsAreCharged ==
  ASSUME AdvanceDays = DefaultAdvanceDays
  PROVE  Spec => []ChargedMonthly
BY CalendarInvariant, PTL DEF CalendarInv

\* A subscription that follows its charge day never drifts from it.
THEOREM PeriodsAreInStep ==
  ASSUME AdvanceDays = DefaultAdvanceDays
  PROVE  Spec => []DueWithPeriod
BY CalendarInvariant, PTL DEF CalendarInv

-----------------------------------------------------------------------------
(* Discounts and bonuses *)

\* When every period was charged on the customer's cycle, their months follow one
\* another, what they carry is what their drafts were resolved for, and the one
\* open draft is that of the current period, the next in the row.
OnlyCycle == \A i \in DOMAIN charged : charged[i].anchor = "cycle"
Carries(period) ==
  /\ period.payroll \in {"fresh", "stale"}
  /\ period.extras = IF period.payroll = "fresh" THEN Resolved(period.start) ELSE Plain
InARow ==
  \A i \in DOMAIN charged :
    charged[i].start.month = charged[1].start.month + i - 1 /\ Carries(charged[i])
DraftStands ==
  sub.status = "active" /\ sub.anchor = "cycle" =>
    /\ Len(drafts) = 1 /\ Carries(drafts[1])
    /\ drafts[1].start = sub.start /\ drafts[1].end = sub.end
    /\ charged # <<>> => sub.start.month = charged[1].start.month + Len(charged)

PendingIsGiven == sub.status = "pending" => sub.anchor = "given"

BenefitInv == PendingIsGiven /\ (OnlyCycle => InARow /\ DraftStands)

LEMMA DraftCarries ==
  ASSUME NEW start, NEW fresh \in BOOLEAN
  PROVE  /\ Draft(start, fresh).start = start /\ Draft(start, fresh).end = PeriodEnd(start)
         /\ Carries(Draft(start, fresh))
BY DEF Draft, Carries

\* The draft of the current period is the one that is billed, and leaves room for its
\* successor.
LEMMA OneIsReplaced ==
  ASSUME NEW S, NEW s \in Seq(S), Len(s) = 1, NEW i \in DOMAIN s
  PROVE  i = 1 /\ RemoveAt(s, i) = <<>>
<1>1. i = 1 /\ Len(s) = 1 BY LenProperties
<1>2. SubSeq(s, 1, 0) = <<>> /\ SubSeq(s, 2, 1) = <<>> BY SubSeqEmpty
<1>3. <<>> \o <<>> = <<>>
  <2>1. <<>> \in Seq(S) BY EmptySeq
  <2> QED BY <2>1, ConcatEmptySeq
<1> QED BY <1>1, <1>2, <1>3 DEF RemoveAt

\* Steps that bill nothing.
LEMMA NothingBilled ==
  ASSUME BenefitInv, UNCHANGED <<settings, charged>>, PendingIsGiven',
         OnlyCycle => DraftStands'
  PROVE  BenefitInv'
<1>1. employee' = employee /\ charged' = charged BY DEF settings
<1>2. OnlyCycle' = OnlyCycle BY <1>1 DEF OnlyCycle
<1>3. InARow' = InARow
  BY <1>1 DEF InARow, Carries, Resolved, InDiscount, CycleBonus
<1> QED BY <1>2, <1>3 DEF BenefitInv

LEMMA FirstBilled ==
  ASSUME charged' = <<>>, PendingIsGiven', DraftStands'
  PROVE  BenefitInv'
BY DEF BenefitInv, InARow

LEMMA BenefitStep ==
  ASSUME TypeInv, BenefitInv, [Next]_vars
  PROVE  BenefitInv'
<1>0. /\ drafts \in Seq(Drafts) /\ charged \in Seq(Charges) /\ sub \in Subscriptions
      /\ TypeOK /\ WellDated(sub) /\ Uncharged
  BY DEF TypeInv, TypeOK, Drafts, Charges, Subscriptions, Dated
<1>1. CASE CreateFromEvent
  <2>1. PICK onboarding \in Given, fresh \in BOOLEAN :
          LET start == FirstPeriodStart(onboarding)
              draft == Draft(start, fresh)
          IN /\ sub' = OnCycle("active", "cycle", start, draft.extras)
             /\ drafts' = <<draft>>
    BY <1>1 DEF CreateFromEvent
  <2> DEFINE start == FirstPeriodStart(onboarding)
             draft == Draft(start, fresh)
  <2>2. /\ sub'.start = start /\ sub'.end = PeriodEnd(start) /\ sub'.status = "active"
        /\ charged = <<>> /\ charged' = <<>> /\ employee' = employee
    BY <1>0, <1>1, <2>1 DEF CreateFromEvent, Uncharged, OnCycle, Subscription, settings
  <2>3. draft.start = start /\ draft.end = PeriodEnd(start) /\ Carries(draft)
    BY DraftCarries
  <2>4. drafts' = <<draft>> BY <2>1
  <2> HIDE DEF draft, start
  <2>5. DraftStands'
    BY <2>2, <2>3, <2>4 DEF DraftStands, Carries, Resolved, InDiscount, CycleBonus
  <2> QED BY <2>2, <2>5, FirstBilled DEF PendingIsGiven
<1>2. CASE Create
  <2>1. sub'.status = "pending" /\ sub'.anchor = "given" /\ charged' = <<>>
    BY <1>0, <1>2 DEF Create, OnCycle, Subscription, books, Uncharged
  <2> QED BY <2>1, FirstBilled DEF PendingIsGiven, DraftStands
<1>3. CASE Migrate
  <2>1. sub'.status = "active" /\ sub'.anchor \in {"migration", "timed"} /\ charged' = <<>>
    <3>1. charged' = <<>> BY <1>0, <1>3 DEF Migrate, Uncharged
    <3>2. CASE sub' = Subscription("active", "migration", MigratedPeriodStart, MigratedDueDate, Plain)
      BY <3>1, <3>2 DEF Subscription
    <3>3. ASSUME NEW start, NEW end, NEW due,
                 sub' = [Subscription("active", "timed", start, due, Plain) EXCEPT !.end = end]
          PROVE  sub'.status = "active" /\ sub'.anchor = "timed"
      BY <3>3 DEF Subscription
    <3> QED BY <1>3, <3>1, <3>2, <3>3 DEF Migrate
  <2> QED BY <2>1, FirstBilled DEF PendingIsGiven, DraftStands
<1>4. CASE Activate
  <2>1. /\ sub.status = "pending" /\ sub' = [sub EXCEPT !.status = "active"]
        /\ UNCHANGED <<settings, charged>>
    BY <1>4 DEF Activate, books
  <2>2. sub'.status = "active" /\ sub'.anchor = "given"
    BY <1>0, <2>1 DEF Subscriptions, BenefitInv, PendingIsGiven
  <2> QED BY <2>1, <2>2, NothingBilled DEF PendingIsGiven, DraftStands
<1>5. CASE Pause
  <2>1. sub'.status = "paused" /\ UNCHANGED <<settings, charged>>
    BY <1>0, <1>5 DEF Pause, Subscriptions
  <2> QED BY <2>1, NothingBilled DEF PendingIsGiven, DraftStands
<1>6. CASE ResumeFromEvent
  <2>1. sub'.anchor = "given" /\ sub'.status = "active" /\ charged' = <<>>
    BY <1>6 DEF ResumeFromEvent, OnCycle, Subscription
  <2> QED BY <2>1, FirstBilled DEF PendingIsGiven, DraftStands
<1>7. CASE Resume
  <2>1. sub'.anchor = "resume" /\ sub'.status = "active" /\ charged' = <<>>
    BY <1>7 DEF Resume, Subscription
  <2> QED BY <2>1, FirstBilled DEF PendingIsGiven, DraftStands
<1>8. CASE ApplyPayrollUpdate
  <2>1. /\ sub.status = "active" /\ sub' = [sub EXCEPT !.amount = Resolved(sub.start)]
        /\ UNCHANGED <<settings, charged>> /\ employee' = employee
    BY <1>8 DEF ApplyPayrollUpdate, settings
  <2>2. /\ sub'.status = "active" /\ sub'.anchor = sub.anchor
        /\ sub'.start = sub.start /\ sub'.end = sub.end
    BY <1>0, <2>1 DEF Subscriptions
  <2>3. ASSUME OnlyCycle, sub.anchor = "cycle" PROVE DraftStands'
    <3> DEFINE d == [drafts[1] EXCEPT !.payroll = IF TRUE THEN "fresh" ELSE "stale",
                                      !.extras = Resolved(sub.start)]
    <3>1. /\ Len(drafts) = 1 /\ drafts[1].start = sub.start /\ drafts[1].end = sub.end
          /\ charged # <<>> => sub.start.month = charged[1].start.month + Len(charged)
      BY <2>1, <2>3 DEF BenefitInv, DraftStands
    <3>2. drafts # <<>> /\ drafts[1] \in Drafts
      <4>1. 1 \in DOMAIN drafts /\ DOMAIN drafts = 1..1 BY <1>0, <3>1
      <4>2. drafts # <<>> BY <3>1
      <4> QED BY <1>0, <4>1, <4>2
    <3>3. drafts' = <<d>> BY <1>8, <3>1 DEF ApplyPayrollUpdate, Rewritten
    <3>4. d.start = sub.start /\ d.end = sub.end /\ d.payroll = "fresh" /\ d.extras = Resolved(sub.start)
      BY <3>1, <3>2 DEF Drafts
    <3>5. Carries(d) BY <3>4 DEF Carries
    <3> HIDE DEF d
    <3>6. Len(drafts') = 1 /\ drafts'[1] = d BY <3>3
    <3> QED BY <2>1, <2>2, <3>1, <3>4, <3>5, <3>6
          DEF DraftStands, Carries, Resolved, InDiscount, CycleBonus
  <2>4. DraftStands' \/ sub.anchor = "cycle" BY <2>2 DEF DraftStands
  <2> QED BY <2>1, <2>2, <2>3, <2>4, NothingBilled DEF PendingIsGiven
<1>9. CASE Bill
  <2>1. /\ sub.status = "active" /\ sub' = Advanced /\ employee' = employee
        /\ sub.start \in Date /\ sub.end \in Date
        /\ sub.anchor = "cycle" => sub.end = PeriodEnd(sub.start)
    BY <1>0, <1>9 DEF Bill, settings, WellDated
  <2>2. sub'.status = "active" /\ sub'.start = sub.end /\ sub'.end = PeriodEnd(sub.end)
    BY <2>1 DEF Advanced, OnCycle, Subscription
  <2>3. /\ sub.start.month \in Int
        /\ sub.anchor = "cycle" => sub.end.month = sub.start.month + 1
    BY <2>1, PeriodEndLater DEF Date
  <2>a. PICK payroll, extras : charged' = Append(charged, Charge(payroll, extras)) BY <1>9 DEF Bill
  <2> DEFINE n == Len(charged)
  <2>b. /\ n \in Nat /\ DOMAIN charged = 1..n /\ DOMAIN charged' = 1..(n + 1) /\ Len(charged') = n + 1
        /\ charged'[n + 1] = Charge(payroll, extras)
        /\ \A i \in 1..n : charged'[i] = charged[i]
    BY <1>0, <2>a
  <2>c. Charge(payroll, extras).anchor = sub.anchor /\ Charge(payroll, extras).start = sub.start
        /\ Charge(payroll, extras).payroll = payroll /\ Charge(payroll, extras).extras = extras
    BY DEF Charge
  <2> HIDE DEF n
  <2>4. CASE ~ (OnlyCycle /\ sub.anchor = "cycle")
    <3>1. ~ OnlyCycle' 
      <4>1. CASE sub.anchor # "cycle" BY <2>b, <2>c, <4>1 DEF OnlyCycle
      <4>2. CASE ~ OnlyCycle
        <5>1. PICK i \in 1..n : charged[i].anchor # "cycle" BY <2>b, <4>2 DEF OnlyCycle
        <5>2. charged'[i].anchor # "cycle" /\ i \in 1..(n + 1) BY <2>b, <5>1
        <5> QED BY <2>b, <5>2 DEF OnlyCycle
      <4> QED BY <2>4, <4>1, <4>2
    <3> QED BY <2>2, <3>1 DEF BenefitInv, PendingIsGiven
  <2>5. CASE OnlyCycle /\ sub.anchor = "cycle"
    <3>1. /\ InARow /\ Len(drafts) = 1 /\ Carries(drafts[1])
          /\ drafts[1].start = sub.start /\ drafts[1].end = sub.end
          /\ charged # <<>> => sub.start.month = charged[1].start.month + n
      BY <2>1, <2>5 DEF BenefitInv, DraftStands, n
    <3>2. DOMAIN drafts = {1} BY <1>0, <3>1
    <3>3. PeriodDrafts = {1} BY <3>1, <3>2 DEF PeriodDrafts
    <3> DEFINE c == Charge(drafts[1].payroll, drafts[1].extras)
    <3>4. PICK fresh \in BOOLEAN :
            charged' = Append(charged, c) /\ drafts' = Seeded(RemoveAt(drafts, 1), c, fresh)
      BY <1>9, <3>3 DEF Bill
    <3> DEFINE d == IF fresh THEN Draft(sub.end, TRUE) ELSE Copy(c, sub.end)
    <3>5. drafts' = <<d>>
      <4>1. RemoveAt(drafts, 1) = <<>> BY <1>0, <3>1, <3>2, OneIsReplaced
      <4> HIDE DEF d, c
      <4>2. Append(<<>>, d) = <<d>> OBVIOUS
      <4>3. ~ \E i \in DOMAIN <<>> : <<>>[i].start = sub.end /\ <<>>[i].end = PeriodEnd(sub.end)
        OBVIOUS
      <4>4. Seeded(<<>>, c, fresh) = Append(<<>>, d) BY <4>3 DEF Seeded, d
      <4> QED BY <3>4, <4>1, <4>2, <4>4
    <3>6. d.start = sub.end /\ d.end = PeriodEnd(sub.end) /\ Carries(d)
      <4>1. c.payroll # "amount" BY <3>1 DEF Charge, Carries
      <4>2. d = Draft(sub.end, fresh) BY <4>1 DEF Copy
      <4> HIDE DEF d
      <4> QED BY <4>2, DraftCarries
    <3>7. /\ c.start = sub.start /\ c.payroll = drafts[1].payroll /\ c.extras = drafts[1].extras
      BY DEF Charge
    <3>8. charged'[n + 1] = c BY <1>0, <3>4, <2>b DEF n
    <3>9. Carries(c) BY <3>1, <3>7 DEF Carries
    <3> HIDE DEF c, d
    <3>10. \A i \in 1..(n + 1) : Carries(charged'[i])
      <4>1. \A i \in 1..n : Carries(charged[i]) BY <2>b, <3>1 DEF InARow
      <4>2. \A i \in 1..(n + 1) : i \in 1..n \/ i = n + 1 BY <2>b
      <4> QED BY <2>b, <3>8, <3>9, <4>1, <4>2
    <3>11. \A i \in 1..(n + 1) : charged'[i].start.month = charged'[1].start.month + i - 1
      <4>1. CASE n = 0
        <5>1. \A i \in 1..(n + 1) : i = 1 BY <4>1
        <5>2. charged'[1].start.month \in Int BY <2>3, <3>7, <3>8, <4>1
        <5> QED BY <5>1, <5>2
      <4>2. CASE n # 0
        <5>1. 1 \in 1..n /\ charged'[1] = charged[1] /\ charged # <<>> BY <2>b, <4>2
        <5>2. charged[1].start.month + n = sub.start.month BY <3>1, <5>1
        <5>3. \A i \in 1..n : charged'[i].start.month = charged'[1].start.month + i - 1
          BY <2>b, <3>1, <5>1 DEF InARow
        <5>4. charged'[n + 1].start.month = charged'[1].start.month + n
          BY <3>7, <3>8, <5>1, <5>2
        <5>6. charged[1] \in Charges BY <1>0, <2>b, <5>1
        <5>5. charged[1].start.month \in Int
          BY <5>6 DEF Charges, Date
        <5>7. \A i \in 1..(n + 1) : i \in 1..n \/ i = n + 1 BY <2>b
        <5>8. (n + 1) - 1 = n BY <2>b
        <5>9. \A i \in 1..n : charged'[i].start.month = charged'[1].start.month + i - 1 BY <5>3
        <5>10. charged'[n + 1].start.month = charged'[1].start.month + (n + 1) - 1
          BY <2>b, <5>1, <5>4, <5>5
        <5> QED BY <5>7, <5>9, <5>10
      <4> QED BY <4>1, <4>2
    <3>12. InARow'
      BY <2>1, <2>b, <3>10, <3>11 DEF InARow, Carries, Resolved, InDiscount, CycleBonus
    <3>13. charged'[1].start.month + n = sub.start.month /\ charged'[1].start.month \in Int
      <4>1. charged'[n + 1].start.month = charged'[1].start.month + (n + 1) - 1
            /\ charged'[1].start.month = charged'[1].start.month + 1 - 1
        BY <2>b, <3>11
      <4>2. CASE n = 0 BY <2>3, <3>7, <3>8, <4>2
      <4>3. CASE n # 0
        <5>1. charged'[1] = charged[1] /\ charged[1] \in Charges /\ charged # <<>> BY <1>0, <2>b, <4>3
        <5>2. charged[1].start.month \in Int BY <5>1 DEF Charges, Date
        <5> QED BY <3>1, <5>1, <5>2
      <4> QED BY <4>2, <4>3
    <3>14. sub'.start.month = charged'[1].start.month + Len(charged')
      <4>1. sub'.start.month = sub.end.month BY <2>2
      <4>2. sub.end.month = sub.start.month + 1 BY <2>3, <2>5
      <4>3. Len(charged') = n + 1 /\ n \in Nat BY <2>b
      <4> QED BY <3>13, <4>1, <4>2, <4>3
    <3>15. DraftStands'
      BY <2>1, <2>2, <3>5, <3>6, <3>14
        DEF DraftStands, Carries, Resolved, InDiscount, CycleBonus
    <3> QED BY <2>2, <3>12, <3>15 DEF BenefitInv, PendingIsGiven
  <2> QED BY <2>4, <2>5
<1>10. CASE Wait \/ UNCHANGED vars
  <2>1. UNCHANGED <<settings, charged, sub, drafts>> /\ employee' = employee
    BY <1>10 DEF Wait, vars, settings, books
  <2>2. PendingIsGiven' BY <2>1 DEF BenefitInv, PendingIsGiven
  <2>3. DraftStands' = DraftStands
    BY <2>1 DEF DraftStands, Carries, Resolved, InDiscount, CycleBonus
  <2> QED BY <2>1, <2>2, <2>3, NothingBilled DEF BenefitInv
<1> QED BY <1>1, <1>2, <1>3, <1>4, <1>5, <1>6, <1>7, <1>8, <1>9, <1>10 DEF Next

\* The months whose periods lie in the discount's: as many as it runs.
FirstDiscounted(day) ==
  IF employee.discounted.day <= day THEN employee.discounted.month
  ELSE employee.discounted.month + 1

LEMMA DiscountedMonths ==
  ASSUME TypeOK, NEW start \in Date, start.day \in 1..27
  PROVE  InDiscount(start) <=>
           /\ FirstDiscounted(start.day) <= start.month
           /\ start.month <= FirstDiscounted(start.day) + employee.months - 1
<1> DEFINE D == employee.discounted
           E == AddMonths(D, employee.months)
<1>1. D \in Date /\ employee.months \in Nat BY SettingsTypes
<1>2. D.month \in Int /\ D.day \in 1..31 /\ start.month \in Int BY <1>1 DEF Date
<1>3. /\ E.month = D.month + employee.months /\ E.day \in 1..31
      /\ D.day <= 28 => E.day = D.day
      /\ D.day >= 28 => E.day >= 28
  <2>1. employee.months \in Int BY <1>1
  <2>2. /\ E \in Date /\ E.month = D.month + employee.months
        /\ D.day <= 28 => E.day = D.day
        /\ D.day >= 28 => E.day >= 28
    BY <1>1, <2>1, AddMonthsIsDate
  <2>3. E.day \in 1..31 BY <2>2 DEF Date
  <2> HIDE DEF E, D
  <2> QED BY <2>2, <2>3
<1> HIDE DEF E
<1>4. InDiscount(start) <=> NotAfter(D, start) /\ Before(start, E) BY DEF InDiscount, E
<1>5. CASE D.day <= start.day
  <2>1. FirstDiscounted(start.day) = D.month BY <1>5 DEF FirstDiscounted
  <2>2. E.day = D.day BY <1>2, <1>3, <1>5
  <2> QED BY <1>1, <1>2, <1>3, <1>4, <1>5, <2>1, <2>2 DEF NotAfter, Before
<1>6. CASE ~ (D.day <= start.day)
  <2>1. FirstDiscounted(start.day) = D.month + 1 BY <1>6 DEF FirstDiscounted
  <2>2. start.day < E.day BY <1>2, <1>3, <1>6
  <2> QED BY <1>1, <1>2, <1>3, <1>4, <1>6, <2>1, <2>2 DEF NotAfter, Before
<1> QED BY <1>5, <1>6

\* What a charge that follows the cycle carries: nothing unless its payroll was at
\* hand, and otherwise what its month is entitled to.
LEMMA CarriedExtras ==
  ASSUME TypeOK, NEW period \in Charges, Carries(period)
  PROVE  /\ period.payroll # "amount"
         /\ period.extras.discount <=> period.payroll = "fresh" /\ InDiscount(period.start)
         /\ \A month \in employee.bonuses :
              period.extras.bonus = month <=>
                period.payroll = "fresh" /\ period.start.month - 1 = month
<1>1. employee.bonuses \subseteq Int BY SettingsTypes
<1>2. Nothing \notin Int BY CyclesAssumption
<1>3. period.start.month \in Int BY DEF Charges, Date
<1>4. CASE period.payroll = "fresh"
  <2>1. /\ period.extras.discount = InDiscount(period.start)
        /\ period.extras.bonus = CycleBonus(period.start)
    BY <1>4 DEF Carries, Resolved
  <2> QED BY <1>1, <1>2, <1>3, <1>4, <2>1 DEF CycleBonus
<1>5. CASE period.payroll = "stale"
  <2>1. period.extras.discount = FALSE /\ period.extras.bonus = Nothing
    BY <1>5 DEF Carries, Plain
  <2> QED BY <1>1, <1>2, <1>5, <2>1
<1> QED BY <1>4, <1>5 DEF Carries

LEMMA BenefitsFollow ==
  ASSUME TypeInv, DueWithPeriod, BenefitInv, AdvanceDays = DefaultAdvanceDays
  PROVE  BenefitsRunTheirMonths
<1> DEFINE discounted == {i \in Drafted : charged[i].extras.discount}
           paying(month) == {i \in Drafted : charged[i].extras.bonus = month}
           from == employee.discounted.month
<1> SUFFICES ASSUME OnlyCycle
             PROVE  /\ Cardinality(discounted) <= employee.months
                    /\ Covers(from, from + employee.months) => Cardinality(discounted) = employee.months
                    /\ \A month \in employee.bonuses :
                         /\ Cardinality(paying(month)) <= 1
                         /\ Covers(month + 1, month + 1) => Cardinality(paying(month)) = 1
  BY DEF BenefitsRunTheirMonths, OnlyCycle
<1>1. /\ TypeOK /\ charged \in Seq(Charges) /\ InARow
      /\ customer.chargeDay \in 1..31 /\ employee.months \in Nat
      /\ employee.discounted \in Date /\ employee.bonuses \subseteq Int
  BY SettingsTypes DEF TypeInv, TypeOK, Charges, BenefitInv, Customer
<1> DEFINE n == Len(charged)
           s == CycleDay(customer.chargeDay)
           M == charged[1].start.month
           first == FirstDiscounted(s)
           given == (first - M + 1)..(first + employee.months - M)
<1>2. n \in Nat /\ DOMAIN charged = 1..n /\ s \in 1..27
  <2>1. n \in Nat /\ DOMAIN charged = 1..n BY <1>1
  <2>2. s \in 1..27 BY <1>1, CycleDayShort
  <2> QED BY <2>1, <2>2
<1>3. from \in Int /\ first \in {from, from + 1} /\ first \in Int
  BY <1>1 DEF Date, FirstDiscounted
<1>4. \A i \in 1..n : /\ charged[i] \in Charges /\ Carries(charged[i])
                      /\ charged[i].start \in Date /\ charged[i].start.day = s
                      /\ charged[i].start.month = M + i - 1
  <2>1. \A i \in 1..n : charged[i] \in Charges BY <1>1, <1>2
  <2>2. \A i \in 1..n : InStep(charged[i]) BY <1>2 DEF DueWithPeriod, OnlyCycle
  <2> QED BY <1>1, <1>2, <2>1, <2>2 DEF InARow, InStep, Charges
<1>5. n # 0 => M \in Int
  <2>1. n # 0 => 1 \in 1..n BY <1>2
  <2> QED BY <1>4, <2>1 DEF Date
<1> HIDE DEF s, n, M
<1>6. \A i \in 1..n : charged[i].extras.discount <=> charged[i].payroll = "fresh" /\ i \in given
  <2> SUFFICES ASSUME NEW i \in 1..n
               PROVE  charged[i].extras.discount <=> charged[i].payroll = "fresh" /\ i \in given
    OBVIOUS
  <2>1. charged[i].extras.discount <=>
          charged[i].payroll = "fresh" /\ InDiscount(charged[i].start)
    BY <1>1, <1>4, CarriedExtras
  <2>2. InDiscount(charged[i].start) <=>
          first <= charged[i].start.month /\ charged[i].start.month <= first + employee.months - 1
    BY <1>1, <1>2, <1>4, DiscountedMonths
  <2>3. charged[i].start.month = M + i - 1 /\ M \in Int BY <1>2, <1>4, <1>5
  <2>4. InDiscount(charged[i].start) <=> i \in given
    <3>1. i \in Int BY <1>2
    <3>2. employee.months \in Nat BY <1>1
    <3> HIDE DEF first
    <3>3. /\ first <= M + i - 1 <=> first - M + 1 <= i
          /\ M + i - 1 <= first + employee.months - 1 <=> i <= first + employee.months - M
      BY <1>3, <2>3, <3>1, <3>2
    <3>4. i \in given <=> first - M + 1 <= i /\ i <= first + employee.months - M
      BY <1>3, <2>3, <3>1, <3>2
    <3> QED BY <2>2, <2>3, <3>3, <3>4
  <2> QED BY <2>1, <2>4
<1>7. Drafted = 1..n /\ discounted = {i \in 1..n : charged[i].payroll = "fresh" /\ i \in given}
  <2>1. \A i \in 1..n : charged[i].payroll # "amount" BY <1>1, <1>4, CarriedExtras
  <2>2. Drafted = 1..n BY <1>2, <2>1 DEF Drafted
  <2> QED BY <1>6, <2>2
<1>8. n # 0 => IsFiniteSet(given) /\ Cardinality(given) = employee.months
  <2> HAVE n # 0
  <2>1. first - M + 1 \in Int /\ first + employee.months - M \in Int BY <1>1, <1>3, <1>5
  <2>2. /\ IsFiniteSet(given)
        /\ Cardinality(given) = IF first - M + 1 > first + employee.months - M THEN 0
                                ELSE (first + employee.months - M) - (first - M + 1) + 1
    BY <2>1, FS_Interval
  <2> QED BY <1>1, <1>3, <1>5, <2>2
<1>9. Cardinality({}) = 0 BY FS_EmptySet
<1>10. \A a, b \in Int : Covers(a, b) =>
         /\ n # 0 /\ M < a /\ b < M + n - 1
         /\ \A i \in 1..n : charged[i].payroll = "fresh"
  <2> SUFFICES ASSUME NEW a \in Int, NEW b \in Int, Covers(a, b)
               PROVE  /\ n # 0 /\ M < a /\ b < M + n - 1
                      /\ \A i \in 1..n : charged[i].payroll = "fresh"
    OBVIOUS
  <2>1. n # 0 BY <1>1 DEF Covers, n
  <2>2. n \in 1..n BY <1>2, <2>1
  <2>3. charged[n].start.month = M + n - 1 BY <1>4, <2>2
  <2> QED BY <1>2, <2>1, <2>3 DEF Covers, n, M
<1> HIDE DEF first, given, discounted
<1>11. Cardinality(discounted) <= employee.months
  <2>1. CASE n = 0
    <3>1. discounted = {} BY <1>7, <2>1
    <3> QED BY <1>1, <1>9, <3>1
  <2>2. CASE n # 0
    <3>1. discounted \in SUBSET given BY <1>7
    <3> QED BY <1>8, <2>2, <3>1, FS_Subset
  <2> QED BY <2>1, <2>2
<1>12. Covers(from, from + employee.months) => Cardinality(discounted) = employee.months
  <2> HAVE Covers(from, from + employee.months)
  <2>1. /\ n # 0 /\ M < from /\ from + employee.months < M + n - 1
        /\ \A i \in 1..n : charged[i].payroll = "fresh"
    <3>1. from + employee.months \in Int BY <1>1, <1>3
    <3> QED BY <1>3, <1>10, <3>1
  <2>2. given \subseteq 1..n
    <3>1. M \in Int /\ n \in Nat /\ employee.months \in Nat BY <1>1, <1>2, <1>5, <2>1
    <3>2. 1 <= first - M + 1 /\ first + employee.months - M <= n BY <1>3, <2>1, <3>1
    <3> QED BY <1>3, <3>1, <3>2 DEF given
  <2>3. discounted = given BY <1>7, <2>1, <2>2
  <2> QED BY <1>8, <2>1, <2>3
<1>13. ASSUME NEW month \in employee.bonuses
       PROVE  /\ Cardinality(paying(month)) <= 1
              /\ Covers(month + 1, month + 1) => Cardinality(paying(month)) = 1
  <2> DEFINE k == month + 2 - M
  <2>1. month \in Int BY <1>1
  <2>2. \A i \in 1..n : charged[i].extras.bonus = month <=> charged[i].payroll = "fresh" /\ i = k
    <3> SUFFICES ASSUME NEW i \in 1..n
                 PROVE  charged[i].extras.bonus = month <=> charged[i].payroll = "fresh" /\ i = k
      OBVIOUS
    <3>1. charged[i].extras.bonus = month <=>
            charged[i].payroll = "fresh" /\ charged[i].start.month - 1 = month
      BY <1>1, <1>4, CarriedExtras
    <3>2. charged[i].start.month = M + i - 1 /\ M \in Int BY <1>2, <1>4, <1>5
    <3>3. charged[i].start.month - 1 = month <=> i = k BY <2>1, <3>2
    <3> QED BY <3>1, <3>3
  <2> HIDE DEF k
  <2>3. paying(month) = {i \in 1..n : charged[i].payroll = "fresh" /\ i = k} BY <1>7, <2>2
  <2>4. IsFiniteSet({k}) /\ Cardinality({k}) = 1 BY FS_Singleton
  <2>5. Cardinality(paying(month)) <= 1
    <3>1. paying(month) \in SUBSET {k} BY <2>3
    <3> HIDE DEF paying
    <3> QED BY <2>4, <3>1, FS_Subset
  <2>6. Covers(month + 1, month + 1) => Cardinality(paying(month)) = 1
    <3> HAVE Covers(month + 1, month + 1)
    <3>1. /\ n # 0 /\ M < month + 1 /\ month + 1 < M + n - 1
          /\ \A i \in 1..n : charged[i].payroll = "fresh"
      <4>1. month + 1 \in Int BY <2>1
      <4> QED BY <1>10, <4>1
    <3>2. k \in 1..n BY <1>2, <1>5, <2>1, <3>1 DEF k
    <3>3. paying(month) = {k} BY <2>3, <3>1, <3>2
    <3> QED BY <2>4, <3>3
  <2> QED BY <2>5, <2>6
<1> QED BY <1>11, <1>12, <1>13

\* A discount runs for its months and a month's bonus is paid once: along a
\* subscription that follows its charge day neither is given twice, and neither is
\* left out where every period's payroll was at hand.
THEOREM BenefitsAreCounted ==
  ASSUME AdvanceDays = DefaultAdvanceDays
  PROVE  Spec => []BenefitsRunTheirMonths
<1>1. Init => BenefitInv
  BY DEF Init, BenefitInv, PendingIsGiven, OnlyCycle, InARow, DraftStands, NoSubscription
<1>2. TypeInv /\ BenefitInv /\ [Next]_vars => BenefitInv' BY BenefitStep
<1>3. CalendarInv => TypeInv /\ DueWithPeriod BY DEF CalendarInv
<1>4. CalendarInv /\ BenefitInv => BenefitsRunTheirMonths BY <1>3, BenefitsFollow
<1> QED BY <1>1, <1>2, <1>4, TypesInvariant, CalendarInvariant, PTL DEF Spec
=============================================================================
