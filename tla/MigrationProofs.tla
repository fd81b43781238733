---------------------------- MODULE MigrationProofs ----------------------------
(***************************************************************************)
(* Proofs about Migration for every source, and any number of overlapping  *)
(* requests, scripts, reruns, crashes and rollbacks.  Five layers:         *)
(*   1. the types, with what an actor about to write knows of its item;    *)
(*   2. a row is charged once;                                             *)
(*   3. the ledger of the writers, document by document: none is written   *)
(*      twice, and a rollback finds of those it read what is booked;       *)
(*   4. what a request has behind it is done, and stays so as long as the  *)
(*      customer it works for is there;                                    *)
(*   5. an invoice says what its writer made of its row.                   *)
(***************************************************************************)
EXTENDS Migration, SumTheorems, SequenceTheorems, TLAPS

-----------------------------------------------------------------------------
(* The invariants *)

AnyRow == Row("payroll") \cup Row("charge")
InvoiceRecord ==
  [row: AnyRow, by: Actor, status: {"draft", "finalized", "paid", "void"},
   charge: {"none", "succeeded", "failed", "pending"}, total: Int, linked: BOOLEAN]
Job == [pc: {"idle", "settings", "insert", "look", "write"},
        op: {"none", "surcharge", "payroll", "charges"}, id: Nat, at: Nat, done: BOOLEAN]

\* Layer 1.  What becomes of a row in the hands of an actor.
StatusBy(a, row) ==
  IF a \in Migrator
  THEN IF row.kind = "payroll" THEN PayrollStatus(row) ELSE ChargeStatus(row)
  ELSE IF row.kind = "payroll" THEN ScriptPayrollStatus(row) ELSE ScriptChargeStatus(row)
TotalBy(a, row) ==
  IF row.kind = "payroll" THEN row.amount
  ELSE IF a \in Migrator THEN Magnitude(row.amount) ELSE Magnitude(row.items)

CustomerInv ==
  /\ customer \in [id: Nat, methods: BOOLEAN, assigned: BOOLEAN]
  /\ created \in 0..MaxCustomers /\ customer.id <= created
  /\ customer.id # 0 => customer.methods = source.methods
  /\ customer.id = 0 =>
       invoices = {} /\ notes = {} /\ ~config /\ subscriptions = 0 /\ ~customer.methods
AccountInv ==
  /\ source \in Source
  /\ invoices \in SUBSET InvoiceRecord /\ IsFiniteSet(invoices)
  /\ \A i \in invoices : i.row \in Rows
  /\ notes \in SUBSET Migrator /\ config \in BOOLEAN /\ subscriptions \in Nat
  /\ ledger \in [Document -> Int]
\* An actor works for a customer, from the first item on; what it is about to
\* write means something, and it has not written it yet.
Working(a) == job[a].pc \in {"look", "write"} \/ job[a].done
Writing(a) == job[a].pc = "write" /\ job[a].at <= Len(Work(a))
JobKnows(a) ==
  /\ job[a].pc \in {"look", "write"} => job[a].at # 0
  /\ job[a].id <= created
  /\ Working(a) => job[a].id # 0
  /\ job[a].done => At(a, "idle")
  /\ Writing(a) /\ Item(a).kind \in {"payroll", "charge"} =>
       /\ StatusBy(a, Item(a)) # Skip
       /\ \A i \in invoices : ~ (i.row = Item(a) /\ i.by = a)
  /\ Writing(a) /\ Item(a).kind = "credit" /\ Mine(a) => a \notin notes
JobsInv == job \in [Actor -> Job] /\ \A a \in Actor : JobKnows(a)

\* What a rollback has read is of the customer it began with, and the entries
\* it has found are those of the requests' documents among it.
Entries == {<<>>} \cup UNION {[S -> Int] : S \in SUBSET Document}
Removal == [pc: {"idle", "reverse", "delete"}, id: Nat, read: SUBSET Document, found: Entries]
RemovalKnows(x) ==
  /\ removal[x].id <= created
  /\ removal[x].pc # "idle" => removal[x].id # 0 /\ \A d \in removal[x].read : d[1] = removal[x].id
  /\ removal[x].pc = "delete" =>
       removal[x].found \in [{d \in removal[x].read : OfRequest(d)} -> Int]
RemovalsInv ==
  /\ removal \in [Remover -> Removal] /\ overtaken \in SUBSET (1..created)
  /\ \A x \in Remover : RemovalKnows(x)

TypeInv == CustomerInv /\ AccountInv /\ JobsInv

\* Layer 2.
OneCharge ==
  \A i, j \in invoices : i.row = j.row /\ i.charge # "none" /\ j.charge # "none" => i = j

\* Layer 3.
\* What a rollback has read of the customer that is there it still holds, and
\* the books had it once.
ReadIsHeld(x) ==
  removal[x].pc # "idle" /\ removal[x].id = customer.id =>
    /\ removal[x].read \subseteq Held
    /\ removal[x].pc = "delete" =>
         \A d \in removal[x].read : OfRequest(d) => removal[x].found[d] = 1
LedgerInv ==
  LedgerFollowsWriters /\ customer.id \notin overtaken /\ \A x \in Remover : ReadIsHeld(x)

\* Layer 4.  What a request has done of its items.
Done(item) ==
  /\ item.kind = "credit" /\ source.credit = "some" => notes # {}
  /\ item.kind = "surcharge" /\ source.surcharge = "some" => config
  /\ item.kind \in {"payroll", "charge"} /\ Mapped(item) => InvoicesOf(item) # {}
  /\ item.kind = "subscription" => subscriptions > 0
Upcoming(row) ==
  row.kind = "payroll" /\ row.status = "upcoming" /\ ~row.deleted /\ ~row.failure
\* The invoice of an upcoming payroll is a draft until the end.
DraftsInv == \A i \in invoices : Upcoming(i.row) => i.status = "draft"
\* A subscription takes every draft along, and none is missing by then.
LinkedInv ==
  subscriptions > 0 => \A row \in Rows : Upcoming(row) => \E i \in InvoicesOf(row) : i.linked
\* What a request knows of the items behind it.
Progress(m) ==
  /\ job[m].pc \in {"look", "write"} /\ Mine(m) =>
       \A n \in 1..Len(Work(m)) : n < job[m].at => Done(Work(m)[n])
  /\ job[m].done /\ Mine(m) => \A n \in 1..Len(Work(m)) : Done(Work(m)[n])
CompleteInv == DraftsInv /\ LinkedInv /\ \A m \in Migrator : Progress(m)

\* Layer 5.  An invoice says what its writer made of its row.
Fits(i) ==
  /\ i.row \in Rows /\ StatusBy(i.by, i.row) # Skip
  /\ i.status = StatusBy(i.by, i.row).status /\ i.total = TotalBy(i.by, i.row)
FitsInv == \A i \in invoices : Fits(i)

-----------------------------------------------------------------------------
(* What becomes of a row *)

StatusRecord == [status: {"draft", "finalized", "paid", "void"},
                 charge: {"none", "succeeded", "failed", "pending"}]

LEMMA Mappings ==
  /\ DOMAIN Charged = {"paid", "failed", "pending"}
  /\ \A s \in DOMAIN Charged : Charged[s] \in StatusRecord
  /\ DOMAIN Unpaid = {"upcoming", "unpaid"}
  /\ \A s \in DOMAIN Unpaid : Unpaid[s] \in StatusRecord
  /\ Unpaid["upcoming"].status = "draft"
  /\ Void \in StatusRecord /\ Skip \notin StatusRecord
BY DEF Charged, Unpaid, StatusRecord, Void, Skip

LEMMA StatusTypes ==
  ASSUME NEW a \in Actor, NEW row \in AnyRow, StatusBy(a, row) # Skip
  PROVE  StatusBy(a, row) \in StatusRecord
<1>1. \A s : OrSkip(Charged, s) = Skip \/ OrSkip(Charged, s) \in StatusRecord
  BY Mappings DEF OrSkip
<1>2. /\ PayrollStatus(row) = Skip \/ PayrollStatus(row) \in StatusRecord
      /\ ChargeStatus(row) = Skip \/ ChargeStatus(row) \in StatusRecord
      /\ ScriptPayrollStatus(row) = Skip \/ ScriptPayrollStatus(row) \in StatusRecord
      /\ ScriptChargeStatus(row) = Skip \/ ScriptChargeStatus(row) \in StatusRecord
  BY <1>1, Mappings DEF PayrollStatus, ChargeStatus, ScriptPayrollStatus, ScriptChargeStatus
<1> QED BY <1>2 DEF StatusBy

\* What an actor makes of a row.
InvoiceBy(a, row) ==
  IF a \in Migrator
  THEN IF row.kind = "payroll" THEN PayrollInvoice(a, row) ELSE ChargeInvoice(a, row)
  ELSE IF row.kind = "payroll" THEN ScriptPayrollInvoice(a, row) ELSE ScriptChargeInvoice(a, row)

LEMMA MagnitudeType ==
  ASSUME NEW n \in Int
  PROVE  Magnitude(n) \in Nat
BY DEF Magnitude

LEMMA InvoiceTypes ==
  ASSUME NEW a \in Actor, NEW row \in AnyRow, StatusBy(a, row) # Skip
  PROVE  /\ InvoiceBy(a, row) \in InvoiceRecord
         /\ InvoiceBy(a, row).row = row /\ InvoiceBy(a, row).by = a
         /\ InvoiceBy(a, row).status = StatusBy(a, row).status
         /\ InvoiceBy(a, row).charge = StatusBy(a, row).charge
         /\ InvoiceBy(a, row).linked = FALSE /\ InvoiceBy(a, row).total = TotalBy(a, row)
<1>1. row.amount \in Int /\ row.items \in Int
  BY DEF AnyRow, Row
<1>2. Magnitude(row.amount) \in Int /\ Magnitude(row.items) \in Int
  BY <1>1, MagnitudeType
<1>3. TotalBy(a, row) \in Int
      /\ InvoiceBy(a, row) = Invoice(a, row, StatusBy(a, row), TotalBy(a, row))
  BY <1>1, <1>2
  DEF InvoiceBy, StatusBy, TotalBy, PayrollInvoice, ChargeInvoice, ScriptPayrollInvoice,
      ScriptChargeInvoice
<1>4. StatusBy(a, row) \in StatusRecord
  BY StatusTypes
<1>5. StatusBy(a, row).status \in {"draft", "finalized", "paid", "void"}
      /\ StatusBy(a, row).charge \in {"none", "succeeded", "failed", "pending"}
  BY <1>4 DEF StatusRecord
<1> HIDE DEF InvoiceBy, StatusBy, TotalBy
<1> QED BY <1>3, <1>5 DEF Invoice, InvoiceRecord

\* Only a request makes something of an upcoming payroll: the next cycle's draft.
LEMMA UpcomingIsDraft ==
  ASSUME NEW a \in Actor, NEW row \in AnyRow, Upcoming(row), StatusBy(a, row) # Skip
  PROVE  StatusBy(a, row).status = "draft"
<1>1. /\ row.kind = "payroll" /\ row.status = "upcoming"
      /\ row.deleted = FALSE /\ row.failure = FALSE
  BY DEF Upcoming, AnyRow, Row
<1>2. ScriptPayrollStatus(row) = Skip
  BY <1>1, Mappings DEF ScriptPayrollStatus, OrSkip
<1>3. PayrollStatus(row).status = "draft"
  BY <1>1, Mappings DEF PayrollStatus
<1> QED BY <1>1, <1>2, <1>3 DEF StatusBy

\* Linking it to a subscription changes nothing else of it.
LEMMA LinkedAlone ==
  ASSUME NEW i \in InvoiceRecord, NEW l \in BOOLEAN
  PROVE  /\ [i EXCEPT !.linked = l] \in InvoiceRecord
         /\ [i EXCEPT !.linked = l].row = i.row /\ [i EXCEPT !.linked = l].by = i.by
         /\ [i EXCEPT !.linked = l].status = i.status /\ [i EXCEPT !.linked = l].charge = i.charge
         /\ [i EXCEPT !.linked = l].total = i.total /\ [i EXCEPT !.linked = l].linked = l
BY DEF InvoiceRecord

-----------------------------------------------------------------------------
(* The work of a request and of a script *)

LEMMA SourceTypes ==
  ASSUME AccountInv
  PROVE  /\ source.payrolls \in Seq(Row("payroll")) /\ source.charges \in Seq(Row("charge"))
         /\ source.credit \in {"none", "bad", "some"} /\ source.surcharge \in {"none", "bad", "some"}
         /\ source.methods \in BOOLEAN /\ source.rate \in BOOLEAN
BY MigrationAssumption DEF AccountInv

RequestItems ==
  <<[kind |-> "credit"], [kind |-> "surcharge"]>>
    \o source.payrolls \o source.charges \o <<[kind |-> "subscription"]>>

\* First the credit and the surcharge, last the subscription, the rows between.
LEMMA RequestWork ==
  ASSUME AccountInv
  PROVE  LET P == Len(source.payrolls)
             C == Len(source.charges)
         IN /\ P \in Nat /\ C \in Nat /\ Len(RequestItems) = P + C + 3
            /\ RequestItems[1].kind = "credit" /\ RequestItems[2].kind = "surcharge"
            /\ \A n \in 1..P : RequestItems[n + 2] = source.payrolls[n]
            /\ \A n \in 1..C : RequestItems[n + P + 2] = source.charges[n]
            /\ RequestItems[P + C + 3].kind = "subscription"
<1> DEFINE P == Len(source.payrolls)
           C == Len(source.charges)
           p == source.payrolls
           c == source.charges
           T == [kind: {"credit", "surcharge", "subscription"}] \cup AnyRow
           h == <<[kind |-> "credit"], [kind |-> "surcharge"]>>
           l == <<[kind |-> "subscription"]>>
<1>1. p \in Seq(T) /\ c \in Seq(T) /\ P \in Nat /\ C \in Nat
  BY SourceTypes DEF AnyRow
<1>2. h \in Seq(T) /\ Len(h) = 2 /\ l \in Seq(T) /\ Len(l) = 1
      /\ h[1].kind = "credit" /\ h[2].kind = "surcharge" /\ l[1].kind = "subscription"
  OBVIOUS
<1>8. Len(p) = P /\ Len(c) = C
  OBVIOUS
<1> HIDE DEF T, h, l, p, c, P, C
<1> DEFINE hp == h \o p
           hpc == hp \o c
<1>3. hp \in Seq(T) /\ Len(hp) = 2 + P /\ \A i \in 1..(2 + P) : hp[i] = IF i <= 2 THEN h[i] ELSE p[i - 2]
  <2>1. Len(hp) = Len(h) + Len(p) /\ hp \in Seq(T)
        /\ \A i \in 1..(Len(h) + Len(p)) : hp[i] = IF i <= Len(h) THEN h[i] ELSE p[i - Len(h)]
    BY <1>1, <1>2, ConcatProperties
  <2> QED BY <2>1, <1>1, <1>2, <1>8
<1> HIDE DEF hp
<1>4. hpc \in Seq(T) /\ Len(hpc) = 2 + P + C
      /\ \A i \in 1..(2 + P + C) : hpc[i] = IF i <= 2 + P THEN hp[i] ELSE c[i - (2 + P)]
  <2>1. Len(hpc) = Len(hp) + Len(c) /\ hpc \in Seq(T)
        /\ \A i \in 1..(Len(hp) + Len(c)) : hpc[i] = IF i <= Len(hp) THEN hp[i] ELSE c[i - Len(hp)]
    BY <1>1, <1>3, ConcatProperties
  <2> QED BY <2>1, <1>1, <1>3, <1>8
<1> HIDE DEF hpc
<1>5. Len(hpc \o l) = P + C + 3
      /\ \A i \in 1..(P + C + 3) : (hpc \o l)[i] = IF i <= 2 + P + C THEN hpc[i] ELSE l[i - (2 + P + C)]
  <2>1. Len(hpc \o l) = Len(hpc) + Len(l)
        /\ \A i \in 1..(Len(hpc) + Len(l)) : (hpc \o l)[i] = IF i <= Len(hpc) THEN hpc[i] ELSE l[i - Len(hpc)]
    BY <1>2, <1>4, ConcatProperties
  <2>2. Len(hpc) + Len(l) = P + C + 3 /\ Len(hpc) = 2 + P + C
    BY <1>1, <1>2, <1>4
  <2> QED BY <2>1, <2>2
<1>6. RequestItems = hpc \o l
  BY DEF RequestItems, hpc, hp, h, l, p, c
<1>7. /\ RequestItems[1] = h[1] /\ RequestItems[2] = h[2]
      /\ RequestItems[P + C + 3] = l[1]
      /\ \A n \in 1..P : RequestItems[n + 2] = p[n]
      /\ \A n \in 1..C : RequestItems[n + P + 2] = c[n]
  <2> DEFINE r == RequestItems
  <2>1. \A i \in 1..(P + C + 3) : r[i] = IF i <= 2 + P + C THEN hpc[i] ELSE l[i - (2 + P + C)]
    BY <1>5, <1>6
  <2> HIDE DEF r
  <2>2. \A i \in 1..(2 + P + C) : r[i] = hpc[i]
    BY <1>1, <2>1
  <2>3. \A i \in 1..(2 + P) : r[i] = hp[i]
    BY <1>1, <1>4, <2>2
  <2>4. r[1] = h[1] /\ r[2] = h[2]
    BY <1>1, <1>3, <2>3
  <2>5. r[P + C + 3] = l[1]
    BY <1>1, <2>1
  <2>6. \A n \in 1..P : r[n + 2] = p[n]
    BY <1>1, <1>3, <2>3
  <2>7. \A n \in 1..C : r[n + P + 2] = c[n]
    BY <1>1, <1>4, <2>2
  <2> QED BY <2>4, <2>5, <2>6, <2>7 DEF r
<1> QED BY <1>1, <1>2, <1>5, <1>6, <1>7 DEF p, c, P, C

LEMMA RequestItemOf ==
  ASSUME AccountInv, NEW n \in 1..Len(RequestItems)
  PROVE  /\ RequestItems[n].kind = "payroll" => RequestItems[n] \in Row("payroll") \cap Rows
         /\ RequestItems[n].kind = "charge" => RequestItems[n] \in Row("charge") \cap Rows
         /\ RequestItems[n].kind = "subscription" => n = Len(RequestItems)
<1> DEFINE P == Len(source.payrolls)
           C == Len(source.charges)
<1>1. /\ P \in Nat /\ C \in Nat /\ Len(RequestItems) = P + C + 3
      /\ RequestItems[1].kind = "credit" /\ RequestItems[2].kind = "surcharge"
      /\ \A k \in 1..P : RequestItems[k + 2] = source.payrolls[k]
      /\ \A k \in 1..C : RequestItems[k + P + 2] = source.charges[k]
      /\ RequestItems[P + C + 3].kind = "subscription"
  BY RequestWork
<1>2. /\ \A k \in 1..P : source.payrolls[k] \in Row("payroll") /\ source.payrolls[k].kind = "payroll"
      /\ \A k \in 1..C : source.charges[k] \in Row("charge") /\ source.charges[k].kind = "charge"
  <2>1. \A k \in {"payroll", "charge"} : \A row \in Row(k) : row.kind = k
    BY DEF Row
  <2> QED BY <2>1, SourceTypes
<1>6. /\ \A k \in 1..P : source.payrolls[k] \in Rows
      /\ \A k \in 1..C : source.charges[k] \in Rows
  BY SourceTypes DEF Rows
<1> HIDE DEF P, C
<1>3. CASE n \in 3..(P + 2)
  <2>1. n - 2 \in 1..P /\ RequestItems[(n - 2) + 2] = source.payrolls[n - 2]
    BY <1>1, <1>3
  <2> QED BY <1>1, <1>2, <1>3, <1>6, <2>1
<1>4. CASE n \in (P + 3)..(P + C + 2)
  <2>1. n - P - 2 \in 1..C /\ RequestItems[(n - P - 2) + P + 2] = source.charges[n - P - 2]
    BY <1>1, <1>4
  <2> QED BY <1>1, <1>2, <1>4, <1>6, <2>1
<1>5. n = 1 \/ n = 2 \/ n \in 3..(P + 2) \/ n \in (P + 3)..(P + C + 2) \/ n = P + C + 3
  BY <1>1
<1> QED BY <1>1, <1>3, <1>4, <1>5

LEMMA WorkItem ==
  ASSUME AccountInv, NEW a \in Actor
  PROVE  /\ Len(Work(a)) \in Nat
         /\ \A n \in 1..Len(Work(a)) :
              /\ Work(a)[n].kind = "payroll" => Work(a)[n] \in Row("payroll") \cap Rows
              /\ Work(a)[n].kind = "charge" => Work(a)[n] \in Row("charge") \cap Rows
<1>1. CASE a \in Migrator
  <2>1. Work(a) = RequestItems
    BY <1>1 DEF Work, RequestItems, Credit
  <2>2. Len(RequestItems) \in Nat
    BY RequestWork
  <2> QED BY <2>1, <2>2, RequestItemOf
<1>2. CASE a \notin Migrator
  <2>1. /\ \A n \in 1..Len(source.payrolls) : source.payrolls[n] \in Row("payroll") \cap Rows
        /\ \A n \in 1..Len(source.charges) : source.charges[n] \in Row("charge") \cap Rows
        /\ Len(source.payrolls) \in Nat /\ Len(source.charges) \in Nat
    BY SourceTypes DEF Rows
  <2>2. \A k \in {"payroll", "charge"} : \A row \in Row(k) : row.kind = k
    BY DEF Row
  <2>3. CASE job[a].op = "surcharge"
    BY <1>2, <2>3 DEF Work
  <2>4. CASE job[a].op = "payroll"
    BY <1>2, <2>1, <2>2, <2>4 DEF Work
  <2>5. CASE job[a].op = "charges"
    BY <1>2, <2>1, <2>2, <2>5 DEF Work
  <2>6. CASE job[a].op \notin {"surcharge", "payroll", "charges"}
    BY <1>2, <2>6 DEF Work
  <2> QED BY <2>3, <2>4, <2>5, <2>6
<1> QED BY <1>1, <1>2

-----------------------------------------------------------------------------
(* The kinds of steps: what an actor's job and the account have to do with   *)
(* each other                                                                *)

Still == UNCHANGED <<source, account, removals>>
Others(a) == job' \in [Actor -> Job] /\ \A b \in Actor \ {a} : job'[b] = job[b]
\* It has no business with a customer.
Leaves(a) ==
  /\ Others(a) /\ job'[a].pc \in {"idle", "settings", "insert"}
  /\ ~job'[a].done /\ job'[a].id \in {0, job[a].id}
Starts(a, id) ==
  /\ Others(a) /\ job'[a].pc = "look" /\ job'[a].at = 1 /\ job'[a].id = id /\ ~job'[a].done
Keeps(a) ==
  /\ Others(a) /\ job[a].pc \in {"look", "write"} /\ ~job'[a].done
  /\ job'[a].op = job[a].op /\ job'[a].id = job[a].id
Advances(a) == Keeps(a) /\ job'[a].pc = "look" /\ job'[a].at = job[a].at + 1
Inside(a) == job[a].at <= Len(Work(a))
RowItem(a) == Item(a).kind \in {"payroll", "charge"}

Skips(a) ==
  /\ Still /\ Advances(a)
  /\ a \in Migrator => Inside(a) /\ (Mine(a) => Done(Item(a)))
Resolves(a) ==
  /\ Still /\ Keeps(a) /\ job'[a].pc = "write" /\ job'[a].at = job[a].at /\ Inside(a)
  /\ RowItem(a) => StatusBy(a, Item(a)) # Skip /\ ~Migrated(Item(a))
  /\ Item(a).kind = "credit" /\ Mine(a) => notes = {}
Finishes(a) ==
  /\ Still /\ Others(a) /\ a \in Migrator
  /\ job[a].pc = "look" /\ ~Inside(a)
  /\ job'[a].pc = "idle" /\ job'[a].done /\ job'[a].id = job[a].id
Inserts(a) ==
  /\ \E assigned \in BOOLEAN :
       customer' = [id |-> created + 1, methods |-> source.methods, assigned |-> assigned]
  /\ customer.id = 0 /\ created < MaxCustomers /\ created' = created + 1
  /\ UNCHANGED <<source, invoices, notes, config, subscriptions, ledger, removals>>
  /\ Starts(a, created + 1) \/ Leaves(a)
\* A write: the customer is still there.
Commits(a) == Advances(a) /\ At(a, "write") /\ Inside(a) /\ Mine(a)
Stores(a) ==
  /\ Commits(a) /\ RowItem(a)
  /\ InvoiceBy(a, Item(a)).charge # "none" => KeyFree(a, Item(a))
  /\ invoices' = invoices \cup {InvoiceBy(a, Item(a))}
  /\ Book(InvoiceOf(customer.id, InvoiceBy(a, Item(a))))
  /\ UNCHANGED <<source, customer, created, notes, config, subscriptions, removals>>

ActorStep(a) ==
  \/ Still /\ Leaves(a)
  \/ Still /\ Starts(a, customer.id) /\ customer.id # 0
  \/ Skips(a) \/ Resolves(a) \/ Finishes(a) \/ Inserts(a)
  \/ Commits(a) /\ a \in Migrator /\ WriteCredit(a)
  \/ Commits(a) /\ StoreConfig(a)
  \/ Stores(a)
  \/ Commits(a) /\ a \in Migrator /\ WriteSubscription(a)

LEMMA Moved ==
  ASSUME job \in [Actor -> Job], NEW a \in Actor, NEW t \in Job, job' = [job EXCEPT ![a] = t]
  PROVE  Others(a) /\ job'[a] = t
BY DEF Others

LEMMA IdleLeaves ==
  ASSUME job \in [Actor -> Job], NEW a \in Actor, NEW pc \in {"idle", "settings", "insert"},
         job' = [job EXCEPT ![a] = [Idle EXCEPT !.pc = pc]]
  PROVE  Leaves(a)
<1> DEFINE t == [Idle EXCEPT !.pc = pc]
<1>1. t \in Job /\ t.pc = pc /\ ~t.done /\ t.id = 0
  BY DEF Job, Idle
<1> HIDE DEF t
<1>2. job' = [job EXCEPT ![a] = t]
  BY DEF t
<1>3. Others(a) /\ job'[a] = t
  BY <1>1, <1>2, Moved
<1> QED BY <1>1, <1>3 DEF Leaves

LEMMA StopLeaves ==
  ASSUME job \in [Actor -> Job], NEW a \in Actor, job' = [job EXCEPT ![a] = Idle]
  PROVE  Leaves(a)
<1>1. Idle = [Idle EXCEPT !.pc = "idle"]
  BY DEF Idle
<1> QED BY <1>1, IdleLeaves

LEMMA GoKeeps ==
  ASSUME JobsInv, NEW a \in Actor, NEW pc \in {"insert", "write"}, Go(a, pc), ~At(a, "idle")
  PROVE  /\ pc = "insert" => Leaves(a)
         /\ job[a].pc \in {"look", "write"} => Keeps(a)
         /\ job'[a].pc = pc /\ job'[a].at = job[a].at
<1> DEFINE t == [job[a] EXCEPT !.pc = pc]
<1>1. job \in [Actor -> Job] /\ job[a] \in Job /\ ~job[a].done
  BY DEF JobsInv, JobKnows
<1>2. t \in Job /\ t.pc = pc /\ t.op = job[a].op /\ t.id = job[a].id /\ t.at = job[a].at /\ ~t.done
  BY <1>1 DEF Job
<1> HIDE DEF t
<1>3. job' = [job EXCEPT ![a] = t]
  BY DEF Go, t
<1>4. Others(a) /\ job'[a] = t
  BY <1>1, <1>2, <1>3, Moved
<1> QED BY <1>2, <1>4 DEF Leaves, Keeps

LEMMA HandleStarts ==
  ASSUME JobsInv, NEW a \in Actor, NEW id \in Nat, Handle(a, id), ~At(a, "idle")
  PROVE  Starts(a, id)
<1> DEFINE t == [job[a] EXCEPT !.pc = "look", !.id = id, !.at = 1]
<1>1. job \in [Actor -> Job] /\ job[a] \in Job /\ ~job[a].done
  BY DEF JobsInv, JobKnows
<1>2. t \in Job /\ t.pc = "look" /\ t.id = id /\ t.at = 1 /\ ~t.done
  BY <1>1 DEF Job
<1> HIDE DEF t
<1>3. job' = [job EXCEPT ![a] = t]
  BY DEF Handle, t
<1>4. Others(a) /\ job'[a] = t
  BY <1>1, <1>2, <1>3, Moved
<1> QED BY <1>2, <1>4 DEF Starts

LEMMA ScriptStarts ==
  ASSUME JobsInv, NEW a \in Actor, NEW op \in {"surcharge", "payroll", "charges"}, NEW id \in Nat,
         job' = [job EXCEPT ![a] = [Idle EXCEPT !.pc = "look", !.op = op, !.id = id, !.at = 1]]
  PROVE  Starts(a, id)
<1> DEFINE t == [Idle EXCEPT !.pc = "look", !.op = op, !.id = id, !.at = 1]
<1>1. job \in [Actor -> Job]
  BY DEF JobsInv
<1>2. t \in Job /\ t.pc = "look" /\ t.id = id /\ t.at = 1 /\ ~t.done
  BY DEF Job, Idle
<1> HIDE DEF t
<1>3. job' = [job EXCEPT ![a] = t]
  BY DEF t
<1>4. Others(a) /\ job'[a] = t
  BY <1>1, <1>2, <1>3, Moved
<1> QED BY <1>2, <1>4 DEF Starts

LEMMA ProceedAdvances ==
  ASSUME JobsInv, NEW a \in Actor, Proceed(a), job[a].pc \in {"look", "write"}
  PROVE  Advances(a)
<1> DEFINE n == job[a].at + 1
           t == [job[a] EXCEPT !.pc = "look", !.at = n]
<1>1. job \in [Actor -> Job] /\ job[a] \in Job /\ ~job[a].done /\ n \in Nat
  BY DEF JobsInv, JobKnows, At, Job
<1>2. job' = [job EXCEPT ![a] = t]
  BY DEF Proceed
<1>3. n = job[a].at + 1
  OBVIOUS
<1> HIDE DEF n
<1>4. t \in Job /\ t.pc = "look" /\ t.op = job[a].op /\ t.id = job[a].id /\ t.at = n /\ ~t.done
  BY <1>1 DEF Job
<1> HIDE DEF t
<1>5. Others(a) /\ job'[a] = t
  BY <1>1, <1>2, <1>4, Moved
<1> QED BY <1>3, <1>4, <1>5 DEF Advances, Keeps

LEMMA SucceedEnds ==
  ASSUME JobsInv, NEW a \in Actor, Succeed(a)
  PROVE  Others(a) /\ job'[a].pc = "idle" /\ job'[a].done /\ job'[a].id = job[a].id
<1> DEFINE t == [Idle EXCEPT !.done = TRUE, !.id = job[a].id]
<1>1. job \in [Actor -> Job] /\ job[a] \in Job
  BY DEF JobsInv
<1>2. t \in Job /\ t.pc = "idle" /\ t.done /\ t.id = job[a].id
  BY <1>1 DEF Job, Idle
<1> HIDE DEF t
<1>3. job' = [job EXCEPT ![a] = t]
  BY DEF Succeed, t
<1>4. Others(a) /\ job'[a] = t
  BY <1>1, <1>2, <1>3, Moved
<1> QED BY <1>2, <1>4

-----------------------------------------------------------------------------
(* Every step is of one of these kinds                                       *)

LEMMA LookUpSteps ==
  ASSUME TypeInv, NEW a \in Actor, NEW kind, NEW skips, NEW fails, LookUp(a, kind, skips, fails)
  PROVE  /\ At(a, "look") /\ Inside(a) /\ Item(a).kind = kind /\ Still
         /\ \/ skips /\ Advances(a)
            \/ Leaves(a)
            \/ a \notin Migrator /\ Advances(a)
            \/ ~skips /\ ~fails /\ Keeps(a) /\ job'[a].pc = "write" /\ job'[a].at = job[a].at
<1>1. At(a, "look") /\ Inside(a) /\ Item(a).kind = kind /\ Still
  BY DEF LookUp, Doing, Inside, Item, Still
<1>2. JobsInv /\ job \in [Actor -> Job] /\ job[a].pc \in {"look", "write"} /\ ~At(a, "idle")
  BY <1>1 DEF TypeInv, JobsInv, At
<1>3. \/ skips /\ Proceed(a)
      \/ ~skips /\ fails /\ Fail(a)
      \/ ~skips /\ ~fails /\ Go(a, "write")
  BY DEF LookUp
<1>4. Proceed(a) => Advances(a)
  BY <1>2, ProceedAdvances
<1>5. Fail(a) => Leaves(a) \/ (a \notin Migrator /\ Advances(a))
  BY <1>2, <1>4, StopLeaves DEF Fail, Stop
<1>6. Go(a, "write") => Keeps(a) /\ job'[a].pc = "write" /\ job'[a].at = job[a].at
  BY <1>2, GoKeeps
<1> QED BY <1>1, <1>3, <1>4, <1>5, <1>6

\* A request that passes over an item has nothing to do for it.
LEMMA FindSteps ==
  ASSUME TypeInv, NEW m \in Migrator,
         FindCredit(m) \/ FindSurcharge(m) \/ FindPayroll(m) \/ FindCharge(m) \/ FindSubscription(m)
  PROVE  ActorStep(m)
<1>0. m \in Actor
  BY DEF Actor
<1>1. ASSUME NEW kind, NEW skips, NEW fails, LookUp(m, kind, skips, fails),
             skips /\ Item(m).kind = kind /\ Mine(m) => Done(Item(m)),
             ~skips /\ ~fails /\ Item(m).kind = kind /\ kind \in {"payroll", "charge"} =>
               StatusBy(m, Item(m)) # Skip /\ ~Migrated(Item(m)),
             ~skips /\ ~fails /\ kind = "credit" /\ Mine(m) => notes = {}
      PROVE  ActorStep(m)
  <2>1. /\ At(m, "look") /\ Inside(m) /\ Item(m).kind = kind /\ Still
        /\ \/ skips /\ Advances(m)
           \/ Leaves(m)
           \/ ~skips /\ ~fails /\ Keeps(m) /\ job'[m].pc = "write" /\ job'[m].at = job[m].at
    BY <1>0, <1>1, LookUpSteps
  <2>2. skips /\ Advances(m) => Skips(m)
    BY <1>1, <2>1 DEF Skips
  <2>3. ~skips /\ ~fails /\ Keeps(m) /\ job'[m].pc = "write" /\ job'[m].at = job[m].at => Resolves(m)
    BY <1>1, <2>1 DEF Resolves, RowItem
  <2> QED BY <2>1, <2>2, <2>3 DEF ActorStep
<1>2. CASE FindCredit(m)
  <2> DEFINE skips == source.credit = "none" \/ (source.credit # "bad" /\ Mine(m) /\ notes # {})
             fails == source.credit = "bad"
  <2>1. LookUp(m, "credit", skips, fails)
    BY <1>2 DEF FindCredit
  <2>2. skips /\ Item(m).kind = "credit" => Done(Item(m))
    BY DEF Done
  <2>3. ~skips /\ ~fails /\ Mine(m) => notes = {}
    OBVIOUS
  <2> HIDE DEF skips, fails
  <2> QED BY <1>1, <2>1, <2>2, <2>3
<1>3. CASE FindSurcharge(m)
  <2>1. (source.surcharge = "none" \/ (source.surcharge # "bad" /\ Mine(m) /\ config))
          /\ Item(m).kind = "surcharge" => Done(Item(m))
    BY DEF Done
  <2> QED BY <1>1, <1>3, <2>1 DEF FindSurcharge
<1>4. CASE FindPayroll(m)
  <2> DEFINE mapped == PayrollStatus(Item(m))
             skips == mapped = Skip \/ (Item(m).valid /\ Migrated(Item(m)))
             fails == ~Item(m).valid \/ NoMethod(m, mapped)
  <2>1. LookUp(m, "payroll", skips, fails)
    BY <1>4 DEF FindPayroll
  <2>2. skips /\ Item(m).kind = "payroll" => Done(Item(m))
    BY DEF Done, Mapped, Migrated, InvoicesOf
  <2>3. ~skips /\ ~fails /\ Item(m).kind = "payroll" => StatusBy(m, Item(m)) # Skip /\ ~Migrated(Item(m))
    BY DEF StatusBy
  <2> HIDE DEF skips, fails
  <2> QED BY <1>1, <2>1, <2>2, <2>3
<1>5. CASE FindCharge(m)
  <2> DEFINE mapped == ChargeStatus(Item(m))
             skips == mapped = Skip \/ (Item(m).valid /\ Migrated(Item(m)))
             fails == ~Item(m).valid \/ NoMethod(m, mapped)
  <2>1. LookUp(m, "charge", skips, fails)
    BY <1>5 DEF FindCharge
  <2>2. skips /\ Item(m).kind = "charge" => Done(Item(m))
    BY DEF Done, Mapped, Migrated, InvoicesOf
  <2>3. ~skips /\ ~fails /\ Item(m).kind = "charge" => StatusBy(m, Item(m)) # Skip /\ ~Migrated(Item(m))
    BY DEF StatusBy
  <2> HIDE DEF skips, fails
  <2> QED BY <1>1, <2>1, <2>2, <2>3
<1>6. CASE FindSubscription(m)
  <2>1. (source.rate /\ Mine(m) /\ subscriptions = 1 /\ source.subscribed)
          /\ Item(m).kind = "subscription" => Done(Item(m))
    BY DEF Done
  <2> QED BY <1>1, <1>6, <2>1 DEF FindSubscription
<1> QED BY <1>2, <1>3, <1>4, <1>5, <1>6

LEMMA FindByScriptSteps ==
  ASSUME TypeInv, NEW s \in Script,
         FindConfigForScript(s) \/ FindPayrollForScript(s) \/ FindChargeForScript(s)
  PROVE  ActorStep(s)
<1>0. s \in Actor /\ s \notin Migrator
  BY MigrationAssumption DEF Actor
<1>1. ASSUME NEW kind, NEW skips, NEW fails, LookUp(s, kind, skips, fails),
             ~skips /\ ~fails /\ Item(s).kind = kind /\ kind \in {"payroll", "charge"} =>
               StatusBy(s, Item(s)) # Skip /\ ~Migrated(Item(s)),
             kind # "credit"
      PROVE  ActorStep(s)
  <2>1. /\ At(s, "look") /\ Inside(s) /\ Item(s).kind = kind /\ Still
        /\ \/ Advances(s)
           \/ Leaves(s)
           \/ ~skips /\ ~fails /\ Keeps(s) /\ job'[s].pc = "write" /\ job'[s].at = job[s].at
    BY <1>0, <1>1, LookUpSteps
  <2>2. Advances(s) => Skips(s)
    BY <1>0, <2>1 DEF Skips
  <2>3. ~skips /\ ~fails /\ Keeps(s) /\ job'[s].pc = "write" /\ job'[s].at = job[s].at => Resolves(s)
    BY <1>1, <2>1 DEF Resolves, RowItem
  <2> QED BY <2>1, <2>2, <2>3 DEF ActorStep
<1>2. CASE FindConfigForScript(s)
  BY <1>1, <1>2 DEF FindConfigForScript
<1>3. CASE FindPayrollForScript(s)
  <2> DEFINE mapped == ScriptPayrollStatus(Item(s))
             skips == ~Item(s).valid \/ mapped = Skip \/ Migrated(Item(s))
             fails == NoMethod(s, mapped)
  <2>1. LookUp(s, "payroll", skips, fails)
    BY <1>3 DEF FindPayrollForScript
  <2>2. ~skips /\ ~fails /\ Item(s).kind = "payroll" => StatusBy(s, Item(s)) # Skip /\ ~Migrated(Item(s))
    BY <1>0 DEF StatusBy
  <2> HIDE DEF skips, fails
  <2> QED BY <1>1, <2>1, <2>2
<1>4. CASE FindChargeForScript(s)
  <2> DEFINE mapped == ScriptChargeStatus(Item(s))
             skips == ~Item(s).valid \/ mapped = Skip \/ Migrated(Item(s))
             fails == NoMethod(s, mapped)
  <2>1. LookUp(s, "charge", skips, fails)
    BY <1>4 DEF FindChargeForScript
  <2>2. ~skips /\ ~fails /\ Item(s).kind = "charge" => StatusBy(s, Item(s)) # Skip /\ ~Migrated(Item(s))
    BY <1>0 DEF StatusBy
  <2> HIDE DEF skips, fails
  <2> QED BY <1>1, <2>1, <2>2
<1> QED BY <1>2, <1>3, <1>4

LEMMA WriteCommits ==
  ASSUME TypeInv, NEW a \in Actor, NEW kind, Writes(a, kind)
  PROVE  Commits(a) /\ Item(a).kind = kind
<1>1. At(a, "write") /\ Inside(a) /\ Mine(a) /\ Proceed(a) /\ Item(a).kind = kind
  BY DEF Writes, Doing, Inside, Item
<1>2. Advances(a)
  BY <1>1, ProceedAdvances DEF TypeInv, At
<1> QED BY <1>1, <1>2 DEF Commits

LEMMA StoreStores ==
  ASSUME TypeInv, NEW a \in Actor, NEW kind \in {"payroll", "charge"},
         Store(a, kind, InvoiceBy(a, Item(a)))
  PROVE  Stores(a)
<1>1. Commits(a) /\ Item(a).kind = kind
  BY WriteCommits DEF Store
<1>2. InvoiceBy(a, Item(a)).row = Item(a)
  BY DEF InvoiceBy, PayrollInvoice, ChargeInvoice, ScriptPayrollInvoice, ScriptChargeInvoice, Invoice
<1> HIDE DEF InvoiceBy
<1> QED BY <1>1, <1>2 DEF Store, Stores, RowItem

LEMMA WriteSteps ==
  ASSUME TypeInv, NEW m \in Migrator,
         \/ WriteCredit(m) \/ WriteSurcharge(m) \/ WritePayroll(m)
         \/ WriteCharge(m) \/ WriteSubscription(m)
  PROVE  ActorStep(m)
<1>0. m \in Actor
  BY DEF Actor
<1>1. CASE WriteCredit(m)
  <2>1. Commits(m)
    BY <1>0, <1>1, WriteCommits DEF WriteCredit
  <2> QED BY <1>1, <2>1 DEF ActorStep
<1>2. CASE WriteSurcharge(m)
  <2>1. Commits(m)
    BY <1>0, <1>2, WriteCommits DEF WriteSurcharge, StoreConfig
  <2> QED BY <1>2, <2>1 DEF ActorStep, WriteSurcharge
<1>3. CASE WritePayroll(m)
  <2>1. Item(m).kind = "payroll"
    BY <1>3 DEF WritePayroll, Store, Writes, Doing, Item
  <2>2. InvoiceBy(m, Item(m)) = PayrollInvoice(m, Item(m))
    BY <2>1 DEF InvoiceBy
  <2>3. Stores(m)
    BY <1>0, <1>3, <2>2, StoreStores DEF WritePayroll
  <2> QED BY <2>3 DEF ActorStep
<1>4. CASE WriteCharge(m)
  <2>1. Item(m).kind = "charge"
    BY <1>4 DEF WriteCharge, Store, Writes, Doing, Item
  <2>2. InvoiceBy(m, Item(m)) = ChargeInvoice(m, Item(m))
    BY <2>1 DEF InvoiceBy
  <2>3. Stores(m)
    BY <1>0, <1>4, <2>2, StoreStores DEF WriteCharge
  <2> QED BY <2>3 DEF ActorStep
<1>5. CASE WriteSubscription(m)
  <2>1. Commits(m)
    BY <1>0, <1>5, WriteCommits DEF WriteSubscription
  <2> QED BY <1>5, <2>1 DEF ActorStep
<1> QED BY <1>1, <1>2, <1>3, <1>4, <1>5

LEMMA WriteByScriptSteps ==
  ASSUME TypeInv, NEW s \in Script,
         WriteConfigByScript(s) \/ WritePayrollByScript(s) \/ WriteChargeByScript(s)
  PROVE  ActorStep(s)
<1>0. s \in Actor /\ s \notin Migrator
  BY MigrationAssumption DEF Actor
<1>1. CASE WriteConfigByScript(s)
  <2>1. Commits(s)
    BY <1>0, <1>1, WriteCommits DEF WriteConfigByScript, StoreConfig
  <2> QED BY <1>1, <2>1 DEF ActorStep, WriteConfigByScript
<1>2. CASE WritePayrollByScript(s)
  <2>1. Item(s).kind = "payroll"
    BY <1>2 DEF WritePayrollByScript, Store, Writes, Doing, Item
  <2>2. InvoiceBy(s, Item(s)) = ScriptPayrollInvoice(s, Item(s))
    BY <1>0, <2>1 DEF InvoiceBy
  <2>3. Stores(s)
    BY <1>0, <1>2, <2>2, StoreStores DEF WritePayrollByScript
  <2> QED BY <2>3 DEF ActorStep
<1>3. CASE WriteChargeByScript(s)
  <2>1. Item(s).kind = "charge"
    BY <1>3 DEF WriteChargeByScript, Store, Writes, Doing, Item
  <2>2. InvoiceBy(s, Item(s)) = ScriptChargeInvoice(s, Item(s))
    BY <1>0, <2>1 DEF InvoiceBy
  <2>3. Stores(s)
    BY <1>0, <1>3, <2>2, StoreStores DEF WriteChargeByScript
  <2> QED BY <2>3 DEF ActorStep
<1> QED BY <1>1, <1>2, <1>3

LEMMA BeginSteps ==
  ASSUME TypeInv, NEW m \in Migrator,
         BeginMigration(m) \/ CheckSettings(m) \/ InsertCustomer(m) \/ Finish(m)
  PROVE  ActorStep(m)
<1>0. m \in Actor /\ JobsInv /\ job \in [Actor -> Job] /\ created \in Nat /\ customer.id \in Nat
  BY DEF Actor, TypeInv, JobsInv, CustomerInv
<1>1. CASE BeginMigration(m)
  <2>1. Still /\ (Stop(m) \/ job' = [job EXCEPT ![m] = [Idle EXCEPT !.pc = "settings"]])
    BY <1>1 DEF BeginMigration, Still
  <2>2. Leaves(m)
    BY <1>0, <2>1, StopLeaves, IdleLeaves DEF Stop
  <2> QED BY <2>1, <2>2 DEF ActorStep
<1>2. CASE CheckSettings(m)
  <2>1. Still /\ ~At(m, "idle")
    BY <1>2 DEF CheckSettings, Still, At
  <2>2. CASE Stop(m)
    BY <1>0, <2>1, <2>2, StopLeaves DEF Stop, ActorStep
  <2>3. CASE customer.id # 0 /\ Handle(m, customer.id)
    BY <1>0, <2>1, <2>3, HandleStarts DEF ActorStep
  <2>4. CASE Go(m, "insert")
    BY <1>0, <2>1, <2>4, GoKeeps DEF ActorStep
  <2> QED BY <1>2, <2>2, <2>3, <2>4 DEF CheckSettings
<1>3. CASE InsertCustomer(m)
  <2>1. ~At(m, "idle") /\ Handle(m, created + 1)
    BY <1>3 DEF InsertCustomer, Insert, At
  <2>2. Starts(m, created + 1)
    BY <1>0, <2>1, HandleStarts
  <2>3. Inserts(m)
    BY <1>3, <2>2 DEF InsertCustomer, Insert, Inserts
  <2> QED BY <2>3 DEF ActorStep
<1>4. CASE Finish(m)
  <2>1. Others(m) /\ job'[m].pc = "idle" /\ job'[m].done /\ job'[m].id = job[m].id
    BY <1>0, <1>4, SucceedEnds DEF Finish
  <2>2. Len(Work(m)) \in Nat /\ job[m].at \in Nat
    BY <1>0, WorkItem DEF TypeInv, Job
  <2>3. Still /\ job[m].pc = "look" /\ ~Inside(m)
    BY <1>4, <2>2 DEF Finish, At, Inside, Still
  <2> QED BY <2>1, <2>3 DEF Finishes, ActorStep
<1> QED BY <1>1, <1>2, <1>3, <1>4

LEMMA BeginByScriptSteps ==
  ASSUME TypeInv, NEW s \in Script,
         \/ SettingsScript(s) \/ SurchargeScript(s) \/ PayrollScript(s) \/ ChargesScript(s)
         \/ InsertCustomerByScript(s) \/ FinishScript(s)
  PROVE  ActorStep(s)
<1>0. s \in Actor /\ JobsInv /\ job \in [Actor -> Job] /\ customer.id \in Nat
  BY DEF Actor, TypeInv, JobsInv, CustomerInv
<1>1. CASE SettingsScript(s)
  BY <1>0, <1>1, IdleLeaves DEF SettingsScript, ActorStep, Still
<1>2. ASSUME NEW op \in {"surcharge", "payroll", "charges"}, BeginScript(s, op)
      PROVE  ActorStep(s)
  BY <1>0, <1>2, ScriptStarts DEF BeginScript, ActorStep, Still
<1>3. CASE InsertCustomerByScript(s)
  <2>1. Leaves(s)
    BY <1>0, <1>3, StopLeaves DEF InsertCustomerByScript, Stop
  <2>2. Inserts(s)
    BY <1>3, <2>1 DEF InsertCustomerByScript, Insert, Inserts
  <2> QED BY <2>2 DEF ActorStep
<1>4. CASE FinishScript(s)
  BY <1>0, <1>4, StopLeaves DEF FinishScript, Stop, ActorStep, Still
<1> QED BY <1>1, <1>2, <1>3, <1>4 DEF SurchargeScript, PayrollScript, ChargesScript

LEMMA FailureSteps ==
  ASSUME TypeInv, NEW a \in Actor, InsertThrows(a) \/ WriteThrows(a) \/ Crash(a)
  PROVE  ActorStep(a)
<1>0. JobsInv /\ job \in [Actor -> Job] /\ Still
  BY DEF TypeInv, JobsInv, InsertThrows, WriteThrows, Crash, Still
<1>1. CASE InsertThrows(a) \/ Crash(a)
  BY <1>0, <1>1, StopLeaves DEF InsertThrows, Crash, Stop, ActorStep
<1>2. CASE WriteThrows(a)
  <2>1. job[a].pc \in {"look", "write"} /\ Fail(a)
    BY <1>2 DEF WriteThrows, At
  <2>2. CASE a \in Migrator
    BY <1>0, <2>1, <2>2, StopLeaves DEF Fail, Stop, ActorStep
  <2>3. CASE a \notin Migrator
    <3>1. Advances(a)
      BY <1>0, <2>1, <2>3, ProceedAdvances DEF Fail
    <3> QED BY <1>0, <2>3, <3>1 DEF Skips, ActorStep
  <2> QED BY <2>2, <2>3
<1> QED BY <1>1, <1>2

LEMMA EveryStep ==
  ASSUME TypeInv, Next
  PROVE  \/ \E x \in Remover : RollbackStep(x)
         \/ \E a \in Actor : ActorStep(a)
<1>1. ASSUME NEW m \in Migrator, MigratorStep(m)
      PROVE  \E a \in Actor : ActorStep(a)
  <2>1. m \in Actor
    BY DEF Actor
  <2>2. ActorStep(m)
    BY <1>1, BeginSteps, FindSteps, WriteSteps DEF MigratorStep
  <2> QED BY <2>1, <2>2
<1>2. ASSUME NEW s \in Script, ScriptStep(s)
      PROVE  \E a \in Actor : ActorStep(a)
  <2>1. s \in Actor
    BY DEF Actor
  <2>2. ActorStep(s)
    BY <1>2, BeginByScriptSteps, FindByScriptSteps, WriteByScriptSteps DEF ScriptStep
  <2> QED BY <2>1, <2>2
<1> QED BY <1>1, <1>2, FailureSteps DEF Next

-----------------------------------------------------------------------------
(* Layer 1                                                                   *)

LEMMA BookEffect ==
  ASSUME AccountInv, NEW doc, Book(doc)
  PROVE  /\ ledger' \in [Document -> Int]
         /\ doc \in Document => ledger'[doc] = ledger[doc] + 1
         /\ \A d \in Document \ {doc} : ledger'[d] = ledger[d]
<1>1. ledger \in [Document -> Int]
  BY DEF AccountInv
<1>2. ledger' = [ledger EXCEPT ![doc] = ledger[doc] + 1]
  BY DEF Book
<1>3. doc \in Document => ledger[doc] + 1 \in Int
  BY <1>1
<1> HIDE DEF Document
<1>4. CASE doc \in Document
  BY <1>1, <1>2, <1>3, <1>4
<1>5. CASE doc \notin Document
  <2>1. ledger' = ledger
    BY <1>1, <1>2, <1>5
  <2> QED BY <1>1, <1>5, <2>1
<1> QED BY <1>4, <1>5

\* The documents stay the same, as the source does.
LEMMA SameDocuments ==
  ASSUME source' = source
  PROVE  Rows' = Rows /\ Document' = Document
BY DEF Rows, Document

LEMMA SameWork ==
  ASSUME NEW a \in Actor, source' = source, job'[a].op = job[a].op
  PROVE  Work(a)' = Work(a)
BY DEF Work

\* Nothing new of an actor's among the invoices and the credit notes.
NothingNewOf(a) ==
  /\ \A i \in invoices' : i.by = a => \E j \in invoices : j.row = i.row /\ j.by = i.by
  /\ a \in notes' => a \in notes /\ customer'.id = customer.id

LEMMA OthersKnow ==
  ASSUME TypeInv, NEW a \in Actor, job'[a] = job[a], source' = source,
         created' \in Nat, created' >= created, NothingNewOf(a)
  PROVE  JobKnows(a)'
<1>1. JobKnows(a) /\ job[a].id \in Nat /\ created \in Nat
  BY DEF TypeInv, JobsInv, Job, CustomerInv
<1>2. Work(a)' = Work(a) /\ Item(a)' = Item(a)
  <2>1. Work(a)' = Work(a)
    BY SameWork
  <2> QED BY <2>1 DEF Item
<1>3. Writing(a)' = Writing(a) /\ Working(a)' = Working(a)
  BY <1>2 DEF Writing, Working
<1>4. ASSUME Writing(a), Item(a).kind \in {"payroll", "charge"}
      PROVE  StatusBy(a, Item(a)) # Skip /\ \A i \in invoices' : ~ (i.row = Item(a) /\ i.by = a)
  <2>1. StatusBy(a, Item(a)) # Skip /\ \A i \in invoices : ~ (i.row = Item(a) /\ i.by = a)
    BY <1>1, <1>4 DEF JobKnows
  <2> QED BY <2>1 DEF NothingNewOf
<1>5. ASSUME Writing(a), Item(a).kind = "credit", Mine(a)'
      PROVE  a \notin notes'
  <2>1. a \in notes' => a \in notes /\ Mine(a)
    BY <1>5 DEF NothingNewOf, Mine
  <2> QED BY <1>1, <1>5, <2>1 DEF JobKnows
<1> QED BY <1>1, <1>2, <1>3, <1>4, <1>5 DEF JobKnows, At

\* What is asked of an actor that has moved, wherever it is now.
LEMMA MoverKnows ==
  ASSUME NEW a \in Actor, job' \in [Actor -> Job], job'[a].id <= created'
  PROVE  /\ job'[a].pc \in {"idle", "settings", "insert"} /\ ~job'[a].done => JobKnows(a)'
         /\ job'[a].pc = "look" /\ ~job'[a].done /\ job'[a].id # 0 /\ job'[a].at # 0 => JobKnows(a)'
         /\ job'[a].pc = "idle" /\ job'[a].id # 0 => JobKnows(a)'
BY DEF JobKnows, Working, Writing, At

LEMMA StillTypes ==
  ASSUME TypeInv, Still
  PROVE  CustomerInv' /\ AccountInv' /\ created' = created /\ \A a \in Actor : NothingNewOf(a)
<1>1. UNCHANGED <<source, customer, created, invoices, notes, config, subscriptions, ledger>>
  BY DEF Still, account
<1>2. Rows' = Rows /\ Document' = Document
  BY <1>1, SameDocuments
<1> QED BY <1>1, <1>2 DEF TypeInv, CustomerInv, AccountInv, NothingNewOf

LEMMA JobsFollow ==
  ASSUME TypeInv, NEW a \in Actor, Others(a), source' = source,
         created' \in Nat, created' >= created,
         \A b \in Actor \ {a} : NothingNewOf(b), JobKnows(a)'
  PROVE  JobsInv'
<1>1. job' \in [Actor -> Job] /\ \A b \in Actor \ {a} : JobKnows(b)'
  BY OthersKnow DEF Others
<1> QED BY <1>1 DEF JobsInv

LEMMA AdvancesKnows ==
  ASSUME TypeInv, NEW a \in Actor, Advances(a), created' = created
  PROVE  JobKnows(a)'
<1>1. /\ job \in [Actor -> Job] /\ JobKnows(a) /\ job' \in [Actor -> Job]
      /\ job[a].id \in Nat /\ job[a].at \in Nat
  BY DEF TypeInv, JobsInv, Job, Advances, Keeps, Others
<1>2. job[a].id # 0 /\ job[a].id <= created
  BY <1>1 DEF JobKnows, Working, Advances, Keeps
<1> QED BY <1>1, <1>2, MoverKnows DEF Advances, Keeps

LEMMA ItemType ==
  ASSUME TypeInv, NEW a \in Actor, Inside(a), job[a].pc \in {"look", "write"}
  PROVE  /\ job[a].at \in 1..Len(Work(a)) /\ Len(Work(a)) \in Nat
         /\ RowItem(a) => Item(a) \in AnyRow \cap Rows
<1>1. job[a].at \in Nat /\ job[a].at # 0 /\ Len(Work(a)) \in Nat
  BY WorkItem DEF TypeInv, JobsInv, Job, JobKnows
<1>2. job[a].at \in 1..Len(Work(a))
  BY <1>1 DEF Inside
<1> QED BY <1>1, <1>2, WorkItem DEF TypeInv, RowItem, Item, AnyRow

\* The invoice that is written is a new one.
LEMMA StoresEffect ==
  ASSUME TypeInv, NEW a \in Actor, Stores(a)
  PROVE  /\ Item(a) \in AnyRow \cap Rows /\ StatusBy(a, Item(a)) # Skip
         /\ InvoiceBy(a, Item(a)) \in InvoiceRecord
         /\ InvoiceBy(a, Item(a)).row = Item(a) /\ InvoiceBy(a, Item(a)).by = a
         /\ \A i \in invoices : ~ (i.row = Item(a) /\ i.by = a)
<1>1. Inside(a) /\ RowItem(a) /\ job[a].pc = "write"
  BY DEF Stores, Commits, At
<1>2. Item(a) \in AnyRow \cap Rows
  BY <1>1, ItemType
<1>3. StatusBy(a, Item(a)) # Skip /\ \A i \in invoices : ~ (i.row = Item(a) /\ i.by = a)
  BY <1>1 DEF TypeInv, JobsInv, JobKnows, Writing, Inside, RowItem
<1> QED BY <1>2, <1>3, InvoiceTypes

LEMMA StoresTypes ==
  ASSUME TypeInv, NEW a \in Actor, Stores(a)
  PROVE  CustomerInv' /\ AccountInv' /\ \A b \in Actor \ {a} : NothingNewOf(b)
<1> DEFINE i == InvoiceBy(a, Item(a))
<1>1. i \in InvoiceRecord /\ i.by = a
  BY StoresEffect
<1>2. i.row \in Rows
  BY StoresEffect
<1>3. invoices' = invoices \cup {i} /\ Book(InvoiceOf(customer.id, i))
      /\ UNCHANGED <<source, customer, created, notes, config, subscriptions>>
      /\ customer.id = job[a].id
  BY DEF Stores, Commits, Mine
<1> HIDE DEF i
<1>4. ledger' \in [Document -> Int] /\ Rows' = Rows /\ Document' = Document
  BY <1>3, BookEffect, SameDocuments DEF TypeInv
<1>5. invoices' \in SUBSET InvoiceRecord /\ IsFiniteSet(invoices')
  BY <1>1, <1>3, FS_AddElement DEF TypeInv, AccountInv
<1>6. job[a].id # 0
  BY DEF TypeInv, JobsInv, JobKnows, Working, Stores, Commits, At
<1>7. CustomerInv'
  BY <1>3, <1>6 DEF TypeInv, CustomerInv
<1>8. AccountInv'
  BY <1>2, <1>3, <1>4, <1>5 DEF TypeInv, AccountInv
<1> QED BY <1>1, <1>3, <1>7, <1>8 DEF NothingNewOf

\* The invoices with the drafts linked.
Linked(i) == [i EXCEPT !.linked = @ \/ i.status = "draft"]

LEMMA LinkedType ==
  ASSUME NEW i \in InvoiceRecord
  PROVE  /\ Linked(i) \in InvoiceRecord
         /\ Linked(i).row = i.row /\ Linked(i).by = i.by
         /\ Linked(i).status = i.status /\ Linked(i).charge = i.charge
         /\ Linked(i).total = i.total
         /\ Linked(i).linked = (i.linked \/ i.status = "draft")
<1> DEFINE l == i.linked \/ i.status = "draft"
<1>1. l \in BOOLEAN /\ Linked(i) = [i EXCEPT !.linked = l]
  BY DEF InvoiceRecord, Linked
<1>2. l = (i.linked \/ i.status = "draft")
  OBVIOUS
<1> HIDE DEF l
<1>3. Linked(i).linked = l /\ Linked(i) \in InvoiceRecord
  BY <1>1, LinkedAlone
<1>4. /\ Linked(i).row = i.row /\ Linked(i).by = i.by
      /\ Linked(i).status = i.status /\ Linked(i).charge = i.charge
      /\ Linked(i).total = i.total
  BY DEF InvoiceRecord, Linked
<1> QED BY <1>2, <1>3, <1>4

LEMMA SubscriptionEffect ==
  ASSUME TypeInv, NEW m \in Migrator, WriteSubscription(m)
  PROVE  /\ invoices' = {Linked(i) : i \in invoices}
         /\ subscriptions' = subscriptions + 1
         /\ UNCHANGED <<source, customer, created, notes, config, ledger>>
BY DEF WriteSubscription, Linked

LEMMA WritesTypes ==
  ASSUME TypeInv, NEW m \in Actor, Commits(m),
         (m \in Migrator /\ WriteCredit(m)) \/ StoreConfig(m) \/ (m \in Migrator /\ WriteSubscription(m))
  PROVE  /\ CustomerInv' /\ AccountInv' /\ \A b \in Actor \ {m} : NothingNewOf(b)
         /\ source' = source /\ created' = created /\ customer' = customer
<1>1. customer.id # 0
  BY DEF TypeInv, JobsInv, JobKnows, Working, Commits, At, Mine
<1>2. CASE m \in Migrator /\ WriteCredit(m)
  <2>1. Book(Note(customer.id, m)) /\ notes' = notes \cup {m}
        /\ UNCHANGED <<source, customer, created, invoices, config, subscriptions>>
    BY <1>2 DEF WriteCredit
  <2>2. ledger' \in [Document -> Int] /\ Rows' = Rows /\ Document' = Document
    BY <2>1, BookEffect, SameDocuments DEF TypeInv
  <2>3. CustomerInv'
    BY <1>1, <2>1 DEF TypeInv, CustomerInv
  <2>4. AccountInv'
    BY <1>2, <2>1, <2>2 DEF TypeInv, AccountInv
  <2> QED BY <2>1, <2>3, <2>4 DEF NothingNewOf
<1>3. CASE StoreConfig(m)
  <2>1. config' = TRUE
        /\ UNCHANGED <<source, customer, created, invoices, notes, subscriptions, ledger>>
    BY <1>3 DEF StoreConfig
  <2>2. CustomerInv'
    BY <1>1, <2>1 DEF TypeInv, CustomerInv
  <2>3. AccountInv'
    <3>1. Rows' = Rows /\ Document' = Document
      BY <2>1, SameDocuments
    <3> QED BY <2>1, <3>1 DEF TypeInv, AccountInv
  <2> QED BY <2>1, <2>2, <2>3 DEF NothingNewOf
<1>4. CASE m \in Migrator /\ WriteSubscription(m)
  <2>1. /\ invoices' = {Linked(i) : i \in invoices}
        /\ subscriptions' = subscriptions + 1
        /\ UNCHANGED <<source, customer, created, notes, config, ledger>>
    BY <1>4, SubscriptionEffect
  <2>2. invoices \in SUBSET InvoiceRecord /\ IsFiniteSet(invoices)
    BY DEF TypeInv, AccountInv
  <2>3. invoices' \in SUBSET InvoiceRecord
    BY <2>1, <2>2, LinkedType
  <2>4. IsFiniteSet(invoices')
    <3> DEFINE f == [i \in invoices |-> Linked(i)]
    <3>1. f \in Surjection(invoices, invoices')
      BY <2>1 DEF Surjection
    <3> QED BY <2>2, <3>1, FS_Surjection
  <2>5. CustomerInv'
    BY <1>1, <2>1 DEF TypeInv, CustomerInv
  <2>6. AccountInv'
    <3>1. Rows' = Rows /\ Document' = Document
      BY <2>1, SameDocuments
    <3>2. \A i \in invoices : Linked(i).row = i.row /\ i.row \in Rows
      BY <2>2, LinkedType DEF TypeInv, AccountInv
    <3>3. \A i \in invoices' : i.row \in Rows
      <4> HIDE DEF Linked
      <4> QED BY <2>1, <3>2
    <3> QED BY <2>1, <2>3, <2>4, <3>1, <3>3 DEF TypeInv, AccountInv
  <2>7. \A b \in Actor : NothingNewOf(b)
    BY <2>1, <2>2, LinkedType DEF NothingNewOf
  <2> QED BY <2>1, <2>5, <2>6, <2>7
<1> QED BY <1>2, <1>3, <1>4

\* What becomes of the customer in a rollback: all of it goes, or nothing does.
Emptied ==
  /\ customer' = NoCustomer /\ invoices' = {} /\ notes' = {}
  /\ config' = FALSE /\ subscriptions' = 0 /\ UNCHANGED <<source, created, job>>
Apart == UNCHANGED <<source, customer, created, invoices, notes, config, subscriptions, job>>

LEMMA RollbackEffect ==
  ASSUME NEW x, RollbackStep(x)
  PROVE  Emptied \/ Apart
BY DEF RollbackStep, BeginRollback, ReverseEntries, CommitRollback, CommitAfterAnother,
       RollbackThrows, Emptied, Apart, account

LEMMA EmptiedTypes ==
  ASSUME TypeInv, Emptied, ledger' \in [Document -> Int]
  PROVE  TypeInv'
<1>1. Rows' = Rows /\ Document' = Document
  BY SameDocuments DEF Emptied
<1>2. CustomerInv'
  BY DEF Emptied, TypeInv, CustomerInv, NoCustomer
<1>3. AccountInv'
  BY <1>1, FS_EmptySet DEF Emptied, TypeInv, AccountInv
<1>4. \A a \in Actor : JobKnows(a)'
  <2>1. \A a \in Actor : NothingNewOf(a)
    BY DEF Emptied, NothingNewOf
  <2>2. created \in Nat /\ created' = created /\ job' = job /\ source' = source
    BY DEF Emptied, TypeInv, CustomerInv
  <2> QED BY <2>1, <2>2, OthersKnow
<1> QED BY <1>2, <1>3, <1>4 DEF TypeInv, JobsInv, Emptied

LEMMA ApartTypes ==
  ASSUME TypeInv, Apart, ledger' \in [Document -> Int]
  PROVE  TypeInv'
<1>1. Rows' = Rows /\ Document' = Document
  BY SameDocuments DEF Apart
<1>2. CustomerInv'
  BY DEF Apart, TypeInv, CustomerInv
<1>3. AccountInv'
  BY <1>1 DEF Apart, TypeInv, AccountInv
<1>4. \A a \in Actor : JobKnows(a)'
  <2>1. \A a \in Actor : NothingNewOf(a)
    BY DEF Apart, NothingNewOf
  <2>2. created \in Nat /\ created' = created /\ job' = job /\ source' = source
    BY DEF Apart, TypeInv, CustomerInv
  <2> QED BY <2>1, <2>2, OthersKnow
<1> QED BY <1>2, <1>3, <1>4 DEF TypeInv, JobsInv, Apart

LEMMA ActorTypes ==
  ASSUME TypeInv, NEW a \in Actor, ActorStep(a)
  PROVE  TypeInv'
<1>0. /\ created \in Nat /\ customer.id \in Nat /\ customer.id <= created /\ MaxCustomers \in Nat
      /\ job[a].id \in Nat /\ job[a].id <= created /\ job[a].at \in Nat
  BY MigrationAssumption DEF TypeInv, CustomerInv, JobsInv, Job, JobKnows
<1>1. ASSUME Still, Others(a), JobKnows(a)'
      PROVE  TypeInv'
  <2>1. CustomerInv' /\ AccountInv' /\ created' = created /\ \A b \in Actor : NothingNewOf(b)
    BY <1>1, StillTypes
  <2>2. JobsInv'
    BY <1>0, <1>1, <2>1, JobsFollow DEF Still
  <2> QED BY <2>1, <2>2 DEF TypeInv
<1>2. CASE Still /\ Leaves(a)
  <2>1. Others(a) /\ job' \in [Actor -> Job] /\ job'[a].id <= created' /\ ~job'[a].done
        /\ job'[a].pc \in {"idle", "settings", "insert"}
    BY <1>0, <1>2 DEF Leaves, Others, Still, account
  <2> QED BY <1>1, <1>2, <2>1, MoverKnows
<1>3. CASE Still /\ Starts(a, customer.id) /\ customer.id # 0
  <2>1. Others(a) /\ job' \in [Actor -> Job] /\ job'[a].id <= created' /\ ~job'[a].done
        /\ job'[a].pc = "look" /\ job'[a].at # 0 /\ job'[a].id # 0
    BY <1>0, <1>3 DEF Starts, Others, Still, account
  <2> QED BY <1>1, <1>3, <2>1, MoverKnows
<1>4. CASE Skips(a)
  <2>1. Still /\ Advances(a) /\ Others(a) /\ created' = created
    BY <1>4 DEF Skips, Advances, Keeps, Still, account
  <2> QED BY <1>1, <2>1, AdvancesKnows
<1>5. CASE Resolves(a)
  <2>1. /\ Still /\ Others(a) /\ created' = created /\ source' = source /\ invoices' = invoices
        /\ job[a].pc \in {"look", "write"} /\ job'[a].pc = "write" /\ ~job'[a].done
        /\ job'[a].at = job[a].at /\ job'[a].id = job[a].id /\ job'[a].op = job[a].op
        /\ customer' = customer /\ notes' = notes
    BY <1>5 DEF Resolves, Keeps, Still, account
  <2>2. job[a].at # 0 /\ job[a].id # 0
    BY <2>1 DEF TypeInv, JobsInv, JobKnows, Working
  <2>3. Work(a)' = Work(a) /\ Item(a)' = Item(a)
    <3>1. Work(a)' = Work(a)
      BY <2>1, SameWork
    <3> QED BY <2>1, <3>1 DEF Item
  <2>4. RowItem(a) => StatusBy(a, Item(a)) # Skip /\ \A i \in invoices : i.row # Item(a)
    BY <1>5 DEF Resolves, Migrated
  <2>5. Item(a).kind = "credit" /\ Mine(a)' => a \notin notes'
    <3>1. Mine(a)' = Mine(a)
      BY <2>1 DEF Mine
    <3> QED BY <1>5, <2>1, <3>1 DEF Resolves
  <2>6. JobKnows(a)'
    BY <1>0, <2>1, <2>2, <2>3, <2>4, <2>5 DEF JobKnows, RowItem, At
  <2> QED BY <1>1, <2>1, <2>6
<1>6. CASE Finishes(a)
  <2>1. /\ Still /\ Others(a) /\ created' = created /\ job' \in [Actor -> Job]
        /\ job[a].pc = "look" /\ job'[a].pc = "idle" /\ job'[a].id = job[a].id
    BY <1>6 DEF Finishes, Others, Still, account
  <2>2. job[a].id # 0
    BY <2>1 DEF TypeInv, JobsInv, JobKnows, Working
  <2> QED BY <1>0, <1>1, <2>1, <2>2, MoverKnows
<1>7. CASE Inserts(a)
  <2>1. /\ created' = created + 1 /\ created < MaxCustomers
        /\ UNCHANGED <<source, invoices, notes, config, subscriptions, ledger>>
        /\ customer' \in [id: Nat, methods: BOOLEAN, assigned: BOOLEAN]
        /\ customer'.id = created + 1 /\ customer'.methods = source.methods
    <3>1. source.methods \in BOOLEAN
      BY SourceTypes DEF TypeInv
    <3> QED BY <1>0, <1>7, <3>1 DEF Inserts
  <2>2. CustomerInv'
    BY <1>0, <2>1 DEF TypeInv, CustomerInv
  <2>3. AccountInv'
    <3>1. Rows' = Rows /\ Document' = Document
      BY <2>1, SameDocuments
    <3> QED BY <2>1, <3>1 DEF TypeInv, AccountInv
  <2>4. Others(a) /\ JobKnows(a)'
    <3>1. CASE Starts(a, created + 1)
      <4>1. Others(a) /\ job' \in [Actor -> Job] /\ job'[a].id <= created' /\ ~job'[a].done
            /\ job'[a].pc = "look" /\ job'[a].at # 0 /\ job'[a].id # 0
        BY <1>0, <2>1, <3>1 DEF Starts, Others
      <4> QED BY <4>1, MoverKnows
    <3>2. CASE Leaves(a)
      <4>1. Others(a) /\ job' \in [Actor -> Job] /\ job'[a].id <= created' /\ ~job'[a].done
            /\ job'[a].pc \in {"idle", "settings", "insert"}
        BY <1>0, <2>1, <3>2 DEF Leaves, Others
      <4> QED BY <4>1, MoverKnows
    <3> QED BY <1>7, <3>1, <3>2 DEF Inserts
  <2>5. \A b \in Actor : NothingNewOf(b)
    <3>1. customer.id = 0 /\ notes = {}
      BY <1>7 DEF Inserts, TypeInv, CustomerInv
    <3> QED BY <2>1, <3>1 DEF NothingNewOf
  <2>6. JobsInv'
    BY <1>0, <2>1, <2>4, <2>5, JobsFollow
  <2> QED BY <2>2, <2>3, <2>6 DEF TypeInv
<1>8. CASE \/ Commits(a) /\ a \in Migrator /\ WriteCredit(a)
           \/ Commits(a) /\ StoreConfig(a)
           \/ Commits(a) /\ a \in Migrator /\ WriteSubscription(a)
  <2>1. /\ CustomerInv' /\ AccountInv' /\ \A b \in Actor \ {a} : NothingNewOf(b)
        /\ source' = source /\ created' = created
    BY <1>8, WritesTypes
  <2>2. Advances(a) /\ Others(a)
    BY <1>8 DEF Commits, Advances, Keeps
  <2>3. JobKnows(a)'
    BY <2>1, <2>2, AdvancesKnows
  <2>4. JobsInv'
    BY <1>0, <2>1, <2>2, <2>3, JobsFollow
  <2> QED BY <2>1, <2>4 DEF TypeInv
<1>9. CASE Stores(a)
  <2>1. CustomerInv' /\ AccountInv' /\ \A b \in Actor \ {a} : NothingNewOf(b)
    BY <1>9, StoresTypes
  <2>2. Advances(a) /\ Others(a) /\ source' = source /\ created' = created
    BY <1>9 DEF Stores, Commits, Advances, Keeps
  <2>3. JobKnows(a)'
    BY <2>2, AdvancesKnows
  <2>4. JobsInv'
    BY <1>0, <2>1, <2>2, <2>3, JobsFollow
  <2> QED BY <2>1, <2>4 DEF TypeInv
<1> QED BY <1>2, <1>3, <1>4, <1>5, <1>6, <1>7, <1>8, <1>9 DEF ActorStep

LEMMA ActorRemovals ==
  ASSUME TypeInv, RemovalsInv, NEW a \in Actor, ActorStep(a)
  PROVE  RemovalsInv'
<1>1. removal' = removal /\ overtaken' = overtaken
  BY DEF ActorStep, Still, removals, Skips, Resolves, Finishes, Inserts, WriteCredit, StoreConfig,
         Stores, WriteSubscription
<1>2. source' = source /\ (created' = created \/ created' = created + 1) /\ created \in Nat
  <2>1. source' = source /\ (created' = created \/ created' = created + 1)
    BY DEF ActorStep, Still, account, Skips, Resolves, Finishes, Inserts, WriteCredit, StoreConfig,
           Stores, WriteSubscription
  <2> QED BY <2>1 DEF TypeInv, CustomerInv
<1>3. Document' = Document
  BY <1>2, SameDocuments
<1>4. removal' \in [Remover -> Removal'] /\ overtaken' \in SUBSET (1..created')
  BY <1>1, <1>2, <1>3 DEF RemovalsInv, Removal, Entries
<1>5. ASSUME NEW x \in Remover
      PROVE  RemovalKnows(x)'
  <2>1. RemovalKnows(x) /\ removal[x].id \in Nat
    BY DEF RemovalsInv, Removal
  <2> QED BY <1>1, <1>2, <2>1 DEF RemovalKnows
<1> QED BY <1>4, <1>5 DEF RemovalsInv

\* A rollback that moves by itself.
LEMMA RemovalMoves ==
  ASSUME RemovalsInv, NEW x \in Remover, NEW t \in Removal, Advance(x, t),
         Document' = Document, created' = created, overtaken' \in SUBSET (1..created),
         t.id <= created,
         t.pc # "idle" => t.id # 0 /\ \A d \in t.read : d[1] = t.id,
         t.pc = "delete" => t.found \in [{d \in t.read : OfRequest(d)} -> Int]
  PROVE  RemovalsInv'
<1>1. removal' = [removal EXCEPT ![x] = t] /\ removal \in [Remover -> Removal]
  BY DEF Advance, RemovalsInv
<1>2. removal' \in [Remover -> Removal] /\ removal'[x] = t
      /\ \A y \in Remover \ {x} : removal'[y] = removal[y]
  BY <1>1
<1>3. Removal' = Removal
  BY DEF Removal, Entries
<1>4. RemovalKnows(x)'
  BY <1>2 DEF RemovalKnows
<1>5. ASSUME NEW y \in Remover \ {x}
      PROVE  RemovalKnows(y)'
  <2>1. RemovalKnows(y)
    BY DEF RemovalsInv
  <2> QED BY <1>2, <2>1 DEF RemovalKnows
<1> QED BY <1>2, <1>3, <1>4, <1>5 DEF RemovalsInv

\* What the customer holds are documents of its own.
LEMMA HeldTypes ==
  ASSUME TypeInv
  PROVE  /\ InvoicesHeld \in SUBSET Document /\ NotesHeld \in SUBSET Document
         /\ \A d \in Held : d \in Document /\ d[1] = customer.id
<1>1. created \in 0..MaxCustomers /\ customer.id \in Nat /\ customer.id <= created /\ MaxCustomers \in Nat
  BY MigrationAssumption DEF TypeInv, CustomerInv
<1>2. ASSUME NEW i \in invoices
      PROVE  InvoiceOf(customer.id, i) \in Document /\ InvoiceOf(customer.id, i)[1] = customer.id
  <2>1. i.row \in Rows /\ i.by \in Actor /\ customer.id \in 1..MaxCustomers
    BY <1>1 DEF TypeInv, AccountInv, CustomerInv, InvoiceRecord
  <2> QED BY <2>1 DEF InvoiceOf, Document
<1>3. ASSUME NEW m \in notes
      PROVE  Note(customer.id, m) \in Document /\ Note(customer.id, m)[1] = customer.id
  <2>1. m \in Actor /\ customer.id \in 1..MaxCustomers
    BY <1>1 DEF TypeInv, AccountInv, CustomerInv, Actor
  <2> QED BY <2>1 DEF Note, Document
<1> QED BY <1>2, <1>3 DEF Held, InvoicesHeld, NotesHeld

LEMMA MirrorType ==
  ASSUME TypeInv, RemovalsInv, NEW x \in Remover, removal[x].pc = "delete", Mirror(removal[x].found)
  PROVE  /\ ledger' \in [Document -> Int]
         /\ \A d \in Document :
              ledger'[d] = IF d \in removal[x].read /\ OfRequest(d)
                           THEN ledger[d] - removal[x].found[d] ELSE ledger[d]
<1> DEFINE found == removal[x].found
           S == {d \in removal[x].read : OfRequest(d)}
<1>1. found \in [S -> Int] /\ ledger \in [Document -> Int]
  BY DEF RemovalsInv, RemovalKnows, TypeInv, AccountInv
<1>2. ledger' = [d \in Document |-> IF d \in DOMAIN found THEN ledger[d] - found[d] ELSE ledger[d]]
  BY DEF Mirror
<1>3. \A d \in Document : d \in S <=> d \in removal[x].read /\ OfRequest(d)
  OBVIOUS
<1> HIDE DEF found, S
<1>4. ledger' = [d \in Document |-> IF d \in S THEN ledger[d] - found[d] ELSE ledger[d]]
  BY <1>1, <1>2
<1>5. \A d \in Document : (IF d \in S THEN ledger[d] - found[d] ELSE ledger[d]) \in Int
  BY <1>1
<1> QED BY <1>3, <1>4, <1>5 DEF found

LEMMA RestingType == Resting \in Removal /\ Resting.pc = "idle" /\ Resting.id = 0
<1>1. <<>> \in Entries /\ {} \in SUBSET Document
  BY DEF Entries
<1> QED BY <1>1 DEF Resting, Removal

LEMMA RollbackTypes ==
  ASSUME TypeInv, RemovalsInv, NEW x \in Remover, RollbackStep(x)
  PROVE  TypeInv' /\ RemovalsInv'
<1>0. /\ Emptied \/ Apart
      /\ Document' = Document /\ created' = created /\ created \in Nat
      /\ customer.id \in Nat /\ customer.id <= created
      /\ removal[x] \in Removal /\ RemovalKnows(x) /\ overtaken \in SUBSET (1..created)
  <2>1. Emptied \/ Apart
    BY RollbackEffect
  <2>2. source' = source /\ created' = created
    BY <2>1 DEF Emptied, Apart
  <2>3. created \in Nat /\ customer.id \in Nat /\ customer.id <= created
    BY DEF TypeInv, CustomerInv
  <2>4. removal[x] \in Removal /\ RemovalKnows(x) /\ overtaken \in SUBSET (1..created)
    BY DEF RemovalsInv
  <2> QED BY <2>1, <2>2, <2>3, <2>4, SameDocuments
<1>1. ledger' = ledger => ledger' \in [Document -> Int]
  BY DEF TypeInv, AccountInv
<1>2. Advance(x, Resting) /\ overtaken' \in SUBSET (1..created) => RemovalsInv'
  <2>1. Resting.id <= created /\ Resting.pc # "delete"
    BY <1>0, RestingType
  <2> QED BY <1>0, <2>1, RestingType, RemovalMoves
<1>3. ledger' \in [Document -> Int] => TypeInv'
  BY <1>0, EmptiedTypes, ApartTypes
<1>4. CASE BeginRollback(x)
  <2> DEFINE t == [pc |-> "reverse", id |-> customer.id, read |-> InvoicesHeld, found |-> <<>>]
  <2>1. Advance(x, t) /\ customer.id # 0 /\ ledger' = ledger /\ overtaken' = overtaken
    BY <1>4 DEF BeginRollback, account
  <2>2. InvoicesHeld \in SUBSET Document /\ \A d \in InvoicesHeld : d[1] = customer.id
    BY HeldTypes DEF Held
  <2>3. <<>> \in Entries
    BY DEF Entries
  <2>4. t \in Removal /\ t.pc = "reverse" /\ t.id = customer.id /\ t.read = InvoicesHeld
    BY <1>0, <2>2, <2>3 DEF Removal
  <2> HIDE DEF t
  <2>5. RemovalsInv'
    BY <1>0, <2>1, <2>2, <2>4, RemovalMoves
  <2> QED BY <1>1, <1>3, <2>1, <2>5
<1>5. CASE ReverseEntries(x)
  <2> DEFINE docs == removal[x].read \cup (IF customer.id = removal[x].id THEN NotesHeld ELSE {})
             S == {d \in docs : OfRequest(d)}
             f == [d \in S |-> ledger[d]]
             t == [removal[x] EXCEPT !.pc = "delete", !.read = docs, !.found = f]
  <2>1. removal[x].pc = "reverse" /\ Advance(x, t) /\ ledger' = ledger /\ overtaken' = overtaken
    BY <1>5 DEF ReverseEntries, account
  <2>2. removal[x].read \in SUBSET Document /\ removal[x].id # 0 /\ removal[x].id \in Nat
        /\ removal[x].id <= created /\ \A d \in removal[x].read : d[1] = removal[x].id
    BY <1>0, <2>1 DEF Removal, RemovalKnows
  <2>3. docs \in SUBSET Document /\ \A d \in docs : d[1] = removal[x].id
    BY <2>2, HeldTypes DEF Held
  <2>4. S \in SUBSET Document
    BY <2>3
  <2> HIDE DEF docs
  <2>5. f \in [S -> Int]
    BY <2>4 DEF TypeInv, AccountInv
  <2>6. f \in Entries
    BY <2>4, <2>5 DEF Entries
  <2>7. S = {d \in docs : OfRequest(d)}
    OBVIOUS
  <2> HIDE DEF S, f
  <2>8. t \in Removal /\ t.pc = "delete" /\ t.id = removal[x].id /\ t.read = docs /\ t.found = f
    BY <1>0, <2>3, <2>6 DEF Removal
  <2> HIDE DEF t
  <2>9. t.found \in [{d \in t.read : OfRequest(d)} -> Int]
    BY <2>5, <2>7, <2>8
  <2>10. RemovalsInv'
    BY <1>0, <2>1, <2>2, <2>3, <2>8, <2>9, RemovalMoves
  <2> QED BY <1>1, <1>3, <2>1, <2>10
<1>6. CASE CommitRollback(x)
  <2>1. /\ removal[x].pc = "delete" /\ Mirror(removal[x].found) /\ customer.id = removal[x].id
        /\ overtaken' \in {overtaken, overtaken \cup {customer.id}} /\ Advance(x, Resting)
    BY <1>6 DEF CommitRollback
  <2>2. customer.id \in 1..created
    BY <1>0, <2>1 DEF RemovalKnows
  <2>3. overtaken' \in SUBSET (1..created)
    BY <1>0, <2>1, <2>2
  <2> QED BY <1>2, <1>3, <2>1, <2>3, MirrorType
<1>7. CASE CommitAfterAnother(x)
  <2>1. /\ removal[x].pc = "delete" /\ Mirror(removal[x].found)
        /\ overtaken' = overtaken \cup {removal[x].id} /\ Advance(x, Resting)
    BY <1>7 DEF CommitAfterAnother
  <2>2. removal[x].id \in 1..created
    BY <1>0, <2>1 DEF RemovalKnows, Removal
  <2> QED BY <1>0, <1>2, <1>3, <2>1, <2>2, MirrorType
<1>8. CASE RollbackThrows(x)
  <2>1. Advance(x, Resting) /\ ledger' = ledger /\ overtaken' = overtaken
    BY <1>8 DEF RollbackThrows, account
  <2> QED BY <1>0, <1>1, <1>2, <1>3, <2>1
<1> QED BY <1>4, <1>5, <1>6, <1>7, <1>8 DEF RollbackStep

LEMMA InitTypes ==
  ASSUME Init
  PROVE  TypeInv /\ RemovalsInv
<1>1. CustomerInv
  BY MigrationAssumption DEF Init, CustomerInv, NoCustomer
<1>2. AccountInv
  <2>1. source \in Source /\ invoices = {} /\ notes = {} /\ config = FALSE /\ subscriptions = 0
    BY DEF Init
  <2>2. ledger \in [Document -> Int]
    BY DEF Init
  <2> QED BY <2>1, <2>2, FS_EmptySet DEF AccountInv
<1>3. JobsInv
  BY <1>1 DEF Init, JobsInv, JobKnows, Job, Idle, Working, Writing, At, CustomerInv
<1>4. RemovalsInv
  <2>1. \A x \in Remover : removal[x] = Resting
    BY DEF Init
  <2>2. removal \in [Remover -> Removal] /\ overtaken = {} /\ created = 0
    BY RestingType DEF Init
  <2> QED BY <2>1, <2>2, RestingType DEF RemovalsInv, RemovalKnows
<1> QED BY <1>1, <1>2, <1>3, <1>4 DEF TypeInv

LEMMA Stutters ==
  ASSUME UNCHANGED vars
  PROVE  Apart /\ UNCHANGED removals /\ ledger' = ledger
BY DEF vars, Apart, removals

LEMMA StepTypes ==
  ASSUME TypeInv, RemovalsInv, [Next]_vars
  PROVE  TypeInv' /\ RemovalsInv'
<1>1. CASE Next
  BY <1>1, EveryStep, ActorTypes, ActorRemovals, RollbackTypes
<1>2. CASE UNCHANGED vars
  <2>1. Apart /\ removal' = removal /\ overtaken' = overtaken /\ created' = created
        /\ Document' = Document /\ ledger' \in [Document -> Int]
    BY <1>2, Stutters, SameDocuments DEF removals, Apart, TypeInv, AccountInv
  <2>2. TypeInv'
    BY <2>1, ApartTypes
  <2>3. RemovalsInv'
    BY <2>1 DEF RemovalsInv, RemovalKnows, Removal, Entries
  <2> QED BY <2>2, <2>3
<1> QED BY <1>1, <1>2

LEMMA RemovalTypes == Spec => [](TypeInv /\ RemovalsInv)
<1> QED BY InitTypes, StepTypes, PTL DEF Spec

LEMMA Types == Spec => []TypeInv
<1> QED BY RemovalTypes, PTL

\* Whatever hangs on a customer row goes with it, and is what it should be.
THEOREM MigrationTypes == Spec => []TypeOK
<1>1. TypeInv /\ RemovalsInv => TypeOK
  <2> SUFFICES ASSUME TypeInv, RemovalsInv PROVE TypeOK
    OBVIOUS
  <2>1. /\ customer \in [id: 0..created, methods: BOOLEAN, assigned: BOOLEAN]
        /\ created \in 0..MaxCustomers
        /\ customer.id = 0 =>
             invoices = {} /\ notes = {} /\ ~config /\ subscriptions = 0 /\ ~customer.methods
    BY DEF TypeInv, CustomerInv
  <2>2. \A i \in invoices :
          /\ i.status \in {"draft", "finalized", "paid", "void"} /\ i.by \in Actor
          /\ i.charge \in {"none", "succeeded", "failed", "pending"} /\ i.linked \in BOOLEAN
    BY DEF TypeInv, AccountInv, InvoiceRecord
  <2>3. \A a \in Actor :
          /\ job[a].pc \in {"idle", "settings", "insert", "look", "write"}
          /\ job[a].done \in BOOLEAN /\ job[a].id \in 0..created
    BY <2>1 DEF TypeInv, JobsInv, Job, JobKnows
  <2>4. /\ \A x \in Remover :
             /\ removal[x].pc \in {"idle", "reverse", "delete"} /\ removal[x].id \in 0..created
             /\ removal[x].read \subseteq Document
        /\ overtaken \subseteq 1..created
    <3>0. created \in Nat
      BY DEF TypeInv, CustomerInv
    <3>1. removal \in [Remover -> Removal] /\ overtaken \subseteq 1..created
          /\ \A x \in Remover : removal[x].id <= created
      BY DEF RemovalsInv, RemovalKnows
    <3>2. \A t \in Removal : /\ t.pc \in {"idle", "reverse", "delete"} /\ t.id \in Nat
                             /\ t.read \subseteq Document
      BY DEF Removal
    <3> QED BY <3>0, <3>1, <3>2
  <2>5. /\ source \in Source /\ notes \subseteq Migrator /\ config \in BOOLEAN
        /\ subscriptions \in Nat /\ ledger \in [Document -> Int]
    BY DEF TypeInv, AccountInv
  <2> QED BY <2>1, <2>2, <2>3, <2>4, <2>5 DEF TypeOK
<1> QED BY <1>1, RemovalTypes, PTL

-----------------------------------------------------------------------------
(* Layer 2                                                                   *)

LEMMA AtMostOne ==
  ASSUME NEW S, \A x, y \in S : x = y
  PROVE  Cardinality(S) <= 1
<1>1. CASE S = {}
  BY <1>1, FS_EmptySet
<1>2. CASE S # {}
  <2>1. PICK x \in S : TRUE
    BY <1>2
  <2>2. S = {x}
    BY <2>1
  <2> QED BY <2>2, FS_Singleton
<1> QED BY <1>1, <1>2

\* What an actor's step does to the invoices.
LEMMA InvoicesChange ==
  ASSUME TypeInv, NEW a \in Actor, ActorStep(a)
  PROVE  \/ invoices' = invoices
         \/ Stores(a)
         \/ Commits(a) /\ a \in Migrator /\ WriteSubscription(a)
BY DEF ActorStep, Still, account, Skips, Resolves, Finishes, Inserts, WriteCredit, StoreConfig

LEMMA StepCharges ==
  ASSUME TypeInv, OneCharge, [Next]_vars
  PROVE  OneCharge'
<1>1. CASE invoices' = invoices
  BY <1>1 DEF OneCharge
<1>2. ASSUME NEW a \in Actor, Stores(a)
      PROVE  OneCharge'
  <2> DEFINE i == InvoiceBy(a, Item(a))
  <2>1. i.row = Item(a)
    BY <1>2, StoresEffect
  <2>2. invoices' = invoices \cup {i} /\ (i.charge # "none" => KeyFree(a, Item(a)))
    BY <1>2 DEF Stores
  <2> HIDE DEF i
  <2> QED BY <2>1, <2>2 DEF KeyFree, OneCharge
<1>3. ASSUME NEW m \in Migrator, WriteSubscription(m)
      PROVE  OneCharge'
  <2>1. invoices' = {Linked(i) : i \in invoices} /\ invoices \in SUBSET InvoiceRecord
    BY <1>3, SubscriptionEffect DEF TypeInv, AccountInv
  <2>2. \A i \in invoices : Linked(i).row = i.row /\ Linked(i).charge = i.charge
    BY <2>1, LinkedType
  <2> HIDE DEF Linked
  <2> QED BY <2>1, <2>2 DEF OneCharge
<1>4. ASSUME NEW x \in Remover, RollbackStep(x)
      PROVE  OneCharge'
  BY <1>1, <1>4, RollbackEffect DEF Emptied, Apart, OneCharge
<1>5. CASE UNCHANGED vars
  BY <1>1, <1>5 DEF vars
<1> QED BY <1>1, <1>2, <1>3, <1>4, <1>5, EveryStep, InvoicesChange

\* No row of the monolith gets a second charge, however requests, scripts,
\* reruns and rollbacks overlap between looking it up and writing it.
THEOREM RowChargedOnce == Spec => []ChargedOnce
<1>1. Init => OneCharge
  BY DEF Init, OneCharge
<1>2. OneCharge => ChargedOnce
  BY AtMostOne DEF OneCharge, ChargedOnce, InvoicesOf
<1> QED BY <1>1, <1>2, StepCharges, Types, PTL DEF Spec

-----------------------------------------------------------------------------
(* Layer 3                                                                   *)

\* A document that is written is a new one, and in the books once from then on.
LEMMA NewIsBooked ==
  ASSUME TypeInv, TypeInv', LedgerInv, NEW doc \in Document, doc \notin Held,
         Held' = Held \cup {doc}, Book(doc), doc[1] = customer.id,
         UNCHANGED <<source, customer, removals>>
  PROVE  LedgerInv'
<1>1. /\ Document' = Document /\ removal' = removal /\ overtaken' = overtaken /\ customer' = customer
      /\ ledger'[doc] = ledger[doc] + 1 /\ \A d \in Document \ {doc} : ledger'[d] = ledger[d]
  BY BookEffect, SameDocuments DEF TypeInv, removals
<1>2. \A d \in Held : d \in Document
  BY HeldTypes
<1>3. OfRequest(doc) => ledger[doc] = 0
  BY DEF LedgerInv, LedgerFollowsWriters
<1>4. LedgerFollowsWriters'
  <2>1. \A d \in Held' : OfRequest(d) => ledger'[d] = 1
    <3>1. OfRequest(doc) => ledger'[doc] = 1
      BY <1>1, <1>3
    <3>2. \A d \in Held : OfRequest(d) => ledger'[d] = 1
      BY <1>1, <1>2 DEF LedgerInv, LedgerFollowsWriters
    <3> QED BY <3>1, <3>2
  <2>2. \A d \in Document \ Held' : OfRequest(d) /\ d[1] \notin overtaken => ledger'[d] = 0
    BY <1>1 DEF LedgerInv, LedgerFollowsWriters
  <2> QED BY <1>1, <2>1, <2>2 DEF LedgerFollowsWriters, OfRequest
<1>5. \A x \in Remover : ReadIsHeld(x)'
  BY <1>1 DEF LedgerInv, ReadIsHeld, OfRequest
<1> QED BY <1>1, <1>4, <1>5 DEF LedgerInv

\* Nothing of it changes as long as the customer keeps what it has.
LEMMA HeldStays ==
  ASSUME TypeInv, LedgerInv, Held' = Held, UNCHANGED <<source, customer, ledger, removals>>
  PROVE  LedgerInv'
<1>1. Document' = Document /\ removal' = removal /\ overtaken' = overtaken /\ customer' = customer
      /\ ledger' = ledger
  BY SameDocuments DEF removals
<1>2. LedgerFollowsWriters'
  BY <1>1 DEF LedgerInv, LedgerFollowsWriters, OfRequest
<1>3. \A x \in Remover : ReadIsHeld(x)'
  BY <1>1 DEF LedgerInv, ReadIsHeld, OfRequest
<1> QED BY <1>1, <1>2, <1>3 DEF LedgerInv

LEMMA HeldOf ==
  ASSUME NEW d
  PROVE  d \in Held <=> \/ \E i \in invoices : d = <<customer.id, i.row, i.by>>
                        \/ \E m \in notes : d = <<customer.id, Credit, m>>
BY DEF Held, InvoicesHeld, NotesHeld, InvoiceOf, Note

LEMMA NoHeld ==
  /\ invoices = {} /\ notes = {} => Held = {}
  /\ invoices' = {} /\ notes' = {} => Held' = {}
BY DEF Held, InvoicesHeld, NotesHeld

LEMMA CustomerIds ==
  ASSUME TypeInv, customer.id # 0
  PROVE  customer.id \in 1..MaxCustomers
BY MigrationAssumption DEF TypeInv, CustomerInv

LEMMA RowTypes ==
  ASSUME AccountInv, NEW row \in Rows
  PROVE  row \in AnyRow /\ row.kind \in {"payroll", "charge"}
<1>1. row \in AnyRow
  BY SourceTypes DEF Rows, AnyRow
<1> QED BY <1>1 DEF AnyRow, Row

LEMMA RowsAreRows ==
  ASSUME TypeInv
  PROVE  \A row \in Rows : row.kind # "credit" /\ row # Credit
<1>1. \A row \in Rows : row.kind \in {"payroll", "charge"}
  BY RowTypes DEF TypeInv
<1>2. Credit.kind = "credit"
  BY DEF Credit
<1> QED BY <1>1, <1>2

LEMMA CreditLedger ==
  ASSUME TypeInv, TypeInv', LedgerInv, NEW m \in Migrator, Commits(m), WriteCredit(m)
  PROVE  LedgerInv'
<1> DEFINE doc == Note(customer.id, m)
<1>1. /\ Book(doc) /\ notes' = notes \cup {m} /\ invoices' = invoices /\ customer' = customer
      /\ UNCHANGED <<source, customer, removals>>
  BY DEF WriteCredit
<1>2. m \in Actor /\ Writing(m) /\ Item(m).kind = "credit" /\ Mine(m)
  BY DEF Commits, WriteCredit, Writes, Doing, Item, Writing, At, Inside, Actor
<1>3. m \notin notes /\ customer.id # 0
  BY <1>2 DEF TypeInv, JobsInv, JobKnows, Working, Writing, Mine
<1>4. doc = <<customer.id, Credit, m>>
  BY DEF Note
<1>5. doc \notin Held
  <2>1. \A i \in invoices : i.row # Credit
    BY RowsAreRows DEF TypeInv, AccountInv
  <2>2. \A i \in invoices : doc # <<customer.id, i.row, i.by>>
    BY <1>4, <2>1
  <2>3. \A n \in notes : doc # <<customer.id, Credit, n>>
    BY <1>3, <1>4
  <2> QED BY <2>2, <2>3, HeldOf
<1>6. Held' = Held \cup {doc}
  BY <1>1 DEF Held, InvoicesHeld, NotesHeld
<1>7. doc \in Document /\ doc[1] = customer.id
  <2>1. customer.id \in 1..MaxCustomers
    BY <1>3, CustomerIds
  <2> QED BY <1>2, <1>4, <2>1 DEF Document
<1> HIDE DEF doc
<1> QED BY <1>1, <1>5, <1>6, <1>7, NewIsBooked

LEMMA StoreLedger ==
  ASSUME TypeInv, TypeInv', LedgerInv, NEW a \in Actor, Stores(a)
  PROVE  LedgerInv'
<1> DEFINE i == InvoiceBy(a, Item(a))
           doc == InvoiceOf(customer.id, i)
<1>1. /\ i.row = Item(a) /\ i.by = a /\ Item(a) \in Rows
      /\ \A j \in invoices : ~ (j.row = Item(a) /\ j.by = a)
  BY StoresEffect
<1>2. /\ invoices' = invoices \cup {i} /\ notes' = notes /\ Book(doc) /\ customer' = customer
      /\ UNCHANGED <<source, customer, removals>>
  BY DEF Stores
<1> HIDE DEF i
<1>3. doc = <<customer.id, Item(a), a>>
  BY <1>1 DEF InvoiceOf
<1>4. doc \notin Held
  <2>1. \A j \in invoices : doc # <<customer.id, j.row, j.by>>
    BY <1>1, <1>3
  <2>2. \A n \in notes : doc # <<customer.id, Credit, n>>
    BY <1>1, <1>3, RowsAreRows
  <2> QED BY <2>1, <2>2, HeldOf
<1>5. Held' = Held \cup {doc}
  BY <1>2 DEF Held, InvoicesHeld, NotesHeld
<1>6. doc \in Document /\ doc[1] = customer.id
  <2>1. customer.id # 0
    BY DEF TypeInv, JobsInv, JobKnows, Working, Stores, Commits, At, Mine
  <2>2. customer.id \in 1..MaxCustomers
    BY <2>1, CustomerIds
  <2> QED BY <1>1, <1>3, <2>2 DEF Document
<1> HIDE DEF doc
<1> QED BY <1>2, <1>4, <1>5, <1>6, NewIsBooked

LEMMA SubscriptionLedger ==
  ASSUME TypeInv, LedgerInv, NEW m \in Migrator, WriteSubscription(m)
  PROVE  LedgerInv'
<1>1. invoices' = {Linked(i) : i \in invoices} /\ notes' = notes
      /\ UNCHANGED <<source, customer, ledger, removals>>
  BY SubscriptionEffect DEF WriteSubscription
<1>2. \A i \in invoices : InvoiceOf(customer.id, Linked(i)) = InvoiceOf(customer.id, i)
  BY LinkedType DEF InvoiceOf, TypeInv, AccountInv
<1>3. InvoicesHeld' = InvoicesHeld
  <2> HIDE DEF Linked
  <2> QED BY <1>1, <1>2 DEF InvoicesHeld
<1>4. Held' = Held
  BY <1>1, <1>3 DEF Held, NotesHeld
<1> QED BY <1>1, <1>4, HeldStays

\* A customer that has come into being has nothing yet.
LEMMA InsertLedger ==
  ASSUME TypeInv, RemovalsInv, LedgerInv, NEW a \in Actor, Inserts(a)
  PROVE  LedgerInv'
<1>1. /\ customer.id = 0 /\ customer'.id = created + 1 /\ created \in Nat
      /\ invoices = {} /\ notes = {} /\ invoices' = {} /\ notes' = {}
      /\ ledger' = ledger /\ removal' = removal /\ overtaken' = overtaken /\ Document' = Document
  BY SameDocuments DEF Inserts, TypeInv, CustomerInv, removals
<1>2. Held = {} /\ Held' = {}
  BY <1>1, NoHeld
<1>3. created + 1 \notin overtaken
  BY <1>1 DEF RemovalsInv
<1>4. \A x \in Remover : removal[x].id # created + 1
  <2>1. \A x \in Remover : removal[x] \in Removal /\ removal[x].id <= created
    BY DEF RemovalsInv, RemovalKnows
  <2>2. \A t \in Removal : t.id \in Nat
    BY DEF Removal
  <2> QED BY <1>1, <2>1, <2>2
<1>5. LedgerFollowsWriters'
  BY <1>1, <1>2 DEF LedgerInv, LedgerFollowsWriters, OfRequest
<1> QED BY <1>1, <1>3, <1>4, <1>5 DEF LedgerInv, ReadIsHeld

\* What a rollback deletes and has read it has reversed; if there was more to
\* delete, the customer is overtaken.
LEMMA CommitLedger ==
  ASSUME TypeInv, RemovalsInv, LedgerInv, NEW x \in Remover, CommitRollback(x)
  PROVE  LedgerInv'
<1> DEFINE read == removal[x].read
<1>1. /\ removal[x].pc = "delete" /\ customer.id = removal[x].id /\ Mirror(removal[x].found)
      /\ customer'.id = 0 /\ invoices' = {} /\ notes' = {} /\ source' = source /\ created' = created
      /\ overtaken' = IF Held \subseteq read THEN overtaken ELSE overtaken \cup {customer.id}
      /\ removal' = [removal EXCEPT ![x] = Resting]
  BY DEF CommitRollback, NoCustomer, Advance
<1>2. Held' = {} /\ Document' = Document
  BY <1>1, NoHeld, SameDocuments
<1>3. \A d \in Document :
        ledger'[d] = IF d \in read /\ OfRequest(d) THEN ledger[d] - removal[x].found[d] ELSE ledger[d]
  BY <1>1, MirrorType
<1>4. read \subseteq Held /\ \A d \in read : OfRequest(d) => removal[x].found[d] = 1
  BY <1>1 DEF LedgerInv, ReadIsHeld
<1>5. \A d \in Held : d[1] = customer.id /\ (OfRequest(d) => ledger[d] = 1)
  BY HeldTypes DEF LedgerInv, LedgerFollowsWriters
<1> HIDE DEF read
<1>6. ASSUME NEW d \in Document, OfRequest(d), d[1] \notin overtaken'
      PROVE  ledger'[d] = 0
  <2>1. CASE d \in read
    <3>1. ledger[d] = 1 /\ removal[x].found[d] = 1
      BY <1>4, <1>5, <1>6, <2>1
    <3>2. ledger'[d] = ledger[d] - removal[x].found[d]
      BY <1>3, <1>6, <2>1
    <3> QED BY <3>1, <3>2
  <2>2. CASE d \notin read
    <3>1. ledger'[d] = ledger[d]
      BY <1>3, <2>2
    <3>2. d \notin Held
      BY <1>1, <1>5, <1>6, <2>2
    <3>3. d[1] \notin overtaken
      BY <1>1, <1>6
    <3> QED BY <1>6, <3>1, <3>2, <3>3 DEF LedgerInv, LedgerFollowsWriters
  <2> QED BY <2>1, <2>2
<1>7. LedgerFollowsWriters'
  BY <1>2, <1>6 DEF LedgerFollowsWriters, OfRequest
<1>8. customer'.id \notin overtaken'
  <2>1. removal[x].id # 0 /\ 0 \notin overtaken
    <3>1. overtaken \in SUBSET (1..created) /\ created \in Nat
      BY DEF RemovalsInv, TypeInv, CustomerInv
    <3>2. removal[x].id # 0
      BY <1>1 DEF RemovalsInv, RemovalKnows
    <3> QED BY <3>1, <3>2
  <2> QED BY <1>1, <2>1
<1>9. \A y \in Remover : ReadIsHeld(y)'
  <2>1. removal \in [Remover -> Removal] /\ Resting.pc = "idle"
    BY RestingType DEF RemovalsInv
  <2>2. ASSUME NEW y \in Remover, removal'[y].pc # "idle"
        PROVE  removal'[y].id # 0
    <3>1. y # x /\ removal'[y] = removal[y]
      BY <1>1, <2>1, <2>2
    <3> QED BY <2>2, <3>1 DEF RemovalsInv, RemovalKnows
  <2> QED BY <1>1, <2>2 DEF ReadIsHeld
<1> QED BY <1>7, <1>8, <1>9 DEF LedgerInv

\* Of the customer that is there a rollback that comes second touches nothing.
LEMMA SecondLedger ==
  ASSUME TypeInv, RemovalsInv, LedgerInv, NEW x \in Remover, CommitAfterAnother(x)
  PROVE  LedgerInv'
<1> DEFINE read == removal[x].read
<1>1. /\ removal[x].pc = "delete" /\ customer.id # removal[x].id /\ Mirror(removal[x].found)
      /\ UNCHANGED <<source, customer, invoices, notes>>
      /\ overtaken' = overtaken \cup {removal[x].id}
      /\ removal' = [removal EXCEPT ![x] = Resting]
  BY DEF CommitAfterAnother, Advance
<1>2. Held' = Held /\ Document' = Document
  BY <1>1, SameDocuments DEF Held, InvoicesHeld, NotesHeld
<1>3. \A d \in Document :
        ledger'[d] = IF d \in read /\ OfRequest(d) THEN ledger[d] - removal[x].found[d] ELSE ledger[d]
  BY <1>1, MirrorType
<1>4. \A d \in read : d[1] = removal[x].id
  BY <1>1 DEF RemovalsInv, RemovalKnows
<1>5. \A d \in Held : d \in Document /\ d[1] = customer.id
  BY HeldTypes
<1> HIDE DEF read
<1>6. \A d \in Document : d[1] # removal[x].id => ledger'[d] = ledger[d]
  BY <1>3, <1>4
<1>7. \A d \in Held : OfRequest(d) => ledger'[d] = 1
  BY <1>1, <1>5, <1>6 DEF LedgerInv, LedgerFollowsWriters
<1>8. \A d \in Document \ Held : OfRequest(d) /\ d[1] \notin overtaken' => ledger'[d] = 0
  BY <1>1, <1>6 DEF LedgerInv, LedgerFollowsWriters
<1>9. LedgerFollowsWriters'
  BY <1>2, <1>7, <1>8 DEF LedgerFollowsWriters, OfRequest
<1>10. \A y \in Remover : ReadIsHeld(y)'
  <2>1. removal \in [Remover -> Removal] /\ Resting.pc = "idle"
    BY RestingType DEF RemovalsInv
  <2>2. \A y \in Remover : removal'[y] = removal[y] \/ removal'[y].pc = "idle"
    BY <1>1, <2>1
  <2> QED BY <1>1, <1>2, <2>2 DEF LedgerInv, ReadIsHeld, OfRequest
<1> QED BY <1>1, <1>9, <1>10 DEF LedgerInv

\* While it reads, and when it throws, a rollback leaves everything as it is.
LEMMA ReadingLedger ==
  ASSUME TypeInv, RemovalsInv, LedgerInv, NEW x \in Remover,
         BeginRollback(x) \/ ReverseEntries(x) \/ RollbackThrows(x)
  PROVE  LedgerInv'
<1>1. /\ UNCHANGED <<source, customer, invoices, notes, ledger, overtaken>>
      /\ removal \in [Remover -> Removal]
  BY DEF BeginRollback, ReverseEntries, RollbackThrows, account, RemovalsInv
<1>2. Held' = Held /\ Document' = Document
  BY <1>1, SameDocuments DEF Held, InvoicesHeld, NotesHeld
<1>3. LedgerFollowsWriters'
  BY <1>1, <1>2 DEF LedgerInv, LedgerFollowsWriters, OfRequest
<1>4. ASSUME NEW t, Advance(x, t),
             t.pc # "idle" /\ t.id = customer.id =>
               /\ t.read \subseteq Held
               /\ t.pc = "delete" => \A d \in t.read : OfRequest(d) => t.found[d] = 1
      PROVE  \A y \in Remover : ReadIsHeld(y)'
  <2>1. removal'[x] = t /\ \A y \in Remover \ {x} : removal'[y] = removal[y]
    BY <1>1, <1>4 DEF Advance
  <2>2. ReadIsHeld(x)'
    BY <1>1, <1>2, <1>4, <2>1 DEF ReadIsHeld, OfRequest
  <2>3. \A y \in Remover \ {x} : ReadIsHeld(y)'
    BY <1>1, <1>2, <2>1 DEF LedgerInv, ReadIsHeld, OfRequest
  <2> QED BY <2>2, <2>3
<1>5. CASE BeginRollback(x)
  <2> DEFINE t == [pc |-> "reverse", id |-> customer.id, read |-> InvoicesHeld, found |-> <<>>]
  <2>1. Advance(x, t) /\ t.pc = "reverse" /\ t.read \subseteq Held
    BY <1>5 DEF BeginRollback, Held
  <2> HIDE DEF t
  <2>2. \A y \in Remover : ReadIsHeld(y)'
    BY <1>4, <2>1
  <2> QED BY <1>1, <1>3, <2>2 DEF LedgerInv
<1>6. CASE ReverseEntries(x)
  <2> DEFINE docs == removal[x].read \cup (IF customer.id = removal[x].id THEN NotesHeld ELSE {})
             f == [d \in {d \in docs : OfRequest(d)} |-> ledger[d]]
             t == [removal[x] EXCEPT !.pc = "delete", !.read = docs, !.found = f]
  <2>1. Advance(x, t) /\ removal[x].pc = "reverse"
    BY <1>6 DEF ReverseEntries
  <2>2. removal[x].id = customer.id => docs \subseteq Held
    BY <2>1 DEF LedgerInv, ReadIsHeld, Held
  <2>3. \A d \in docs : OfRequest(d) => f[d] = ledger[d]
    OBVIOUS
  <2>4. \A d \in Held : OfRequest(d) => ledger[d] = 1
    BY DEF LedgerInv, LedgerFollowsWriters
  <2>5. removal[x] \in Removal
    BY <1>1
  <2> HIDE DEF docs, f
  <2>6. t.id = removal[x].id /\ t.read = docs /\ t.found = f
    BY <2>5 DEF Removal
  <2> HIDE DEF t
  <2>7. \A y \in Remover : ReadIsHeld(y)'
    BY <1>4, <2>1, <2>2, <2>3, <2>4, <2>6
  <2> QED BY <1>1, <1>3, <2>7 DEF LedgerInv
<1>7. CASE RollbackThrows(x)
  <2>1. Advance(x, Resting) /\ Resting.pc = "idle"
    BY <1>7, RestingType DEF RollbackThrows
  <2>2. \A y \in Remover : ReadIsHeld(y)'
    BY <1>4, <2>1
  <2> QED BY <1>1, <1>3, <2>2 DEF LedgerInv
<1> QED BY <1>5, <1>6, <1>7

LEMMA StepLedger ==
  ASSUME TypeInv, TypeInv', RemovalsInv, LedgerInv, [Next]_vars
  PROVE  LedgerInv'
<1>1. CASE UNCHANGED <<source, customer, invoices, notes, ledger, removals>>
  <2>1. Held' = Held
    BY <1>1 DEF Held, InvoicesHeld, NotesHeld
  <2> QED BY <1>1, <2>1, HeldStays
<1>2. CASE UNCHANGED vars
  BY <1>1, <1>2 DEF vars, removals
<1>3. ASSUME NEW a \in Actor, ActorStep(a)
      PROVE  LedgerInv'
  <2>1. \/ UNCHANGED <<source, customer, invoices, notes, ledger, removals>>
        \/ Inserts(a) \/ Stores(a)
        \/ Commits(a) /\ a \in Migrator /\ (WriteCredit(a) \/ WriteSubscription(a))
    BY <1>3 DEF ActorStep, Still, account, Skips, Resolves, Finishes, StoreConfig
  <2> QED BY <1>1, <2>1, InsertLedger, StoreLedger, CreditLedger, SubscriptionLedger
<1>4. ASSUME NEW x \in Remover, RollbackStep(x)
      PROVE  LedgerInv'
  BY <1>4, CommitLedger, SecondLedger, ReadingLedger DEF RollbackStep
<1> QED BY <1>2, <1>3, <1>4, EveryStep

\* What a request booked for the customer stands in the books once: during a
\* migration, after one that failed half-way, next to scripts, and while a
\* rollback reads.  After a rollback nothing does, unless the customer's data
\* changed between its reading and its deleting.
THEOREM WritersLedger == Spec => []LedgerFollowsWriters
<1>1. Init => LedgerInv
  <2> SUFFICES ASSUME Init PROVE LedgerInv
    OBVIOUS
  <2>1. /\ invoices = {} /\ notes = {} /\ ledger = [d \in Document |-> 0]
        /\ overtaken = {} /\ \A x \in Remover : removal[x].pc = "idle"
    BY RestingType DEF Init
  <2>2. Held = {}
    BY <2>1, NoHeld
  <2>3. LedgerFollowsWriters
    BY <2>1, <2>2 DEF LedgerFollowsWriters
  <2> QED BY <2>1, <2>3 DEF LedgerInv, ReadIsHeld
<1>2. LedgerInv => LedgerFollowsWriters
  BY DEF LedgerInv
<1> QED BY <1>1, <1>2, StepLedger, RemovalTypes, PTL DEF Spec

-----------------------------------------------------------------------------
(* Layer 4                                                                   *)

\* What is done stays done as long as the customer stays.
LEMMA DoneStays ==
  ASSUME TypeInv, NEW item, Done(item), source' = source,
         notes \subseteq notes', config => config',
         subscriptions' \in Nat, subscriptions' >= subscriptions,
         \A i \in invoices : \E j \in invoices' : j.row = i.row
  PROVE  Done(item)'
<1>1. subscriptions \in Nat
  BY DEF TypeInv, AccountInv
<1>2. Mapped(item)' = Mapped(item)
  BY DEF Mapped
<1>3. InvoicesOf(item) # {} => InvoicesOf(item)' # {}
  BY DEF InvoicesOf
<1> QED BY <1>1, <1>2, <1>3 DEF Done

\* The account of the customer only ever grows, except by a rollback.
Grows ==
  /\ notes \subseteq notes' /\ (config => config') /\ subscriptions' >= subscriptions
  /\ \A i \in invoices : \E j \in invoices' : j.row = i.row /\ (i.linked => j.linked)
  /\ source' = source

LEMMA ActorGrows ==
  ASSUME TypeInv, NEW a \in Actor, ActorStep(a)
  PROVE  Grows
<1>0. subscriptions \in Nat /\ config \in BOOLEAN /\ invoices \in SUBSET InvoiceRecord
  BY DEF TypeInv, AccountInv
<1>1. CASE UNCHANGED <<source, invoices, notes, config, subscriptions>>
  BY <1>0, <1>1 DEF Grows
<1>2. CASE a \in Migrator /\ WriteCredit(a)
  BY <1>0, <1>2 DEF WriteCredit, Grows
<1>3. CASE StoreConfig(a)
  BY <1>0, <1>3 DEF StoreConfig, Grows
<1>4. CASE Stores(a)
  BY <1>0, <1>4 DEF Stores, Grows
<1>5. CASE a \in Migrator /\ WriteSubscription(a)
  <2>1. /\ invoices' = {Linked(i) : i \in invoices} /\ subscriptions' = subscriptions + 1
        /\ UNCHANGED <<source, customer, created, notes, config, ledger>>
    BY <1>5, SubscriptionEffect
  <2>2. \A i \in invoices : /\ Linked(i) \in invoices' /\ Linked(i).row = i.row
                            /\ (i.linked => Linked(i).linked)
    BY <1>0, <2>1, LinkedType
  <2> HIDE DEF Linked
  <2> QED BY <1>0, <2>1, <2>2 DEF Grows
<1> QED BY <1>1, <1>2, <1>3, <1>4, <1>5
    DEF ActorStep, Still, account, Skips, Resolves, Finishes, Inserts

LEMMA DoneGrows ==
  ASSUME TypeInv, TypeInv', Grows, NEW item, Done(item)
  PROVE  Done(item)'
<1>1. subscriptions' \in Nat
  BY DEF TypeInv, AccountInv
<1> QED BY <1>1, DoneStays DEF Grows

LEMMA RowsAreItems ==
  ASSUME AccountInv, NEW m \in Migrator, NEW row \in Rows
  PROVE  \E n \in 1..Len(Work(m)) : n < Len(Work(m)) /\ Work(m)[n] = row
<1> DEFINE P == Len(source.payrolls)
           C == Len(source.charges)
<1>1. Work(m) = RequestItems
  BY DEF Work, RequestItems, Credit
<1>2. /\ P \in Nat /\ C \in Nat /\ Len(RequestItems) = P + C + 3
      /\ \A k \in 1..P : RequestItems[k + 2] = source.payrolls[k]
      /\ \A k \in 1..C : RequestItems[k + P + 2] = source.charges[k]
  BY RequestWork
<1>3. \/ \E k \in 1..P : row = source.payrolls[k]
      \/ \E k \in 1..C : row = source.charges[k]
  BY SourceTypes DEF Rows
<1> HIDE DEF P, C
<1>4. CASE \E k \in 1..P : row = source.payrolls[k]
  <2>1. PICK k \in 1..P : row = source.payrolls[k]
    BY <1>4
  <2>2. k + 2 \in 1..(P + C + 3) /\ k + 2 < P + C + 3
    BY <1>2
  <2> QED BY <1>1, <1>2, <2>1, <2>2
<1>5. CASE \E k \in 1..C : row = source.charges[k]
  <2>1. PICK k \in 1..C : row = source.charges[k]
    BY <1>5
  <2>2. k + P + 2 \in 1..(P + C + 3) /\ k + P + 2 < P + C + 3
    BY <1>2
  <2> QED BY <1>1, <1>2, <2>1, <2>2
<1> QED BY <1>3, <1>4, <1>5

LEMMA RequestWorkStays ==
  ASSUME NEW m \in Migrator, source' = source
  PROVE  Work(m)' = Work(m)
BY DEF Work

LEMMA OthersProgress ==
  ASSUME TypeInv, TypeInv', Grows, NEW m \in Migrator, Progress(m), job'[m] = job[m],
         customer'.id = customer.id \/ customer'.id > job[m].id
  PROVE  Progress(m)'
<1>1. Work(m)' = Work(m)
  BY RequestWorkStays DEF Grows
<1>2. Mine(m)' => Mine(m)
  <2>1. m \in Actor /\ job[m].id \in Nat /\ customer'.id \in Nat
    BY DEF TypeInv, JobsInv, Job, CustomerInv, Actor
  <2> QED BY <2>1 DEF Mine
<1>3. \A item : Done(item) => Done(item)'
  BY DoneGrows
<1> QED BY <1>1, <1>2, <1>3 DEF Progress

LEMMA MoverProgress ==
  ASSUME TypeInv, TypeInv', Grows, NEW m \in Migrator, Progress(m), Advances(m), Inside(m),
         customer'.id = customer.id, NEW now, now = Item(m), Mine(m) => Done(now)'
  PROVE  Progress(m)'
<1>1. Work(m)' = Work(m)
  BY RequestWorkStays DEF Grows
<1>2. /\ m \in Actor /\ job[m].at \in Nat /\ job[m].pc \in {"look", "write"} /\ ~job'[m].done
      /\ job'[m].at = job[m].at + 1 /\ job'[m].id = job[m].id
  BY DEF TypeInv, JobsInv, Job, Actor, Advances, Keeps
<1>3. Mine(m)' = Mine(m)
  BY <1>2 DEF Mine
<1>4. \A item : Done(item) => Done(item)'
  BY DoneGrows
<1>5. ASSUME Mine(m), NEW n \in 1..Len(Work(m)), n < job[m].at + 1, NEW item, item = Work(m)[n]
      PROVE  Done(item)'
  <2>1. Len(Work(m)) \in Nat
    BY <1>2, WorkItem DEF TypeInv
  <2>2. CASE n = job[m].at
    BY <1>5, <2>2 DEF Item
  <2>3. CASE n < job[m].at
    <3>1. Done(item)
      BY <1>2, <1>5, <2>3 DEF Progress
    <3> QED BY <1>4, <3>1
  <2> QED BY <1>2, <1>5, <2>1, <2>2, <2>3
<1>6. ASSUME Mine(m), NEW n \in 1..Len(Work(m)), n < job[m].at + 1
      PROVE  Done(Work(m)[n])'
  BY <1>1, <1>5, <1>6
<1> QED BY <1>1, <1>2, <1>3, <1>6 DEF Progress

\* What has just been written is done.
LEMMA WrittenIsDone ==
  ASSUME TypeInv, TypeInv', NEW a \in Actor, Commits(a), NEW item, item = Item(a),
         \/ a \in Migrator /\ WriteCredit(a)
         \/ StoreConfig(a)
         \/ Stores(a)
         \/ a \in Migrator /\ WriteSubscription(a)
  PROVE  Done(item)'
<1>0. subscriptions \in Nat
  BY DEF TypeInv, AccountInv
<1>1. CASE a \in Migrator /\ WriteCredit(a)
  <2>1. Item(a).kind = "credit" /\ notes' # {}
    BY <1>0, <1>1 DEF WriteCredit, Writes, Doing, Item
  <2> QED BY <2>1 DEF Done
<1>2. CASE StoreConfig(a)
  <2>1. Item(a).kind = "surcharge" /\ config'
    BY <1>2 DEF StoreConfig, Writes, Doing, Item
  <2> QED BY <2>1 DEF Done
<1>3. CASE Stores(a)
  <2>1. InvoiceBy(a, Item(a)) \in invoices' /\ InvoiceBy(a, Item(a)).row = Item(a)
        /\ Item(a).kind \in {"payroll", "charge"}
    BY <1>3, StoresEffect DEF Stores, RowItem
  <2>2. \E i \in invoices' : i.row = Item(a)
    BY <2>1
  <2> QED BY <2>1, <2>2 DEF Done, InvoicesOf
<1>4. CASE a \in Migrator /\ WriteSubscription(a)
  <2>1. Item(a).kind = "subscription" /\ subscriptions' > 0
    BY <1>0, <1>4 DEF WriteSubscription, Writes, Doing, Item
  <2> QED BY <2>1 DEF Done
<1> QED BY <1>1, <1>2, <1>3, <1>4

LEMMA StepProgress ==
  ASSUME TypeInv, TypeInv', NEW a \in Actor, ActorStep(a), NEW m \in Migrator, Progress(m)
  PROVE  Progress(m)'
<1>0. /\ m \in Actor /\ job[m].id \in Nat /\ job[m].id <= created /\ created \in Nat
      /\ job[m].at \in Nat /\ Grows
  BY ActorGrows DEF TypeInv, JobsInv, JobKnows, Job, CustomerInv, Actor
<1>1. customer' = customer \/ Inserts(a)
  BY DEF ActorStep, Still, account, Skips, Resolves, Finishes, WriteCredit, StoreConfig, Stores,
         WriteSubscription
<1>2. Inserts(a) => customer'.id > job[m].id
  BY <1>0 DEF Inserts
<1>3. Others(a)
  BY DEF ActorStep, Leaves, Starts, Skips, Resolves, Finishes, Inserts, Stores, Commits, Advances, Keeps
<1>4. CASE m # a
  BY <1>0, <1>1, <1>2, <1>3, <1>4, OthersProgress DEF Others
<1>5. CASE m = a /\ Leaves(a)
  BY <1>5 DEF Leaves, Progress
<1>6. CASE m = a /\ \E id \in Nat : Starts(a, id)
  <2>1. job'[m].at = 1 /\ ~job'[m].done
    BY <1>6 DEF Starts
  <2> QED BY <2>1 DEF Progress
<1>7. CASE m = a /\ Skips(a)
  <2>1. /\ Advances(m) /\ Inside(m) /\ customer' = customer
        /\ (Mine(m) => Done(Item(m)))
    BY <1>7 DEF Skips, Still, account
  <2>2. ASSUME NEW item, item = Item(m), Mine(m)
        PROVE  Done(item)'
    <3>1. Done(item)
      BY <2>1, <2>2
    <3> QED BY <1>0, <3>1, DoneGrows
  <2> QED BY <1>0, <2>1, <2>2, MoverProgress
<1>8. CASE m = a /\ Resolves(a)
  <2>1. /\ Keeps(m) /\ job'[m].at = job[m].at /\ customer' = customer
        /\ job[m].pc \in {"look", "write"} /\ ~job'[m].done /\ job'[m].id = job[m].id
    BY <1>8 DEF Resolves, Keeps, Still, account
  <2>2. Work(m)' = Work(m) /\ Mine(m)' = Mine(m)
    BY <1>0, <2>1, RequestWorkStays DEF Grows, Mine
  <2>3. \A item : Done(item) => Done(item)'
    BY <1>0, DoneGrows
  <2>4. job[m].pc \in {"look", "write"} /\ Mine(m) =>
          \A n \in 1..Len(Work(m)) : n < job[m].at => Done(Work(m)[n])
    BY DEF Progress
  <2> QED BY <2>1, <2>2, <2>3, <2>4 DEF Progress
<1>9. CASE m = a /\ Finishes(a)
  <2>1. /\ job[m].pc = "look" /\ ~Inside(m) /\ customer' = customer
        /\ job'[m].pc = "idle" /\ job'[m].id = job[m].id
    BY <1>9 DEF Finishes, Still, account
  <2>2. Work(m)' = Work(m) /\ Mine(m)' = Mine(m)
    BY <1>0, <2>1, RequestWorkStays DEF Grows, Mine
  <2>3. \A item : Done(item) => Done(item)'
    BY <1>0, DoneGrows
  <2>4. \A n \in 1..Len(Work(m)) : n < job[m].at
    <3>1. Len(Work(m)) \in Nat
      BY <1>0, WorkItem DEF TypeInv
    <3> QED BY <1>0, <2>1, <3>1 DEF Inside
  <2>5. Mine(m) => \A n \in 1..Len(Work(m)) : Done(Work(m)[n])
    BY <2>1, <2>4 DEF Progress
  <2> QED BY <2>1, <2>2, <2>3, <2>5 DEF Progress
<1>10. CASE /\ m = a /\ Commits(a)
            /\ \/ WriteCredit(a) \/ StoreConfig(a) \/ Stores(a) \/ WriteSubscription(a)
  <2>1. Advances(m) /\ Inside(m) /\ customer'.id = customer.id
    BY <1>10 DEF Commits, WriteCredit, StoreConfig, Stores, WriteSubscription
  <2>2. \A item : item = Item(m) => Done(item)'
    BY <1>10, WrittenIsDone
  <2> QED BY <1>0, <2>1, <2>2, MoverProgress
<1>11. Stores(a) => Commits(a)
  BY DEF Stores
<1>12. customer.id \in Nat /\ created + 1 \in Nat
  BY <1>0 DEF TypeInv, CustomerInv
<1> QED BY <1>4, <1>5, <1>6, <1>7, <1>8, <1>9, <1>10, <1>11, <1>12 DEF ActorStep, Inserts

LEMMA StepDrafts ==
  ASSUME TypeInv, DraftsInv, NEW a \in Actor, ActorStep(a)
  PROVE  DraftsInv'
<1>1. CASE invoices' = invoices
  BY <1>1 DEF DraftsInv, Upcoming
<1>2. CASE Stores(a)
  <2> DEFINE i == InvoiceBy(a, Item(a))
  <2>1. /\ Item(a) \in AnyRow /\ StatusBy(a, Item(a)) # Skip /\ i.row = Item(a)
        /\ i.status = StatusBy(a, Item(a)).status
    <3>1. Item(a) \in AnyRow /\ StatusBy(a, Item(a)) # Skip
      BY <1>2, StoresEffect
    <3>2. i.row = Item(a) /\ i.status = StatusBy(a, Item(a)).status
      BY <3>1, InvoiceTypes
    <3> QED BY <3>1, <3>2
  <2>2. invoices' = invoices \cup {i}
    BY <1>2 DEF Stores
  <2> HIDE DEF i
  <2>3. Upcoming(i.row) => i.status = "draft"
    BY <2>1, UpcomingIsDraft
  <2> QED BY <2>2, <2>3 DEF DraftsInv, Upcoming
<1>3. CASE a \in Migrator /\ WriteSubscription(a)
  <2>1. invoices' = {Linked(i) : i \in invoices} /\ invoices \in SUBSET InvoiceRecord
    BY <1>3, SubscriptionEffect DEF TypeInv, AccountInv
  <2>2. \A i \in invoices : Linked(i).row = i.row /\ Linked(i).status = i.status
    BY <2>1, LinkedType
  <2> HIDE DEF Linked
  <2> QED BY <2>1, <2>2 DEF DraftsInv, Upcoming
<1> QED BY <1>1, <1>2, <1>3, InvoicesChange

LEMMA UpcomingIsMapped ==
  ASSUME NEW row \in AnyRow, Upcoming(row)
  PROVE  Mapped(row)
<1>1. /\ row.kind = "payroll" /\ row.status = "upcoming"
      /\ row.deleted = FALSE /\ row.failure = FALSE
  BY DEF Upcoming, AnyRow, Row
<1>2. PayrollStatus(row) = Unpaid["upcoming"] /\ Unpaid["upcoming"].status = "draft"
  BY <1>1, Mappings DEF PayrollStatus
<1>3. Skip.status = "none"
  BY DEF Skip
<1> QED BY <1>1, <1>2, <1>3 DEF Mapped

LEMMA StepLinked ==
  ASSUME TypeInv, DraftsInv, LinkedInv, \A m \in Migrator : Progress(m),
         NEW a \in Actor, ActorStep(a)
  PROVE  LinkedInv'
<1>0. Grows /\ Rows' = Rows
  BY ActorGrows DEF Grows, Rows
<1>1. CASE subscriptions' = subscriptions
  <2>1. ASSUME subscriptions > 0, NEW row \in Rows, Upcoming(row)
        PROVE  \E j \in invoices' : j.row = row /\ j.linked
    <3>1. PICK i \in invoices : i.row = row /\ i.linked
      BY <2>1 DEF LinkedInv, InvoicesOf
    <3> QED BY <1>0, <3>1 DEF Grows
  <2> QED BY <1>0, <1>1, <2>1 DEF LinkedInv, InvoicesOf, Upcoming
<1>2. CASE Commits(a) /\ a \in Migrator /\ WriteSubscription(a)
  <2>1. invoices' = {Linked(i) : i \in invoices} /\ invoices \in SUBSET InvoiceRecord
    BY <1>2, SubscriptionEffect DEF TypeInv, AccountInv
  <2>2. /\ At(a, "write") /\ Inside(a) /\ Mine(a) /\ Item(a).kind = "subscription"
    BY <1>2 DEF WriteSubscription, Writes, Doing, Item, Commits
  <2>3. job[a].at = Len(Work(a))
    <3>1. job[a].at \in 1..Len(Work(a))
      BY <2>2, ItemType DEF At
    <3>2. Work(a) = RequestItems
      BY <1>2 DEF Work, RequestItems, Credit
    <3> QED BY <2>2, <3>1, <3>2, RequestItemOf DEF Item, TypeInv
  <2>4. ASSUME NEW row \in Rows, Upcoming(row)
        PROVE  \E j \in invoices' : j.row = row /\ j.linked
    <3>1. PICK n \in 1..Len(Work(a)) : n < Len(Work(a)) /\ Work(a)[n] = row
      BY <1>2, RowsAreItems DEF TypeInv
    <3>2. Done(row)
      BY <1>2, <2>2, <2>3, <3>1 DEF Progress, At
    <3>3. row \in AnyRow /\ row.kind \in {"payroll", "charge"} /\ Mapped(row)
      BY <2>4, RowTypes, UpcomingIsMapped DEF TypeInv
    <3>4. PICK i \in invoices : i.row = row
      BY <3>2, <3>3 DEF Done, InvoicesOf
    <3>5. i.status = "draft"
      BY <2>4, <3>4 DEF DraftsInv
    <3>6. Linked(i) \in invoices' /\ Linked(i).row = row /\ Linked(i).linked
      BY <2>1, <3>4, <3>5, LinkedType
    <3> QED BY <3>6
  <2> QED BY <1>0, <2>4 DEF LinkedInv, InvoicesOf, Upcoming
<1>3. subscriptions' = subscriptions \/ (Commits(a) /\ a \in Migrator /\ WriteSubscription(a))
  BY DEF ActorStep, Still, account, Skips, Resolves, Finishes, Inserts, WriteCredit, StoreConfig, Stores
<1> QED BY <1>1, <1>2, <1>3

LEMMA EmptiedComplete ==
  ASSUME TypeInv, Emptied
  PROVE  CompleteInv'
<1>1. /\ invoices' = {} /\ subscriptions' = 0 /\ customer'.id = 0 /\ job' = job
  BY DEF Emptied, NoCustomer
<1>2. ASSUME NEW m \in Migrator
      PROVE  Progress(m)'
  <2>1. job[m].pc \in {"look", "write"} \/ job[m].done => job[m].id # 0
    BY DEF TypeInv, JobsInv, JobKnows, Working, Actor
  <2> QED BY <1>1, <2>1 DEF Progress, Mine
<1> QED BY <1>1, <1>2 DEF CompleteInv, DraftsInv, LinkedInv

LEMMA ApartComplete ==
  ASSUME TypeInv, TypeInv', CompleteInv, Apart
  PROVE  CompleteInv'
<1>1. UNCHANGED <<source, customer, invoices, notes, config, subscriptions, job>>
  BY DEF Apart
<1>2. DraftsInv' /\ LinkedInv'
  BY <1>1 DEF CompleteInv, DraftsInv, LinkedInv, Rows, Upcoming, InvoicesOf
<1>3. Grows
  <2>1. subscriptions \in Nat
    BY DEF TypeInv, AccountInv
  <2> QED BY <1>1, <2>1 DEF Grows
<1>4. \A m \in Migrator : Progress(m)'
  BY <1>1, <1>3, OthersProgress DEF CompleteInv
<1> QED BY <1>2, <1>4 DEF CompleteInv

LEMMA StepComplete ==
  ASSUME TypeInv, TypeInv', CompleteInv, [Next]_vars
  PROVE  CompleteInv'
<1>1. ASSUME NEW x \in Remover, RollbackStep(x)
      PROVE  CompleteInv'
  BY <1>1, RollbackEffect, EmptiedComplete, ApartComplete
<1>2. ASSUME NEW a \in Actor, ActorStep(a)
      PROVE  CompleteInv'
  BY <1>2, StepDrafts, StepLinked, StepProgress DEF CompleteInv
<1>3. CASE UNCHANGED vars
  BY <1>3, Stutters, ApartComplete
<1> QED BY <1>1, <1>2, <1>3, EveryStep

\* A migration that answers "succeeded" leaves nothing behind: every row that
\* means something has its invoice, the next cycle's draft belongs to the
\* subscription, credit and surcharge are set up, the methods are taken over.
THEOREM SuccessIsComplete == Spec => []SucceededMeansComplete
<1>1. Init => CompleteInv
  <2> SUFFICES ASSUME Init PROVE CompleteInv
    OBVIOUS
  <2>1. invoices = {} /\ subscriptions = 0 /\ job = [a \in Actor |-> Idle]
    BY DEF Init
  <2>2. \A m \in Migrator : job[m].pc = "idle" /\ ~job[m].done
    BY <2>1 DEF Idle, Actor
  <2>3. \A m \in Migrator : Progress(m)
    BY <2>2 DEF Progress
  <2> QED BY <2>1, <2>3 DEF CompleteInv, DraftsInv, LinkedInv
<1>2. TypeInv /\ CompleteInv => SucceededMeansComplete
  <2> SUFFICES ASSUME TypeInv, CompleteInv, NEW m \in Migrator, Succeeded(m)
               PROVE  /\ \A row \in Rows : Mapped(row) => InvoicesOf(row) # {}
                      /\ \A row \in Rows : Upcoming(row) => \E i \in InvoicesOf(row) : i.linked
                      /\ source.credit = "some" => notes # {}
                      /\ source.surcharge = "some" => config
                      /\ customer.methods = source.methods /\ subscriptions > 0
    BY DEF SucceededMeansComplete, Upcoming
  <2>1. m \in Actor /\ customer.id # 0 /\ customer.methods = source.methods
    BY DEF Succeeded, TypeInv, CustomerInv, JobsInv, JobKnows, Working, Actor
  <2>2. \A n \in 1..Len(Work(m)) : Done(Work(m)[n])
    BY DEF CompleteInv, Progress, Succeeded, Mine
  <2>3. Work(m) = RequestItems
    BY DEF Work, RequestItems, Credit
  <2> DEFINE N == Len(source.payrolls) + Len(source.charges) + 3
  <2>4. /\ N \in Nat /\ N >= 3 /\ Len(RequestItems) = N
        /\ RequestItems[1].kind = "credit" /\ RequestItems[2].kind = "surcharge"
        /\ RequestItems[N].kind = "subscription"
    <3> DEFINE P == Len(source.payrolls)
               C == Len(source.charges)
    <3>1. /\ P \in Nat /\ C \in Nat /\ Len(RequestItems) = P + C + 3
          /\ RequestItems[1].kind = "credit" /\ RequestItems[2].kind = "surcharge"
          /\ RequestItems[P + C + 3].kind = "subscription"
      BY RequestWork DEF TypeInv
    <3>2. N = P + C + 3
      OBVIOUS
    <3> HIDE DEF P, C, N
    <3> QED BY <3>1, <3>2
  <2> HIDE DEF N
  <2>5. Done(RequestItems[1]) /\ Done(RequestItems[2]) /\ Done(RequestItems[N])
    BY <2>2, <2>3, <2>4
  <2>6. /\ source.credit = "some" => notes # {}
        /\ source.surcharge = "some" => config
        /\ subscriptions > 0
    BY <2>4, <2>5 DEF Done
  <2>7. \A row \in Rows : Done(row) /\ row.kind \in {"payroll", "charge"}
    BY <2>2, RowsAreItems, RowTypes DEF TypeInv
  <2>8. \A row \in Rows : Mapped(row) => InvoicesOf(row) # {}
    BY <2>7 DEF Done
  <2>9. \A row \in Rows : Upcoming(row) => \E i \in InvoicesOf(row) : i.linked
    BY <2>6 DEF CompleteInv, LinkedInv
  <2> QED BY <2>1, <2>6, <2>8, <2>9
<1>3. TypeInv /\ TypeInv' /\ CompleteInv /\ [Next]_vars => CompleteInv'
  BY StepComplete
<1> QED BY <1>1, <1>2, <1>3, Types, PTL DEF Spec

-----------------------------------------------------------------------------
(* Layer 5                                                                   *)

LEMMA FitsStays ==
  ASSUME NEW i, NEW j, Fits(i), j.row = i.row, j.by = i.by, j.status = i.status, j.total = i.total,
         source' = source
  PROVE  Fits(j)'
<1>1. Rows' = Rows
  BY DEF Rows
<1> QED BY <1>1 DEF Fits

LEMMA StepFits ==
  ASSUME TypeInv, FitsInv, [Next]_vars
  PROVE  FitsInv'
<1>0. ASSUME NEW a \in Actor, ActorStep(a)
      PROVE  source' = source
  BY <1>0, ActorGrows DEF Grows
<1>1. CASE UNCHANGED <<source, invoices>>
  BY <1>1, FitsStays DEF FitsInv
<1>2. ASSUME NEW a \in Actor, Stores(a), source' = source
      PROVE  FitsInv'
  <2> DEFINE i == InvoiceBy(a, Item(a))
  <2>1. Item(a) \in AnyRow \cap Rows /\ StatusBy(a, Item(a)) # Skip
    BY <1>2, StoresEffect
  <2>2. /\ i.row = Item(a) /\ i.by = a /\ i.status = StatusBy(a, Item(a)).status
        /\ i.total = TotalBy(a, Item(a))
    BY <2>1, InvoiceTypes
  <2>3. invoices' = invoices \cup {i}
    BY <1>2 DEF Stores
  <2> HIDE DEF i
  <2>4. Fits(i)
    BY <2>1, <2>2 DEF Fits
  <2> QED BY <1>2, <2>3, <2>4, FitsStays DEF FitsInv
<1>3. ASSUME NEW m \in Migrator, WriteSubscription(m)
      PROVE  FitsInv'
  <2>1. /\ invoices' = {Linked(i) : i \in invoices} /\ invoices \in SUBSET InvoiceRecord
        /\ source' = source
    BY <1>3, SubscriptionEffect DEF TypeInv, AccountInv
  <2>2. \A i \in invoices : /\ Linked(i).row = i.row /\ Linked(i).by = i.by
                            /\ Linked(i).status = i.status /\ Linked(i).total = i.total
    BY <2>1, LinkedType
  <2> HIDE DEF Linked
  <2>3. \A i \in invoices : Fits(Linked(i))'
    BY <2>1, <2>2, FitsStays DEF FitsInv
  <2> QED BY <2>1, <2>3 DEF FitsInv
<1>4. ASSUME NEW x \in Remover, RollbackStep(x)
      PROVE  FitsInv'
  BY <1>1, <1>4, RollbackEffect DEF Emptied, Apart, FitsInv
<1>5. CASE UNCHANGED vars
  BY <1>1, <1>5 DEF vars
<1> QED BY <1>0, <1>1, <1>2, <1>3, <1>4, <1>5, EveryStep, InvoicesChange

\* What a writer and a script alike make of a row with nothing odd about it.
LEMMA PlainRow ==
  ASSUME NEW a \in Actor, NEW row \in AnyRow, ~row.deleted, row.amount >= 0, row.amount = row.items,
         row.status = "paid" => ~row.failure, StatusBy(a, row) # Skip
  PROVE  /\ TotalBy(a, row) = row.amount
         /\ StatusBy(a, row).status = "paid" <=> row.status = "paid"
<1>1. row.amount \in Int /\ Magnitude(row.amount) = row.amount
  BY DEF AnyRow, Row, Magnitude
<1>2. TotalBy(a, row) = row.amount
  BY <1>1 DEF TotalBy
<1>3. \A s : OrSkip(Charged, s) # Skip => (OrSkip(Charged, s).status = "paid" <=> s = "paid")
  BY DEF OrSkip, Charged
<1>4. \A s \in DOMAIN Unpaid : Unpaid[s].status # "paid" /\ s # "paid"
  BY DEF Unpaid
<1>5. Void.status # "paid"
  BY DEF Void
<1>10. Charged["failed"].status # "paid"
  BY DEF Charged
<1>6. PayrollStatus(row) # Skip => (PayrollStatus(row).status = "paid" <=> row.status = "paid")
  BY <1>3, <1>4, <1>10 DEF PayrollStatus
<1>7. ChargeStatus(row) # Skip => (ChargeStatus(row).status = "paid" <=> row.status = "paid")
  BY <1>3 DEF ChargeStatus
<1>8. ScriptPayrollStatus(row) # Skip =>
        (ScriptPayrollStatus(row).status = "paid" <=> row.status = "paid")
  BY <1>3, <1>10 DEF ScriptPayrollStatus
<1>9. ScriptChargeStatus(row) # Skip =>
        (ScriptChargeStatus(row).status = "paid" <=> row.status = "paid")
  BY <1>3, <1>5 DEF ScriptChargeStatus
<1> QED BY <1>2, <1>6, <1>7, <1>8, <1>9 DEF StatusBy

\* Rows and invoices that belong together one by one are as many, and of the
\* same sum.
LEMMA Pairing ==
  ASSUME NEW A, IsFiniteSet(A), NEW B, \A i \in B : i.row \in A,
         \A row \in A : \E i \in B : i.row = row,
         \A i, j \in B : i.row = j.row => i = j
  PROVE  /\ Cardinality(A) = Cardinality(B)
         /\ \A g, h : Ints(g, A) /\ (\A i \in B : h[i] = g[i.row]) =>
              SumFunctionOnSet(h, B) = SumFunctionOnSet(g, A)
<1> DEFINE f == [row \in A |-> CHOOSE i \in B : i.row = row]
<1>1. \A row \in A : f[row] \in B /\ f[row].row = row
  OBVIOUS
<1>2. f \in [A -> B]
  BY <1>1
<1> HIDE DEF f
<1>3. f \in Injection(A, B)
  BY <1>1, <1>2 DEF Injection, IsInjective
<1>4. f \in Surjection(A, B)
  BY <1>1, <1>2 DEF Surjection
<1>5. f \in Bijection(A, B)
  BY <1>3, <1>4 DEF Bijection
<1>6. Cardinality(A) = Cardinality(B)
  BY <1>5, FS_Bijection DEF ExistsBijection
<1>7. ASSUME NEW g, NEW h, Ints(g, A), \A i \in B : h[i] = g[i.row]
      PROVE  SumFunctionOnSet(h, B) = SumFunctionOnSet(g, A)
  <2>1. \A row \in A : h[f[row]] = g[row]
    BY <1>1, <1>7
  <2> QED BY <1>5, <1>7, <2>1, SumOfImage
<1> QED BY <1>6, <1>7

LEMMA OnlyOne ==
  ASSUME NEW S, IsFiniteSet(S), Cardinality(S) <= 1, NEW x \in S, NEW y \in S
  PROVE  x = y
<1> SUFFICES ASSUME x # y PROVE FALSE
  OBVIOUS
<1>1. IsFiniteSet({x}) /\ Cardinality({x}) = 1
  BY FS_Singleton
<1>2. Cardinality({x} \cup {y}) = 2
  <2>1. y \notin {x}
    OBVIOUS
  <2>2. Cardinality({x} \cup {y}) = Cardinality({x}) + 1
    BY <1>1, <2>1, FS_AddElement
  <2> QED BY <1>1, <2>2
<1>3. Cardinality({x} \cup {y}) <= Cardinality(S)
  BY FS_Subset
<1>4. Cardinality(S) \in Nat
  BY FS_CardinalityType
<1> QED BY <1>2, <1>3, <1>4

LEMMA RowsFinite ==
  ASSUME AccountInv
  PROVE  IsFiniteSet(Rows)
<1>1. ASSUME NEW s, NEW T, s \in Seq(T)
      PROVE  IsFiniteSet({s[n] : n \in DOMAIN s})
  <2> DEFINE R == {s[n] : n \in DOMAIN s}
  <2>1. DOMAIN s = 1..Len(s) /\ Len(s) \in Nat
    BY <1>1
  <2>2. IsFiniteSet(DOMAIN s)
    BY <2>1, FS_Interval
  <2> DEFINE f == [n \in DOMAIN s |-> s[n]]
  <2>3. f \in Surjection(DOMAIN s, R)
    BY DEF Surjection
  <2> HIDE DEF f, R
  <2>4. IsFiniteSet(R)
    BY <2>2, <2>3, FS_Surjection
  <2> QED BY <2>4 DEF R
<1>2. IsFiniteSet({source.payrolls[n] : n \in DOMAIN source.payrolls})
  BY <1>1, SourceTypes
<1>3. IsFiniteSet({source.charges[n] : n \in DOMAIN source.charges})
  BY <1>1, SourceTypes
<1> QED BY <1>2, <1>3, FS_Union DEF Rows

\* Of data with nothing deleted and nothing unknown, where what is paid is spelt
\* so and not flagged as failed, a migration that succeeded and wrote no row
\* twice is found consistent, whoever wrote which row.
THEOREM PlainIsConsistent == Spec => []PlainMigrationValidates
<1>1. ASSUME TypeInv, FitsInv, SucceededMeansComplete,
             \A row \in Rows :
               Ordinary(row) /\ (row.status = "paid" => row.exact /\ ~row.failure),
             \A row \in Rows : Cardinality(InvoicesOf(row)) <= 1,
             NEW m \in Migrator, Succeeded(m)
      PROVE  Consistent
  <2> DEFINE counted == {row \in Rows : ~(row.kind = "charge" /\ row.deleted)
                                        /\ (row.kind = "payroll" => row.valid)}
             theirs(kind) == {row \in counted : row.kind = kind}
             ours(kind) == {i \in invoices : i.row.kind = kind}
             paid == {row \in counted : row.exact /\ row.status = "paid"}
             ourPaid == {i \in invoices : i.status = "paid"}
  <2>0. \A row \in Rows : /\ ~row.deleted /\ row.valid /\ row.amount >= 0 /\ row.amount = row.items
                          /\ Mapped(row) /\ (row.status = "paid" => row.exact /\ ~row.failure)
    BY <1>1 DEF Ordinary
  <2>1. counted = Rows
    BY <2>0
  <2>2. IsFiniteSet(Rows) /\ \A row \in Rows : row.amount \in Int
    <3>1. \A row \in AnyRow : row.amount \in Int
      BY DEF AnyRow, Row
    <3> QED BY <1>1, <3>1, RowsFinite, RowTypes DEF TypeInv
  <2>3. \A i \in invoices : /\ i.row \in Rows /\ i.total = i.row.amount
                            /\ (i.status = "paid" <=> i.row.status = "paid")
    <3> SUFFICES ASSUME NEW i \in invoices
                 PROVE  /\ i.row \in Rows /\ i.total = i.row.amount
                        /\ (i.status = "paid" <=> i.row.status = "paid")
      OBVIOUS
    <3>1. Fits(i) /\ i.row \in AnyRow /\ i.by \in Actor
      BY <1>1 DEF FitsInv, TypeInv, AccountInv, InvoiceRecord
    <3>2. /\ i.row \in Rows /\ StatusBy(i.by, i.row) # Skip
          /\ i.status = StatusBy(i.by, i.row).status /\ i.total = TotalBy(i.by, i.row)
      BY <3>1 DEF Fits
    <3>3. ~i.row.deleted /\ i.row.amount >= 0 /\ i.row.amount = i.row.items
          /\ (i.row.status = "paid" => ~i.row.failure)
      BY <2>0, <3>2
    <3>4. TotalBy(i.by, i.row) = i.row.amount
          /\ (StatusBy(i.by, i.row).status = "paid" <=> i.row.status = "paid")
      BY <3>1, <3>2, <3>3, PlainRow
    <3> QED BY <3>2, <3>4
  <2>4. \A row \in Rows : \E i \in invoices : i.row = row
    BY <1>1, <2>0 DEF SucceededMeansComplete, InvoicesOf
  <2>5. ASSUME NEW i \in invoices, NEW j \in invoices, i.row = j.row
        PROVE  i = j
    <3>1. IsFiniteSet(InvoicesOf(i.row))
      BY <1>1, FS_Subset DEF TypeInv, AccountInv, InvoicesOf
    <3>2. Cardinality(InvoicesOf(i.row)) <= 1 /\ i \in InvoicesOf(i.row) /\ j \in InvoicesOf(i.row)
      BY <1>1, <2>3, <2>5 DEF InvoicesOf
    <3> QED BY <3>1, <3>2, OnlyOne
  <2>6. ASSUME NEW A \in SUBSET Rows, NEW B \in SUBSET invoices, \A i \in invoices : i \in B <=> i.row \in A
        PROVE  /\ Cardinality(A) = Cardinality(B)
               /\ \A g, h : Ints(g, A) /\ (\A i \in B : h[i] = g[i.row]) =>
                    SumFunctionOnSet(h, B) = SumFunctionOnSet(g, A)
    <3>1. IsFiniteSet(A)
      BY <2>2, FS_Subset
    <3>2. \A i \in B : i.row \in A
      BY <2>6
    <3>3. \A row \in A : \E i \in B : i.row = row
      BY <2>4, <2>6
    <3>4. \A i, j \in B : i.row = j.row => i = j
      BY <2>5, <2>6
    <3> QED BY <3>1, <3>2, <3>3, <3>4, Pairing
  <2>7. ASSUME NEW kind \in {"payroll", "charge"}
        PROVE  /\ Cardinality(theirs(kind)) = Cardinality(ours(kind))
               /\ Magnitude(SumFunction([row \in theirs(kind) |-> row.amount])
                              - SumFunction([i \in ours(kind) |-> i.total])) <= 1
    <3> DEFINE A == theirs(kind)
               B == ours(kind)
               g == [row \in A |-> row.amount]
               h == [i \in B |-> i.total]
    <3>1. /\ A \in SUBSET Rows /\ B \in SUBSET invoices
          /\ \A i \in invoices : i \in B <=> i.row \in A
      BY <2>1, <2>3
    <3>2. Ints(g, A)
      BY <2>2, <3>1 DEF Ints
    <3>3. \A i \in B : h[i] = g[i.row]
      BY <2>3, <3>1
    <3>4. DOMAIN g = A /\ DOMAIN h = B
      OBVIOUS
    <3>5. IsFiniteSet(A)
      BY <2>2, <3>1, FS_Subset
    <3> HIDE DEF A, B, g, h
    <3>6. Cardinality(A) = Cardinality(B) /\ SumFunctionOnSet(h, B) = SumFunctionOnSet(g, A)
      BY <2>6, <3>1, <3>2, <3>3
    <3>7. SumFunctionOnSet(g, A) \in Int
      BY <3>2, <3>5, SumIsInt
    <3>8. SumFunction(g) = SumFunctionOnSet(g, A) /\ SumFunction(h) = SumFunctionOnSet(h, B)
      BY <3>4 DEF SumFunction
    <3>9. Magnitude(SumFunction(g) - SumFunction(h)) <= 1
      BY <3>6, <3>7, <3>8 DEF Magnitude
    <3> QED BY <3>6, <3>9 DEF A, B, g, h
  <2>8. Cardinality(paid) = Cardinality(ourPaid)
    <3>1. /\ paid \in SUBSET Rows /\ ourPaid \in SUBSET invoices
          /\ \A i \in invoices : i \in ourPaid <=> i.row \in paid
      BY <2>0, <2>1, <2>3
    <3> HIDE DEF paid, ourPaid
    <3> QED BY <2>6, <3>1
  <2> QED BY <2>7, <2>8 DEF Consistent
<1>2. TypeInv /\ FitsInv /\ SucceededMeansComplete => PlainMigrationValidates
  BY <1>1 DEF PlainMigrationValidates, MigratedOnce
<1>3. Init => FitsInv
  BY DEF Init, FitsInv
<1> QED BY <1>2, <1>3, StepFits, Types, SuccessIsComplete, PTL DEF Spec
=============================================================================
