------------------------------ MODULE Migration ------------------------------
(* The move of one customer out of the monolith.  A request takes the whole  *)
(* customer through six writers (customer-migration); scripts move settings, *)
(* surcharge, payrolls or charges one kind at a time (migration); a rollback *)
(* reads what there is, reverses its entries and deletes what is there by    *)
(* then, statement by statement at READ COMMITTED.  All of them may overlap, *)
(* every transaction may throw and every process may die.  Dry runs write    *)
(* nothing and are left out, and so are the logs, whose failures are caught. *)
EXTENDS Integers, FiniteSets, Sequences, Functions

CONSTANTS
  Source,       \* what the monolith may hold of the customer
  Migrator,     \* concurrent requests to migrate the customer
  Script,       \* concurrent runs of the scripts
  Remover,      \* concurrent rollbacks
  MaxCustomers, \* bound on the customer rows ever created
  MaxBusy       \* bound on the requests, scripts and rollbacks under way at once

\* A row's status as lower-casing and trimming leave it, "paid" for "succeeded"
\* and "pending" for "processing" too, and whether the column has it exactly so;
\* `Failure` is a flag beside it.  A payroll is bare if it has no employees and
\* no surcharge.
Row(kind) == [kind: {kind}, id: Nat, status: STRING, exact: BOOLEAN, failure: BOOLEAN,
              deleted: BOOLEAN, valid: BOOLEAN, amount: Int, items: Int, bare: BOOLEAN]

ASSUME MigrationAssumption ==
  /\ Migrator \cap Script = {} /\ Source # {} /\ {MaxCustomers, MaxBusy} \subseteq Nat
  /\ \A s \in Source :
       /\ s.payrolls \in Seq(Row("payroll")) /\ s.charges \in Seq(Row("charge"))
       /\ s.credit \in {"none", "bad", "some"} /\ s.surcharge \in {"none", "bad", "some"}
       /\ {s.rate, s.subscribed, s.cheque, s.methods} \subseteq BOOLEAN

VARIABLES
  source,        \* the monolith's data, which no one changes meanwhile
  customer,      \* the customer row: its id or 0, whether it has methods and
                 \* a gateway assignment
  created,       \* ids given to customer rows so far
  invoices,      \* the migrated invoices, each with the source row it is of
  notes,         \* the requests that issued the customer's credit notes
  config,        \* whether there is a surcharge configuration
  subscriptions, \* active subscriptions
  ledger,        \* how often the entries of each document stand in the books,
                 \* reversals deducted
  job,           \* control state of requests and scripts
  removal,       \* control state of rollbacks
  overtaken      \* history: customers who changed under a rollback that read them

vars == <<source, customer, created, invoices, notes, config, subscriptions, ledger, job,
          removal, overtaken>>
removals == <<removal, overtaken>>
account == <<customer, created, invoices, notes, config, subscriptions, ledger>>

Actor == Migrator \cup Script
Idle == [pc |-> "idle", op |-> "none", id |-> 0, at |-> 0, done |-> FALSE]
NoCustomer == [id |-> 0, methods |-> FALSE, assigned |-> FALSE]
\* Of a rollback: its customer, the documents it has read, the entries of
\* theirs it has found.
Resting == [pc |-> "idle", id |-> 0, read |-> {}, found |-> <<>>]

\* What the ledger's entries refer to, by its customer, its row and its writer.
Rows == {source.payrolls[n] : n \in DOMAIN source.payrolls}
          \cup {source.charges[n] : n \in DOMAIN source.charges}
Credit == [kind |-> "credit"]
Document == (1..MaxCustomers) \X (Rows \cup {Credit}) \X Actor
InvoiceOf(c, i) == <<c, i.row, i.by>>
Note(c, m) == <<c, Credit, m>>
InvoicesHeld == {InvoiceOf(customer.id, i) : i \in invoices}
NotesHeld == {Note(customer.id, m) : m \in notes}
Held == InvoicesHeld \cup NotesHeld
OfRequest(d) == d[3] \in Migrator

\* Types, and that whatever hangs on a customer row goes with it.
TypeOK ==
  /\ source \in Source
  /\ customer \in [id: 0..created, methods: BOOLEAN, assigned: BOOLEAN]
  /\ created \in 0..MaxCustomers
  /\ \A i \in invoices :
       /\ i.status \in {"draft", "finalized", "paid", "void"} /\ i.by \in Actor
       /\ i.charge \in {"none", "succeeded", "failed", "pending"} /\ i.linked \in BOOLEAN
  /\ notes \subseteq Migrator /\ config \in BOOLEAN /\ subscriptions \in Nat
  /\ ledger \in [Document -> Int]
  /\ \A a \in Actor :
       /\ job[a].pc \in {"idle", "settings", "insert", "look", "write"}
       /\ job[a].done \in BOOLEAN /\ job[a].id \in 0..created
  /\ \A x \in Remover :
       /\ removal[x].pc \in {"idle", "reverse", "delete"} /\ removal[x].id \in 0..created
       /\ removal[x].read \subseteq Document
  /\ overtaken \subseteq 1..created
  /\ customer.id = 0 =>
       invoices = {} /\ notes = {} /\ ~config /\ subscriptions = 0 /\ ~customer.methods

Init ==
  /\ source \in Source
  /\ customer = NoCustomer /\ created = 0
  /\ invoices = {} /\ notes = {} /\ config = FALSE /\ subscriptions = 0
  /\ ledger = [d \in Document |-> 0]
  /\ job = [a \in Actor |-> Idle]
  /\ removal = [x \in Remover |-> Resting] /\ overtaken = {}

----------------------------------------------------------------------------
(* What becomes of a row of the monolith: the status of its invoice and of   *)
(* its charge.  An upcoming payroll is an unpaid one of a future month.      *)

Skip == [status |-> "none", charge |-> "none"]
Void == [status |-> "void", charge |-> "none"]
Charged == [paid    |-> [status |-> "paid", charge |-> "succeeded"],
            failed  |-> [status |-> "finalized", charge |-> "failed"],
            pending |-> [status |-> "finalized", charge |-> "pending"]]
Unpaid == [upcoming |-> [status |-> "draft", charge |-> "none"],
           unpaid   |-> [status |-> "finalized", charge |-> "none"]]
OrSkip(map, status) == IF status \in DOMAIN map THEN map[status] ELSE Skip

\* `mapPayrollStatus` of the payroll writer.
PayrollStatus(row) ==
  IF row.deleted THEN Void
  ELSE IF row.failure THEN Charged["failed"]
  ELSE IF row.status \in DOMAIN Unpaid THEN Unpaid[row.status] ELSE OrSkip(Charged, row.status)

\* `mapChargeStatus` of the charge writer.
ChargeStatus(row) == IF row.deleted THEN Void ELSE OrSkip(Charged, row.status)

\* Mutant: a pending payroll counts as paid.
ScriptPayrollStatusPendingPaid(row) ==
  IF row.failure THEN Charged["failed"]
  ELSE IF row.status = "pending" THEN Charged["paid"] ELSE OrSkip(Charged, row.status)
\* `mapPayrollStatus` of the payroll script, which does not look at deletion.
ScriptPayrollStatus(row) ==
  IF row.failure THEN Charged["failed"] ELSE OrSkip(Charged, row.status)

\* `mapPaymentStatus` of the charges script, after its test for deletion.
ScriptChargeStatus(row) ==
  IF row.deleted THEN Skip
  ELSE IF row.status = "voided" THEN Void ELSE OrSkip(Charged, row.status)

Magnitude(n) == IF n < 0 THEN -n ELSE n
Path(a) == IF a \in Migrator THEN "request" ELSE "script"
Invoice(a, row, mapped, total) ==
  [row |-> row, by |-> a, status |-> mapped.status, charge |-> mapped.charge,
   total |-> total, linked |-> FALSE]
\* A payroll's total keeps its sign; the scripts add up the line items, which
\* for a payroll are made to fit and for a charge come from the monolith.
PayrollInvoice(a, row) == Invoice(a, row, PayrollStatus(row), row.amount)
ChargeInvoice(a, row) == Invoice(a, row, ChargeStatus(row), Magnitude(row.amount))
ScriptPayrollInvoice(a, row) == Invoice(a, row, ScriptPayrollStatus(row), row.amount)
ScriptChargeInvoice(a, row) == Invoice(a, row, ScriptChargeStatus(row), Magnitude(row.items))

\* One transaction writes a document and its entries, two pairs, one or none as
\* its status says; no document is written twice.
Book(doc) == ledger' = [ledger EXCEPT ![doc] = @ + 1]

----------------------------------------------------------------------------
(* The work of a request and of a script: one item after the other, each     *)
(* looked up first and written in a later transaction.                       *)

Work(a) ==
  IF a \in Migrator
  THEN <<Credit, [kind |-> "surcharge"]>>
         \o source.payrolls \o source.charges \o <<[kind |-> "subscription"]>>
  ELSE CASE job[a].op = "surcharge" -> <<[kind |-> "surcharge"]>>
         [] job[a].op = "payroll" -> source.payrolls
         [] job[a].op = "charges" -> source.charges
         [] OTHER -> <<>>

At(a, pc) == job[a].pc = pc
Go(a, pc) == job' = [job EXCEPT ![a].pc = pc]
Handle(a, id) == job' = [job EXCEPT ![a].pc = "look", ![a].id = id, ![a].at = 1]
Proceed(a) == job' = [job EXCEPT ![a].pc = "look", ![a].at = @ + 1]
\* A request answers "skipped" or "failed", a script ends.
Stop(a) == job' = [job EXCEPT ![a] = Idle]
Succeed(a) == job' = [job EXCEPT ![a] = [Idle EXCEPT !.done = TRUE, !.id = job[a].id]]
\* Mutant of Fail: a request, too, goes on to the next item.
FailAndProceed(a) == Proceed(a)
\* A request stops at the first failure, a script goes on to the next row.
Fail(a) == IF a \in Migrator THEN Stop(a) ELSE Proceed(a)

Doing(a, kind) == job[a].at <= Len(Work(a)) /\ Work(a)[job[a].at].kind = kind
Item(a) == Work(a)[job[a].at]

\* A customer that is there, however much of it, counts as migrated.
BeginMigration(m) ==
  /\ At(m, "idle")
  /\ IF customer.id # 0 THEN Stop(m) ELSE job' = [job EXCEPT ![m] = [Idle EXCEPT !.pc = "settings"]]
  /\ UNCHANGED <<source, account, removals>>

\* The scripts, each for one customer after the other; only the one for
\* settings can do without the customer's row, and skips a row that is there.
BeginScript(s, op) ==
  /\ At(s, "idle") /\ customer.id # 0
  /\ job' = [job EXCEPT ![s] = [Idle EXCEPT !.pc = "look", !.op = op, !.id = customer.id, !.at = 1]]
  /\ UNCHANGED <<source, account, removals>>
SurchargeScript(s) == BeginScript(s, "surcharge")
PayrollScript(s) == BeginScript(s, "payroll")
ChargesScript(s) == BeginScript(s, "charges")
SettingsScript(s) ==
  /\ At(s, "idle") /\ customer.id = 0
  /\ job' = [job EXCEPT ![s] = [Idle EXCEPT !.pc = "insert"]]
  /\ UNCHANGED <<source, account, removals>>

\* The writer of the settings rejects cheques, takes over a customer that has
\* come into being meanwhile, and asks the gateway, which may be out of reach.
CheckSettings(m) ==
  /\ At(m, "settings")
  /\ \/ Stop(m)
     \/ ~source.cheque /\ customer.id # 0 /\ Handle(m, customer.id)
     \/ ~source.cheque /\ customer.id = 0 /\ Go(m, "insert")
  /\ UNCHANGED <<source, account, removals>>

\* One transaction: the customer, its methods and, by a request, its gateway.
Insert(a, assigned) ==
  /\ At(a, "insert") /\ customer.id = 0 /\ created < MaxCustomers
  /\ created' = created + 1
  /\ customer' = [id |-> created + 1, methods |-> source.methods, assigned |-> assigned]
  /\ UNCHANGED <<source, invoices, notes, config, subscriptions, ledger, removals>>
InsertCustomer(m) == Insert(m, TRUE) /\ Handle(m, created + 1)
InsertCustomerByScript(s) == Insert(s, FALSE) /\ Stop(s)

\* It throws for a customer that is there: the monolith's id is unique.
InsertThrows(a) ==
  /\ At(a, "insert") /\ Stop(a)
  /\ UNCHANGED <<source, account, removals>>

----------------------------------------------------------------------------
(* Looking an item up: to skip it, to fail, or to write it next.             *)

LookUp(a, kind, skips, fails) ==
  /\ At(a, "look") /\ Doing(a, kind)
  /\ \/ skips /\ Proceed(a)
     \/ ~skips /\ fails /\ Fail(a)
     \/ ~skips /\ ~fails /\ Go(a, "write")
  /\ UNCHANGED <<source, account, removals>>

Mine(a) == job[a].id = customer.id
\* An invoice is found by the id of its row, whoever's it is.
Migrated(row) == \E i \in invoices : i.row = row
NoMethod(a, mapped) == mapped.charge # "none" /\ ~(Mine(a) /\ customer.methods)

\* The gateway's balance, if it is a credit; given once by its reason.
FindCredit(m) ==
  LookUp(m, "credit", source.credit = "none" \/ (source.credit # "bad" /\ Mine(m) /\ notes # {}),
         source.credit = "bad")

FindSurcharge(m) ==
  LookUp(m, "surcharge", source.surcharge = "none" \/ (source.surcharge # "bad" /\ Mine(m) /\ config),
         source.surcharge = "bad")

FindPayroll(m) ==
  LET mapped == PayrollStatus(Item(m))
  IN LookUp(m, "payroll", mapped = Skip \/ (Item(m).valid /\ Migrated(Item(m))),
            ~Item(m).valid \/ NoMethod(m, mapped))

FindCharge(m) ==
  LET mapped == ChargeStatus(Item(m))
  IN LookUp(m, "charge", mapped = Skip \/ (Item(m).valid /\ Migrated(Item(m))),
            ~Item(m).valid \/ NoMethod(m, mapped))

\* No run rate, no customer, or an active subscription that is another one.
FindSubscription(m) ==
  LookUp(m, "subscription", source.rate /\ Mine(m) /\ subscriptions = 1 /\ source.subscribed,
         ~source.rate \/ ~Mine(m) \/ subscriptions > 0)

\* The script stores a surcharge it cannot read without a value.
FindConfigForScript(s) ==
  LookUp(s, "surcharge", source.surcharge = "none" \/ (Mine(s) /\ config), FALSE)

FindPayrollForScript(s) ==
  LET mapped == ScriptPayrollStatus(Item(s))
  IN LookUp(s, "payroll", ~Item(s).valid \/ mapped = Skip \/ Migrated(Item(s)), NoMethod(s, mapped))

FindChargeForScript(s) ==
  LET mapped == ScriptChargeStatus(Item(s))
  IN LookUp(s, "charge", ~Item(s).valid \/ mapped = Skip \/ Migrated(Item(s)), NoMethod(s, mapped))

----------------------------------------------------------------------------
(* Writing it: a transaction that needs the customer still to be there.     *)

\* Mutant: no foreign keys.
WritesToAny(a, kind) == At(a, "write") /\ Doing(a, kind) /\ Proceed(a)
Writes(a, kind) == At(a, "write") /\ Doing(a, kind) /\ Mine(a) /\ Proceed(a)

WriteCredit(m) ==
  /\ Writes(m, "credit")
  /\ notes' = notes \cup {m} /\ Book(Note(customer.id, m))
  /\ UNCHANGED <<source, customer, created, invoices, config, subscriptions, removals>>

\* Either way an upsert.
StoreConfig(a) ==
  /\ Writes(a, "surcharge") /\ config' = TRUE
  /\ UNCHANGED <<source, customer, created, invoices, notes, subscriptions, ledger, removals>>
WriteSurcharge(m) == StoreConfig(m)
WriteConfigByScript(s) == StoreConfig(s)

\* Mutant: requests and scripts have keys of their own.
KeyOfPathFree(a, row) ==
  ~\E i \in invoices : i.row = row /\ i.charge # "none" /\ Path(i.by) = Path(a)
\* Requests and scripts give the charge of a row the same unique key.
KeyFree(a, row) == ~\E i \in invoices : i.row = row /\ i.charge # "none"

\* Invoice, charge and ledger entries.
Store(a, kind, invoice) ==
  /\ Writes(a, kind)
  /\ invoice.charge # "none" => KeyFree(a, invoice.row)
  /\ invoices' = invoices \cup {invoice}
  /\ Book(InvoiceOf(customer.id, invoice))
  /\ UNCHANGED <<source, customer, created, notes, config, subscriptions, removals>>

WritePayroll(m) == Store(m, "payroll", PayrollInvoice(m, Item(m)))
WriteCharge(m) == Store(m, "charge", ChargeInvoice(m, Item(m)))
\* The scripts book without looking at the amount, which must be positive.
WritePayrollByScript(s) ==
  Store(s, "payroll", ScriptPayrollInvoice(s, Item(s))) /\ Item(s).amount > 0
WriteChargeByScript(s) ==
  Store(s, "charge", ScriptChargeInvoice(s, Item(s))) /\ Item(s).items # 0

\* The subscription takes the customer's drafts along.
WriteSubscription(m) ==
  /\ Writes(m, "subscription") /\ subscriptions' = subscriptions + 1
  /\ invoices' = {[i EXCEPT !.linked = @ \/ i.status = "draft"] : i \in invoices}
  /\ UNCHANGED <<source, customer, created, notes, config, ledger, removals>>

WriteThrows(a) ==
  /\ At(a, "write") /\ Fail(a) /\ UNCHANGED <<source, account, removals>>

Finish(m) ==
  /\ At(m, "look") /\ job[m].at > Len(Work(m)) /\ Succeed(m)
  /\ UNCHANGED <<source, account, removals>>

FinishScript(s) ==
  /\ At(s, "look") /\ job[s].at > Len(Work(s)) /\ Stop(s)
  /\ UNCHANGED <<source, account, removals>>

Crash(a) ==
  /\ ~At(a, "idle") /\ job' = [job EXCEPT ![a] = Idle]
  /\ UNCHANGED <<source, account, removals>>

----------------------------------------------------------------------------
(* The rollback: one transaction of several statements, between which others *)
(* commit.                                                                   *)

\* The order of its DELETEs.
Deletions == <<"subscriptions", "credit_notes", "credit_balances", "charges", "line_items",
  "invoices", "surcharge_configs", "payment_methods", "gateway_assignments", "customers">>

\* Foreign keys that some row of the customer uses, all of them NO ACTION;
\* those on the customer itself, which goes last, are left out.
References ==
  {<<"invoices", "subscriptions">> : i \in {j \in invoices : j.linked}}
    \cup {<<"line_items", "invoices">> : i \in invoices}
    \cup {<<"charges", t>> : t \in IF \E i \in invoices : i.charge # "none"
                                   THEN {"invoices", "payment_methods"} ELSE {}}

\* A row goes while another that is deleted later still refers to it.
Dangles == \E l \in DOMAIN Deletions : \E k \in 1..(l - 1) : <<Deletions[l], Deletions[k]>> \in References

Advance(x, to) == removal' = [removal EXCEPT ![x] = to]

\* The customer's row, and the ids of its invoices.
BeginRollback(x) ==
  /\ removal[x].pc = "idle" /\ customer.id # 0
  /\ Advance(x, [pc |-> "reverse", id |-> customer.id, read |-> InvoicesHeld, found |-> <<>>])
  /\ UNCHANGED <<source, account, job, overtaken>>

\* The ids of its credit notes, and the entries of all of them that the writers
\* booked: those of the scripts are under other correlation ids.
ReverseEntries(x) ==
  LET docs == removal[x].read \cup (IF customer.id = removal[x].id THEN NotesHeld ELSE {})
  IN /\ removal[x].pc = "reverse"
     /\ Advance(x, [removal[x] EXCEPT !.pc = "delete", !.read = docs,
                      !.found = [d \in {d \in docs : OfRequest(d)} |-> ledger[d]]])
     /\ UNCHANGED <<source, account, job, overtaken>>

\* Mutant of Mirror: the entries stay.
MirrorNothing(found) == UNCHANGED ledger
\* Every entry found is mirrored.
Mirror(found) ==
  ledger' = [d \in Document |-> IF d \in DOMAIN found THEN ledger[d] - found[d] ELSE ledger[d]]

\* Rows that were not read and that nothing deletes: the line items of other
\* invoices, and credit notes if there was none to be read.
HasItems(i) == ~(i.by \in Migrator /\ i.row.kind = "payroll" /\ i.row.bare)
LeftBehind(x) ==
  \/ \E i \in invoices : HasItems(i) /\ InvoiceOf(customer.id, i) \notin removal[x].read
  \/ NotesHeld # {} /\ ~\E m \in Migrator : Note(customer.id, m) \in removal[x].read

\* Everything of the customer's goes, whether it was read or not.
CommitRollback(x) ==
  /\ removal[x].pc = "delete" /\ customer.id = removal[x].id /\ ~Dangles /\ ~LeftBehind(x)
  /\ Mirror(removal[x].found)
  /\ customer' = NoCustomer /\ invoices' = {} /\ notes' = {}
  /\ config' = FALSE /\ subscriptions' = 0
  /\ overtaken' = IF Held \subseteq removal[x].read
                  THEN overtaken ELSE overtaken \cup {customer.id}
  /\ Advance(x, Resting)
  /\ UNCHANGED <<source, created, job>>

\* Another rollback came first: there is nothing to delete any more.
CommitAfterAnother(x) ==
  /\ removal[x].pc = "delete" /\ customer.id # removal[x].id
  /\ Mirror(removal[x].found)
  /\ overtaken' = overtaken \cup {removal[x].id}
  /\ Advance(x, Resting)
  /\ UNCHANGED <<source, customer, created, invoices, notes, config, subscriptions, job>>

\* A rollback that throws, or dies, changes nothing.
RollbackThrows(x) ==
  /\ removal[x].pc # "idle" /\ Advance(x, Resting)
  /\ UNCHANGED <<source, account, job, overtaken>>

RollbackStep(x) ==
  \/ BeginRollback(x) \/ ReverseEntries(x)
  \/ CommitRollback(x) \/ CommitAfterAnother(x) \/ RollbackThrows(x)

MigratorStep(m) ==
  \/ BeginMigration(m) \/ CheckSettings(m) \/ InsertCustomer(m)
  \/ FindCredit(m) \/ FindSurcharge(m) \/ FindPayroll(m) \/ FindCharge(m) \/ FindSubscription(m)
  \/ WriteCredit(m) \/ WriteSurcharge(m) \/ WritePayroll(m) \/ WriteCharge(m) \/ WriteSubscription(m)
  \/ Finish(m)

ScriptStep(s) ==
  \/ SettingsScript(s) \/ SurchargeScript(s) \/ PayrollScript(s) \/ ChargesScript(s)
  \/ InsertCustomerByScript(s)
  \/ FindConfigForScript(s) \/ FindPayrollForScript(s) \/ FindChargeForScript(s)
  \/ WriteConfigByScript(s) \/ WritePayrollByScript(s) \/ WriteChargeByScript(s)
  \/ FinishScript(s)

\* Whoever is under way.
Busy == {a \in Actor : job[a].pc # "idle"} \cup {x \in Remover : removal[x].pc # "idle"}

Next ==
  /\ \/ \E m \in Migrator : MigratorStep(m)
     \/ \E s \in Script : ScriptStep(s)
     \/ \E a \in Actor : InsertThrows(a) \/ WriteThrows(a) \/ Crash(a)
     \/ \E x \in Remover : RollbackStep(x)
  /\ Cardinality(Busy') <= MaxBusy

Spec == Init /\ [][Next]_vars

----------------------------------------------------------------------------
InvoicesOf(row) == {i \in invoices : i.row = row}
Mapped(row) == IF row.kind = "payroll" THEN PayrollStatus(row) # Skip ELSE ChargeStatus(row) # Skip
Succeeded(m) == job[m].done /\ job[m].id = customer.id

\* No row of the monolith gets a second charge, however requests, scripts,
\* reruns and rollbacks overlap between looking it up and writing it.
ChargedOnce == \A row \in Rows : Cardinality({i \in InvoicesOf(row) : i.charge # "none"}) <= 1

\* Every invoice and credit note that the customer holds of a request is in the
\* books once, during a migration, after one that failed half-way, and under a
\* rollback; one that a rollback took away is not, unless the customer's data
\* changed between what a rollback read and what it deleted.
LedgerFollowsWriters ==
  /\ \A d \in Held : OfRequest(d) => ledger[d] = 1
  /\ \A d \in Document \ Held : OfRequest(d) /\ d[1] \notin overtaken => ledger[d] = 0

\* "These are the only `referenceId`s that legitimately belong to this customer":
\* a customer that is gone has nothing in the books.
RollbackClearsBooks ==
  \A d \in Document : OfRequest(d) /\ d[1] # customer.id => ledger[d] = 0

\* A migration that answers "succeeded" leaves nothing behind: every row that
\* means something has its invoice, the next cycle's draft belongs to the
\* subscription, credit and surcharge are set up.
SucceededMeansComplete == \A m \in Migrator : Succeeded(m) =>
  /\ \A row \in Rows : Mapped(row) => InvoicesOf(row) # {}
  /\ \A row \in Rows : row.kind = "payroll" /\ row.status = "upcoming" /\ ~row.deleted /\ ~row.failure =>
       \E i \in InvoicesOf(row) : i.linked
  /\ source.credit = "some" => notes # {}
  /\ source.surcharge = "some" => config
  /\ customer.methods = source.methods /\ subscriptions > 0

\* `validateCustomer`: counts, totals and paid rows of either side, the
\* monolith's by what the column has.
Consistent ==
  LET counted == {row \in Rows : ~(row.kind = "charge" /\ row.deleted) /\ (row.kind = "payroll" => row.valid)}
      theirs(kind) == {row \in counted : row.kind = kind}
      ours(kind) == {i \in invoices : i.row.kind = kind}
  IN /\ \A kind \in {"payroll", "charge"} :
          /\ Cardinality(theirs(kind)) = Cardinality(ours(kind))
          /\ Magnitude(SumFunction([row \in theirs(kind) |-> row.amount])
                         - SumFunction([i \in ours(kind) |-> i.total])) <= 1
     /\ Cardinality({row \in counted : row.exact /\ row.status = "paid"})
          = Cardinality({i \in invoices : i.status = "paid"})

Ordinary(row) == ~row.deleted /\ row.valid /\ row.amount >= 0 /\ row.amount = row.items /\ Mapped(row)
MigratedOnce ==
  /\ \A row \in Rows : Cardinality(InvoicesOf(row)) <= 1
  /\ \E m \in Migrator : Succeeded(m)

\* Of data with nothing deleted and nothing unknown, where what is paid is spelt
\* so and not flagged as failed, a migration that succeeded and wrote no row
\* twice is found consistent, whoever wrote which row.
PlainMigrationValidates ==
  (\A row \in Rows : Ordinary(row) /\ (row.status = "paid" => row.exact /\ ~row.failure))
    /\ MigratedOnce
  => Consistent

\* mapPaymentStatus("PAID") is paid, a test says: and so it is for the validator.
SpellingValidates ==
  (\A row \in Rows : Ordinary(row) /\ ~row.failure) /\ MigratedOnce => Consistent

\* "DELETE in reverse FK order": a customer that has nothing but migrated data
\* can be taken back at any time.
RollbackSucceeds == customer.id # 0 => ~Dangles
=============================================================================
