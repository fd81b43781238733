---------------------------- MODULE BillingProofs ----------------------------
(***************************************************************************)
(* Proofs about BillingCycle for every set of subscriptions, processes,    *)
(* amounts and credit notes, and whatever faults occur.                    *)
(*                                                                         *)
(*   1. Types, with the rows that tasks hold.  Nothing is assumed.         *)
(*   2. One runner: who may bill which row.  It gives BilledOnce and       *)
(*      RecurringFinalizedOnce for every set of requests.                  *)
(*   3. One runner and requests that leave drafts alone: what a task and   *)
(*      a batch know of the row and the period they hold stays true.  It   *)
(*      gives LedgerMatchesInvoice and NoPeriodSkipped.                    *)
(***************************************************************************)
EXTENDS BillingCycle, FiniteSetTheorems, WellFoundedInduction, TLAPS

-----------------------------------------------------------------------------
(* The oldest and the newest of a set of rows *)

\* A set of numbers has a least element ...
LEMMA Least ==
    ASSUME NEW I \in SUBSET Nat, I # {}
    PROVE  \E i \in I : \A j \in I : i <= j
<1> DEFINE R == OpToRel(<, Nat)
<1>1. \A x, y \in Nat : x < y => <<x, y>> \in R
  BY DEF OpToRel
<1>2. IsWellFoundedOn(R, Nat)
  BY NatLessThanWellFounded
<1> HIDE DEF R
<1>3. PICK x \in I : \A y \in I : ~ (<<y, x>> \in R)
  BY <1>2, WFMin
<1>4. \A j \in I : ~ (j < x)
  BY <1>1, <1>3
<1> QED BY <1>4

\* ... and, if it is bounded, a greatest: the least distance to the bound.
LEMMA Greatest ==
    ASSUME NEW n \in Nat, NEW I \in SUBSET (0..n), I # {}
    PROVE  \E i \in I : \A j \in I : i >= j
<1> DEFINE D == {n - i : i \in I}
<1>1. D \in SUBSET Nat
  OBVIOUS
<1>2. D # {}
  OBVIOUS
<1>3. PICK d \in D : \A e \in D : d <= e
  <2> HIDE DEF D
  <2> QED BY <1>1, <1>2, Least
<1>4. PICK i \in I : d = n - i
  BY <1>3
<1>5. \A j \in I : n - i <= n - j
  BY <1>3, <1>4
<1> HIDE DEF D
<1>6. i \in Int /\ \A j \in I : j \in Int
  OBVIOUS
<1> QED BY <1>5, <1>6

\* So Oldest and Newest choose a row whenever there is one to choose.
LEMMA ChosenRow ==
    ASSUME TypeOK, NEW I \in SUBSET (DOMAIN rows), I # {}
    PROVE  Oldest(I) \in I /\ Newest(I) \in I
<1>1. DOMAIN rows = 1..Len(rows) /\ Len(rows) \in Nat
  BY DEF TypeOK
<1>2. I \in SUBSET Nat /\ I \in SUBSET (0..Len(rows))
  BY <1>1
<1>3. \E i \in I : \A j \in I : i <= j
  BY <1>2, Least
<1>4. \E i \in I : \A j \in I : i >= j
  BY <1>1, <1>2, Greatest
<1> QED BY <1>3, <1>4 DEF Oldest, Newest

-----------------------------------------------------------------------------
(* Layer 1: types, and the rows that tasks and batches hold *)

\* The phases between the transaction and the next draft.
Phases == {"announce", "check", "reread", "advance", "seed", "fetch"}

HoldsRow == {"voidDraft", "rewrite", "readNew", "void"} \cup Phases

\* Task t holds rows that exist among n; only a finalization may have none yet,
\* and then what it will ask for is a sum of lines.
RowsOf(t, n) ==
    /\ t.pc \in HoldsRow => t.row \in 1..n
    /\ t.pc \in {"finalize", "settle"} => t.row \in 0..n /\ (t.row = 0 => t.total \in Nat)

HeldRowsExist ==
    /\ \A a \in Process : RowsOf(task[a], Len(rows))
    /\ \A r \in Runner : batch[r].loop = "pending" =>
         \A due \in batch[r].items : due[1] \in 1..Len(rows)

TypeInv == TypeOK /\ HeldRowsExist

\* What the tasks of each phase hold.
LEMMA TaskShape ==
    ASSUME TypeOK, NEW a \in Process
    PROVE  /\ task[a] \in Task
           /\ task[a].pc \in {"finalize", "settle"} =>
                task[a].row \in Nat /\ task[a].sub \in Sub \cup {NoSub}
                /\ task[a].period \in Nat /\ task[a].total \in Int
           /\ task[a].pc = "settle" => task[a].credit \in Int
           /\ task[a].pc \in Phases \cup {"insert", "findOpen"} =>
                task[a].sub \in Sub /\ task[a].period \in Nat
           /\ task[a].pc \in Phases => task[a].row \in Nat /\ task[a].credit \in Nat
           /\ task[a].pc = "setStatus" =>
                task[a].sub \in Sub /\ task[a].from \in SubscriptionStatus
                /\ task[a].to \in SubscriptionStatus
           /\ task[a].pc \in {"create", "resume", "load"} => task[a].sub \in Sub
           /\ task[a].pc \in {"findDraft", "voidDraft"} =>
                task[a].after \in SetStatusTask \cup InsertTask
           /\ task[a].pc \in {"voidDraft", "rewrite", "readNew", "void"} => task[a].row \in Nat
           /\ task[a].pc = "void" => task[a].total \in Int
<1>1. task[a] \in Task
  BY DEF TypeOK
<1> QED BY <1>1 DEF Task, Idle, SetStatusTask, InsertTask, Phases

\* The tasks that the steps of a generation go on with.
InPhase(a, pc)       == [task[a] EXCEPT !.pc = pc]
InPhaseOf(a, pc, p)  == [task[a] EXCEPT !.pc = pc, !.period = p]
Closing(a, c)        == [task[a] EXCEPT !.pc = "reread", !.credit = c]

LEMMA PhaseShape ==
    ASSUME TypeOK, NEW a \in Process, task[a].pc \in Phases, NEW to \in Phases
    PROVE  /\ InPhase(a, to) \in Task
           /\ InPhase(a, to).pc = to /\ InPhase(a, to).row = task[a].row
           /\ InPhase(a, to).sub = task[a].sub
           /\ InPhase(a, to).period = task[a].period
           /\ \A p \in Nat :
                /\ InPhaseOf(a, to, p) \in Task
                /\ InPhaseOf(a, to, p).pc = to /\ InPhaseOf(a, to, p).row = task[a].row
                /\ InPhaseOf(a, to, p).sub = task[a].sub
                /\ InPhaseOf(a, to, p).period = p
           /\ \A c \in Nat :
                /\ Closing(a, c) \in Task
                /\ Closing(a, c).pc = "reread" /\ Closing(a, c).row = task[a].row
                /\ Closing(a, c).sub = task[a].sub
                /\ Closing(a, c).period = task[a].period
<1> DEFINE S == [pc : Phases, row : Nat, sub : Sub, period : Nat, credit : Nat]
<1>1. task[a] \in Task
  BY DEF TypeOK
<1>2. task[a] \in S
  BY <1>1 DEF Task, Idle, SetStatusTask, InsertTask, Phases
<1>3. S \subseteq Task
  BY DEF Task, Phases
<1>4. "reread" \in Phases
  BY DEF Phases
<1> HIDE DEF Phases
<1> QED BY <1>2, <1>3, <1>4 DEF InPhase, InPhaseOf, Closing

\* Handing a task over.
LEMMA GoType ==
    ASSUME TypeOK, NEW a \in Process, NEW t \in Task, Go(a, t)
    PROVE  /\ task' \in [Process -> Task]
           /\ task'[a] = t
           /\ \A b \in Process : b # a => task'[b] = task[b]
BY DEF TypeOK, Go

\* A draft inserted: all other rows are as they were.
LEMMA InsertEffect ==
    ASSUME TypeOK, NEW v \in Invoice, Insert(v)
    PROVE  /\ rows' \in Seq(Invoice)
           /\ ledger' \in Seq([finalized : Nat, receivable : Int])
           /\ Len(rows') = Len(rows) + 1 /\ Len(ledger') = Len(rows')
           /\ DOMAIN rows' = DOMAIN rows \cup {Len(rows) + 1}
           /\ Len(rows) + 1 \notin DOMAIN rows
           /\ \A i \in DOMAIN rows : rows'[i] = rows[i] /\ ledger'[i] = ledger[i]
           /\ rows'[Len(rows) + 1] = v
           /\ ledger'[Len(rows) + 1] = Unbooked
<1>1. Unbooked \in [finalized : Nat, receivable : Int]
  BY DEF Unbooked
<1> QED BY <1>1 DEF TypeOK, Insert

\* The drafts that are inserted ask for the sum of their lines.
IsFresh(v) ==
    v \in Invoice /\ v.status = "draft" /\ v.total = v.items - v.credit

LEMMA DraftIsFresh ==
    ASSUME NEW s \in Sub \cup {NoSub}, NEW p \in Nat, NEW n \in Amount
    PROVE  IsFresh(Draft(s, p, n)) /\ Draft(s, p, n).sub = s /\ Draft(s, p, n).period = p
<1>1. n \in Nat
  BY BillingAssumption
<1> QED BY <1>1 DEF Draft, Invoice, InvoiceStatus, IsFresh

LEMMA CreditedIsFresh ==
    ASSUME NEW s \in Sub \cup {NoSub}, NEW p \in Nat, NEW n \in Amount, NEW c \in Nat
    PROVE  /\ IsFresh(CreditedDraft(s, p, n, c))
           /\ CreditedDraft(s, p, n, c).sub = s /\ CreditedDraft(s, p, n, c).period = p
<1>1. n \in Nat
  BY BillingAssumption
<1> QED BY <1>1 DEF CreditedDraft, Invoice, InvoiceStatus, IsFresh

\* A row replaced: all other rows are as they were.
LEMMA ReplaceEffect ==
    ASSUME TypeOK, NEW i \in DOMAIN rows, NEW v \in Invoice, rows' = [rows EXCEPT ![i] = v]
    PROVE  /\ rows' \in Seq(Invoice)
           /\ Len(rows') = Len(rows)
           /\ DOMAIN rows' = DOMAIN rows
           /\ rows'[i] = v
           /\ \A j \in DOMAIN rows : j # i => rows'[j] = rows[j]
BY DEF TypeOK

LEMMA ReplaceEntry ==
    ASSUME TypeOK, NEW i \in DOMAIN rows, NEW e \in [finalized : Nat, receivable : Int],
           ledger' = [ledger EXCEPT ![i] = e]
    PROVE  /\ ledger' \in Seq([finalized : Nat, receivable : Int])
           /\ Len(ledger') = Len(rows)
           /\ ledger'[i] = e
           /\ \A j \in DOMAIN rows : j # i => ledger'[j] = ledger[j]
<1>1. DOMAIN rows = 1..Len(ledger)
  BY DEF TypeOK
<1> QED BY <1>1 DEF TypeOK

\* The rows and the entries are records.
LEMMA RowShape ==
    ASSUME TypeOK, NEW i \in DOMAIN rows
    PROVE  /\ rows[i] \in Invoice
           /\ rows[i].sub \in Sub \cup {NoSub} /\ rows[i].period \in Nat
           /\ rows[i].status \in InvoiceStatus
           /\ rows[i].items \in Nat /\ rows[i].credit \in Nat /\ rows[i].total \in Int
           /\ ledger[i] \in [finalized : Nat, receivable : Int]
           /\ ledger[i].finalized \in Nat /\ ledger[i].receivable \in Int
           /\ i \in Nat /\ i # 0
<1>1. i \in 1..Len(rows) /\ i \in 1..Len(ledger)
  BY DEF TypeOK
<1>2. rows[i] \in Invoice
  BY <1>1 DEF TypeOK
<1>3. ledger[i] \in [finalized : Nat, receivable : Int]
  <2> DEFINE E == [finalized : Nat, receivable : Int]
  <2>1. ledger \in Seq(E)
    BY DEF TypeOK
  <2> HIDE DEF E
  <2>2. ledger[i] \in E
    BY <1>1, <2>1
  <2> QED BY <2>2 DEF E
<1> QED BY <1>1, <1>2, <1>3 DEF Invoice

\* A process goes on with a task of rows that exist.
LEMMA GoKeeps ==
    ASSUME TypeInv, NEW a \in Process, NEW t \in Task, Go(a, t), Len(rows') \in Nat,
           Len(rows') >= Len(rows), RowsOf(t, Len(rows'))
    PROVE  /\ task' \in [Process -> Task]
           /\ \A b \in Process : RowsOf(task'[b], Len(rows'))
<1>1. Len(rows) \in Nat /\ 1..Len(rows) \subseteq 1..Len(rows')
      /\ 0..Len(rows) \subseteq 0..Len(rows')
  BY DEF TypeInv, TypeOK
<1>2. \A b \in Process : RowsOf(task[b], Len(rows))
  BY DEF TypeInv, TypeOK, HeldRowsExist
<1>3. \A b \in Process : RowsOf(task[b], Len(rows'))
  BY <1>1, <1>2 DEF RowsOf
<1> QED BY <1>3, GoType DEF TypeInv

\* Steps that only move a process.
LEMMA MoveKeepsType ==
    ASSUME TypeInv, NEW a \in Process, NEW t \in Task, Go(a, t), RowsOf(t, Len(rows)),
           UNCHANGED <<subs, rows, ledger, money, batch>>
    PROVE  TypeInv'
<1>1. Len(rows) \in Nat /\ rows' = rows
  BY DEF TypeInv, TypeOK
<1>2. task' \in [Process -> Task] /\ \A b \in Process : RowsOf(task'[b], Len(rows'))
  BY <1>1, GoKeeps
<1> QED BY <1>1, <1>2 DEF TypeInv, TypeOK, HeldRowsExist, money

\* Tasks that hold no row.
LEMMA PlainTask ==
    ASSUME NEW t, t.pc \notin HoldsRow \cup {"finalize", "settle"}, NEW n
    PROVE  RowsOf(t, n)
BY DEF RowsOf

LEMMA IdleTask == Idle \in Task /\ \A n : RowsOf(Idle, n)
BY DEF Idle, Task, RowsOf, HoldsRow, Phases

LEMMA FinalizingTask ==
    ASSUME TypeOK, NEW i \in 0..Len(rows), NEW s \in Sub \cup {NoSub}, NEW p \in Nat,
           NEW n \in Int, i = 0 => n \in Nat
    PROVE  Finalizing(i, s, p, n) \in Task /\ RowsOf(Finalizing(i, s, p, n), Len(rows))
<1>1. i \in Nat
  BY DEF TypeOK
<1> QED BY <1>1 DEF Finalizing, Task, RowsOf, HoldsRow, Phases

\* The loops of a generation and what they look at.
LEMMA GenerationKeepsType ==
    ASSUME TypeInv, NEW r \in Runner,
           StartGeneration(r) \/ VisitSubscription(r) \/ EndSubscriptions(r)
           \/ VisitStandalone(r) \/ EndGeneration(r) \/ Crash(r)
    PROVE  TypeInv'
<1> DEFINE Due     == [loop : {"none", "due"}, items : SUBSET (Sub \X Nat)]
           Pending == [loop : {"pending"}, items : SUBSET (Nat \X Int)]
<1>r. r \in Process
  BY DEF Process
<1>t. TypeOK /\ Len(rows) \in Nat /\ DOMAIN rows = 1..Len(rows)
  BY DEF TypeInv, TypeOK
<1>b. batch[r] \in Due \cup Pending
  BY DEF TypeInv, TypeOK, HeldRowsExist
<1>n. NoBatch \in Due /\ NoBatch.loop # "pending"
  BY DEF NoBatch
<1> DEFINE BatchOK(b) ==
      /\ b \in [Runner -> Due \cup Pending]
      /\ \A x \in Runner : b[x].loop = "pending" =>
           \A due \in b[x].items : due[1] \in 1..Len(rows)
<1>s. BatchOK(batch)
  BY DEF TypeInv, TypeOK, HeldRowsExist
\* It is enough to look at the batch and at the task.
<1>u. ASSUME BatchOK(batch'), UNCHANGED <<subs, rows, ledger, money>>,
             \/ UNCHANGED task
             \/ \E t \in Task : Go(r, t) /\ RowsOf(t, Len(rows))
      PROVE  TypeInv'
  <2>1. rows' = rows
    BY <1>u
  <2>2. task' \in [Process -> Task] /\ \A b \in Process : RowsOf(task'[b], Len(rows'))
    <3>1. CASE UNCHANGED task
      BY <2>1, <3>1 DEF TypeInv, TypeOK, HeldRowsExist
    <3>2. CASE \E t \in Task : Go(r, t) /\ RowsOf(t, Len(rows))
      BY <2>1, <3>2, <1>r, <1>t, GoKeeps
    <3> QED BY <1>u, <3>1, <3>2
  <2> QED BY <1>u, <2>1, <2>2 DEF TypeInv, TypeOK, HeldRowsExist, money
<1>i. ASSUME NEW b \in Due \cup Pending,
             b.loop = "pending" => \A due \in b.items : due[1] \in 1..Len(rows),
             batch' = [batch EXCEPT ![r] = b]
      PROVE  BatchOK(batch')
  BY <1>i, <1>s
<1>v. ASSUME NEW item, batch' = [batch EXCEPT ![r].items = @ \ {item}]
      PROVE  BatchOK(batch')
  <2> DEFINE b == [batch[r] EXCEPT !.items = @ \ {item}]
  <2>1. b \in Due \cup Pending /\ b.loop = batch[r].loop /\ b.items \subseteq batch[r].items
    BY <1>b
  <2>2. batch' = [batch EXCEPT ![r] = b]
    BY <1>v
  <2> HIDE DEF b
  <2> QED BY <2>1, <2>2, <1>i, <1>s
<1> HIDE DEF BatchOK
<1>1. CASE StartGeneration(r)
  <2>1. PICK due \in SUBSET Billable :
          batch' = [batch EXCEPT ![r] =
                     [loop |-> "due", items |-> {<<s, subs[s].period>> : s \in due}]]
    BY <1>1 DEF StartGeneration
  <2>2. \A s \in due : s \in Sub /\ subs[s].period \in Nat
    BY <1>t DEF Billable, TypeOK
  <2>3. [loop |-> "due", items |-> {<<s, subs[s].period>> : s \in due}] \in Due
    BY <2>2
  <2>4. BatchOK(batch')
    BY <2>1, <2>3, <1>i
  <2> QED BY <1>1, <1>u, <2>4 DEF StartGeneration
<1>2. CASE VisitSubscription(r)
  <2>1. PICK due \in batch[r].items :
          /\ Visiting(r, "due", due)
          /\ \/ SkipPeriod(r, due[1], due[2])
             \/ PickDraft(r, due[1], due[2])
             \/ PickMissing(r, due[1], due[2])
    BY <1>2 DEF VisitSubscription
  <2>2. BatchOK(batch')
    BY <2>1, <1>v DEF Visiting
  <2>3. due[1] \in Sub /\ due[2] \in Nat
    <3>1. batch[r] \in Due
      BY <2>1, <1>b DEF Visiting
    <3> QED BY <2>1, <3>1
  <2>4. CASE SkipPeriod(r, due[1], due[2])
    BY <1>2, <1>u, <2>2, <2>4 DEF VisitSubscription, SkipPeriod
  <2>5. CASE PickDraft(r, due[1], due[2])
    <3>1. PICK i \in OfPeriod(due[1], due[2]) \cap Drafts :
            Go(r, Finalizing(i, due[1], due[2], rows[i].total))
      BY <2>5 DEF PickDraft
    <3>2. i \in DOMAIN rows /\ i \in 0..Len(rows) /\ i # 0 /\ rows[i].total \in Int
      BY <3>1, <1>t, RowShape DEF Drafts
    <3>3. Finalizing(i, due[1], due[2], rows[i].total) \in Task
          /\ RowsOf(Finalizing(i, due[1], due[2], rows[i].total), Len(rows))
      BY <3>2, <2>3, <1>t, FinalizingTask
    <3> QED BY <1>2, <1>u, <2>2, <3>1, <3>3 DEF VisitSubscription
  <2>6. CASE PickMissing(r, due[1], due[2])
    <3>1. PICK n \in Amount : Go(r, Finalizing(0, due[1], due[2], n))
      BY <2>6 DEF PickMissing
    <3>2. n \in Nat /\ 0 \in 0..Len(rows)
      BY <1>t, BillingAssumption
    <3>3. Finalizing(0, due[1], due[2], n) \in Task
          /\ RowsOf(Finalizing(0, due[1], due[2], n), Len(rows))
      BY <3>2, <2>3, <1>t, FinalizingTask
    <3> QED BY <1>2, <1>u, <2>2, <3>1, <3>3 DEF VisitSubscription
  <2> QED BY <2>1, <2>4, <2>5, <2>6
<1>3. CASE EndSubscriptions(r)
  <2>1. PICK due \in SUBSET {i \in Drafts : ~IsRecurring(i)} :
          batch' = [batch EXCEPT ![r] =
                     [loop |-> "pending", items |-> {<<i, rows[i].total>> : i \in due}]]
    BY <1>3 DEF EndSubscriptions
  <2>2. \A i \in due : i \in 1..Len(rows) /\ i \in Nat /\ rows[i].total \in Int
    BY <1>t, RowShape DEF Drafts
  <2>3. [loop |-> "pending", items |-> {<<i, rows[i].total>> : i \in due}] \in Pending
    BY <2>2
  <2> DEFINE b == [loop |-> "pending", items |-> {<<i, rows[i].total>> : i \in due}]
  <2>4. b \in Pending /\ \A d \in b.items : d[1] \in 1..Len(rows)
    BY <2>2, <2>3
  <2>5. batch' = [batch EXCEPT ![r] = b]
    BY <2>1
  <2> HIDE DEF b
  <2>6. BatchOK(batch')
    BY <2>4, <2>5, <1>i
  <2> QED BY <1>3, <1>u, <2>6 DEF EndSubscriptions
<1>4. CASE VisitStandalone(r)
  <2>1. PICK due \in batch[r].items :
          /\ Visiting(r, "pending", due)
          /\ Go(r, Finalizing(due[1], NoSub, 0, due[2]))
    BY <1>4 DEF VisitStandalone
  <2>2. BatchOK(batch')
    BY <2>1, <1>v DEF Visiting
  <2>3. due[2] \in Int /\ due[1] \in 0..Len(rows) /\ due[1] # 0
    <3>1. batch[r] \in Pending
      BY <2>1, <1>b DEF Visiting
    <3>2. due[1] \in 1..Len(rows)
      BY <2>1, <1>s DEF Visiting, BatchOK
    <3> QED BY <2>1, <3>1, <3>2, <1>t
  <2>4. Finalizing(due[1], NoSub, 0, due[2]) \in Task
        /\ RowsOf(Finalizing(due[1], NoSub, 0, due[2]), Len(rows))
    BY <2>3, <1>t, FinalizingTask
  <2> QED BY <1>4, <1>u, <2>1, <2>2, <2>4 DEF VisitStandalone
<1>5. CASE EndGeneration(r)
  BY <1>5, <1>u, <1>i, <1>n DEF EndGeneration
<1>6. CASE Crash(r)
  BY <1>6, <1>u, <1>i, <1>n, IdleTask DEF Crash
<1> QED BY <1>1, <1>2, <1>3, <1>4, <1>5, <1>6

\* Steps that leave the batches alone: whatever they write has its type, and
\* rows are not removed.
LEMMA WriteKeepsType ==
    ASSUME TypeInv, NEW a \in Process, NEW t \in Task, Go(a, t), RowsOf(t, Len(rows')),
           subs' \in [Sub -> [status : SubscriptionStatus, period : Nat, next : BOOLEAN]],
           rows' \in Seq(Invoice),
           ledger' \in Seq([finalized : Nat, receivable : Int]),
           Len(ledger') = Len(rows'), Len(rows') >= Len(rows),
           balance' \in Int, granted' \in Int, applied' \in Int,
           UNCHANGED batch
    PROVE  TypeInv'
<1>1. Len(rows) \in Nat /\ Len(rows') \in Nat /\ 1..Len(rows) \subseteq 1..Len(rows')
  BY DEF TypeInv, TypeOK
<1>2. task' \in [Process -> Task] /\ \A b \in Process : RowsOf(task'[b], Len(rows'))
  BY <1>1, GoKeeps
<1> QED BY <1>1, <1>2 DEF TypeInv, TypeOK, HeldRowsExist

\* The credit that is applied is not negative.
LEMMA AppliedCredit ==
    ASSUME TypeOK, NEW a \in Process, At(a, "settle"), ~CreditRefused(task[a])
    PROVE  /\ CreditToApply(task[a]) \in Nat
           /\ task[a].total - CreditToApply(task[a]) \in Int
           /\ task[a].total \in Int /\ task[a].credit \in Int
<1>1. task[a].total \in Int /\ task[a].credit \in Int
  BY TaskShape DEF At
<1> QED BY <1>1 DEF CreditRefused, CreditToApply

\* What settling leaves of an invoice and of its ledger entry.
LEMMA SettledShape ==
    ASSUME NEW v \in Invoice, NEW t, NEW c \in Nat, c = CreditToApply(t), t.total - c \in Int
    PROVE  /\ Settled(v, t) \in Invoice
           /\ Settled(v, t).sub = v.sub /\ Settled(v, t).period = v.period
           /\ Settled(v, t).status = IF t.total - c = 0 THEN "paid" ELSE "finalized"
           /\ Settled(v, t).items = v.items
           /\ Settled(v, t).credit = v.credit + c
           /\ Settled(v, t).total = t.total - c
<1> DEFINE d == t.total - c
           w == [v EXCEPT !.status = IF d = 0 THEN "paid" ELSE "finalized",
                          !.credit = @ + c, !.total = d]
<1>1. Settled(v, t) = w
  BY DEF Settled
<1>2. d \in Int /\ v.credit + c \in Nat
  BY DEF Invoice
<1> HIDE DEF d
<1>3. /\ w \in Invoice /\ w.sub = v.sub /\ w.period = v.period
      /\ w.status = IF d = 0 THEN "paid" ELSE "finalized"
      /\ w.items = v.items /\ w.credit = v.credit + c /\ w.total = d
  BY <1>2 DEF Invoice, InvoiceStatus
<1> QED BY <1>1, <1>3 DEF d

LEMMA FinalizedShape ==
    ASSUME NEW e \in [finalized : Nat, receivable : Int], NEW d \in Int
    PROVE  /\ Finalized(e, d) \in [finalized : Nat, receivable : Int]
           /\ Finalized(e, d).finalized = e.finalized + (IF d <= 0 THEN 0 ELSE 1)
           /\ Finalized(e, d).receivable = e.receivable + (IF d <= 0 THEN 0 ELSE d)
<1>1. e.finalized \in Nat /\ e.receivable \in Int
  OBVIOUS
<1>2. CASE d <= 0
  BY <1>1, <1>2 DEF Finalized
<1>3. CASE ~(d <= 0)
  <2> DEFINE f == e.finalized + 1
             g == e.receivable + d
  <2>1. f \in Nat /\ g \in Int
    BY <1>1
  <2>2. Finalized(e, d) = [e EXCEPT !.finalized = f, !.receivable = g]
    BY <1>3 DEF Finalized
  <2> HIDE DEF f, g
  <2>3. /\ Finalized(e, d) \in [finalized : Nat, receivable : Int]
        /\ Finalized(e, d).finalized = f /\ Finalized(e, d).receivable = g
    BY <2>1, <2>2
  <2> QED BY <1>3, <2>3 DEF f, g
<1> QED BY <1>2, <1>3

\* A new invoice settled as it is created: all other rows are as they were.
LEMMA AppendEffect ==
    ASSUME TypeOK, NEW v \in Invoice, NEW e \in [finalized : Nat, receivable : Int],
           rows' = Append(rows, v), ledger' = Append(ledger, e)
    PROVE  /\ rows' \in Seq(Invoice)
           /\ ledger' \in Seq([finalized : Nat, receivable : Int])
           /\ Len(rows') = Len(rows) + 1 /\ Len(ledger') = Len(rows')
           /\ DOMAIN rows' = DOMAIN rows \cup {Len(rows) + 1}
           /\ Len(rows) + 1 \notin DOMAIN rows
           /\ \A i \in DOMAIN rows : rows'[i] = rows[i] /\ ledger'[i] = ledger[i]
           /\ rows'[Len(rows) + 1] = v
           /\ ledger'[Len(rows) + 1] = e
BY DEF TypeOK

LEMMA DraftShape ==
    ASSUME NEW s \in Sub \cup {NoSub}, NEW p \in Nat, NEW n \in Nat
    PROVE  /\ Draft(s, p, n) \in Invoice
           /\ Draft(s, p, n).sub = s /\ Draft(s, p, n).period = p
           /\ Draft(s, p, n).status = "draft" /\ Draft(s, p, n).items = n
           /\ Draft(s, p, n).credit = 0 /\ Draft(s, p, n).total = n
           /\ Unbooked \in [finalized : Nat, receivable : Int]
           /\ Unbooked.finalized = 0 /\ Unbooked.receivable = 0
BY DEF Draft, Unbooked, Invoice, InvoiceStatus

\* The finalizing transaction writes the row that the task holds, or a new one.
SettledRow(a) == IF task[a].row = 0 THEN Len(rows) + 1 ELSE task[a].row

Used(a) == CreditToApply(task[a])
Due(a)  == task[a].total - Used(a)

LEMMA SettleEffect ==
    ASSUME TypeInv, NEW a \in Process, Settle(a)
    PROVE  LET k   == SettledRow(a)
               c   == Used(a)
               due == Due(a)
           IN  /\ c \in Nat /\ due \in Int
               /\ rows' \in Seq(Invoice)
               /\ ledger' \in Seq([finalized : Nat, receivable : Int])
               /\ Len(ledger') = Len(rows') /\ Len(rows') >= Len(rows)
               /\ k \in 1..Len(rows')
               /\ DOMAIN rows' = DOMAIN rows \cup {k}
               /\ k \in DOMAIN rows <=> task[a].row # 0
               /\ \A j \in DOMAIN rows : j # k => rows'[j] = rows[j] /\ ledger'[j] = ledger[j]
               /\ rows'[k].status = IF due = 0 THEN "paid" ELSE "finalized"
               /\ rows'[k].total = due
               /\ task[a].row # 0 =>
                    /\ rows'[k].sub = rows[k].sub /\ rows'[k].period = rows[k].period
                    /\ rows'[k].items = rows[k].items
                    /\ rows'[k].credit = rows[k].credit + c
                    /\ ledger'[k].finalized = ledger[k].finalized + (IF due <= 0 THEN 0 ELSE 1)
                    /\ ledger'[k].receivable = ledger[k].receivable + (IF due <= 0 THEN 0 ELSE due)
               /\ task[a].row = 0 =>
                    /\ rows'[k].sub = task[a].sub /\ rows'[k].period = task[a].period
                    /\ rows'[k].items = task[a].total /\ rows'[k].credit = c
                    /\ ledger'[k].finalized = (IF due <= 0 THEN 0 ELSE 1)
                    /\ ledger'[k].receivable = (IF due <= 0 THEN 0 ELSE due)
<1> DEFINE c == CreditToApply(task[a])
           due == task[a].total - c
           k == IF task[a].row = 0 THEN Len(rows) + 1 ELSE task[a].row
<1>0. c = Used(a) /\ due = Due(a) /\ k = SettledRow(a)
  BY DEF Used, Due, SettledRow
<1>1. c \in Nat /\ due \in Int
  BY AppliedCredit DEF Settle, TypeInv
<1>2. TypeOK /\ Len(rows) \in Nat /\ DOMAIN rows = 1..Len(rows)
  BY DEF TypeInv, TypeOK
<1>3. task[a].row \in 0..Len(rows) /\ task[a].sub \in Sub \cup {NoSub}
      /\ task[a].period \in Nat /\ task[a].total \in Int
      /\ (task[a].row = 0 => task[a].total \in Nat)
  <2>1. task[a].pc = "settle"
    BY DEF Settle, At
  <2> QED BY <1>2, <2>1, TaskShape DEF TypeInv, HeldRowsExist, RowsOf
<1>4. CASE task[a].row = 0
  <2> DEFINE d == Draft(task[a].sub, task[a].period, task[a].total)
             v == Settled(d, task[a])
             e == Finalized(Unbooked, due)
  <2>1. d \in Invoice /\ d.sub = task[a].sub /\ d.period = task[a].period
        /\ d.items = task[a].total /\ d.credit = 0
        /\ Unbooked \in [finalized : Nat, receivable : Int]
        /\ Unbooked.finalized = 0 /\ Unbooked.receivable = 0
    <3>1. task[a].sub \in Sub \cup {NoSub} /\ task[a].period \in Nat /\ task[a].total \in Nat
      BY <1>3, <1>4
    <3> HIDE DEF c, due, k
    <3> QED BY <3>1, DraftShape
  <2>2. rows' = Append(rows, v) /\ ledger' = Append(ledger, e)
    BY <1>4 DEF Settle
  <2> HIDE DEF d
  <2>3. /\ v \in Invoice /\ v.sub = d.sub /\ v.period = d.period
        /\ v.status = IF due = 0 THEN "paid" ELSE "finalized"
        /\ v.items = d.items /\ v.credit = d.credit + c /\ v.total = due
    BY <1>1, <2>1, SettledShape
  <2>4. /\ e \in [finalized : Nat, receivable : Int]
        /\ e.finalized = (IF due <= 0 THEN 0 ELSE 1)
        /\ e.receivable = (IF due <= 0 THEN 0 ELSE due)
    <3> HIDE DEF d, v, c, due
    <3>1. /\ e \in [finalized : Nat, receivable : Int]
          /\ e.finalized = Unbooked.finalized + (IF due <= 0 THEN 0 ELSE 1)
          /\ e.receivable = Unbooked.receivable + (IF due <= 0 THEN 0 ELSE due)
      BY <1>1, <2>1, FinalizedShape
    <3> QED BY <1>1, <2>1, <3>1
  <2> HIDE DEF v, e
  <2>5. /\ rows' \in Seq(Invoice)
        /\ ledger' \in Seq([finalized : Nat, receivable : Int])
        /\ Len(rows') = Len(rows) + 1 /\ Len(ledger') = Len(rows')
        /\ DOMAIN rows' = DOMAIN rows \cup {Len(rows) + 1}
        /\ Len(rows) + 1 \notin DOMAIN rows
        /\ \A i \in DOMAIN rows : rows'[i] = rows[i] /\ ledger'[i] = ledger[i]
        /\ rows'[Len(rows) + 1] = v
        /\ ledger'[Len(rows) + 1] = e
    BY <1>2, <2>2, <2>3, <2>4, AppendEffect
  <2>6. k = Len(rows) + 1 /\ k \in 1..Len(rows') /\ d.credit + c = c
    BY <1>1, <1>2, <1>4, <2>1, <2>5
  <2> HIDE DEF k, c, due
  <2> QED BY <1>0, <1>1, <1>2, <1>4, <2>1, <2>3, <2>4, <2>5, <2>6
<1>5. CASE task[a].row # 0
  <2>1. k \in DOMAIN rows /\ k = task[a].row
    BY <1>2, <1>3, <1>5
  <2> DEFINE v == Settled(rows[k], task[a])
             e == Finalized(ledger[k], due)
  <2>2. rows' = [rows EXCEPT ![k] = v] /\ ledger' = [ledger EXCEPT ![k] = e]
    BY <1>5, <2>1 DEF Settle
  <2>3. rows[k] \in Invoice /\ ledger[k] \in [finalized : Nat, receivable : Int]
    BY <1>2, <2>1, RowShape
  <2>4. /\ v \in Invoice /\ v.sub = rows[k].sub /\ v.period = rows[k].period
        /\ v.status = IF due = 0 THEN "paid" ELSE "finalized"
        /\ v.items = rows[k].items /\ v.credit = rows[k].credit + c /\ v.total = due
    <3>1. c = CreditToApply(task[a]) /\ due = task[a].total - c
      OBVIOUS
    <3> HIDE DEF k, c, due
    <3>2. task[a].total - c \in Int /\ c \in Nat /\ rows[k] \in Invoice
      BY <1>1, <2>3, <3>1
    <3>3. /\ v \in Invoice /\ v.sub = rows[k].sub /\ v.period = rows[k].period
          /\ v.status = IF task[a].total - c = 0 THEN "paid" ELSE "finalized"
          /\ v.items = rows[k].items /\ v.credit = rows[k].credit + c
          /\ v.total = task[a].total - c
      BY <3>1, <3>2, SettledShape
    <3> QED BY <3>1, <3>3
  <2>5. /\ e \in [finalized : Nat, receivable : Int]
        /\ e.finalized = ledger[k].finalized + (IF due <= 0 THEN 0 ELSE 1)
        /\ e.receivable = ledger[k].receivable + (IF due <= 0 THEN 0 ELSE due)
    BY <1>1, <2>3, FinalizedShape
  <2> HIDE DEF v, e, k
  <2>6. /\ rows' \in Seq(Invoice) /\ Len(rows') = Len(rows) /\ DOMAIN rows' = DOMAIN rows
        /\ rows'[k] = v /\ \A j \in DOMAIN rows : j # k => rows'[j] = rows[j]
    BY <1>2, <2>1, <2>2, <2>4, ReplaceEffect
  <2>7. /\ ledger' \in Seq([finalized : Nat, receivable : Int])
        /\ Len(ledger') = Len(rows) /\ ledger'[k] = e
        /\ \A j \in DOMAIN rows : j # k => ledger'[j] = ledger[j]
    <3>1. TypeOK /\ k \in DOMAIN rows /\ e \in [finalized : Nat, receivable : Int]
          /\ ledger' = [ledger EXCEPT ![k] = e]
      BY <1>2, <2>1, <2>2, <2>5
    <3> QED BY <3>1, ReplaceEntry
  <2>8. k \in 1..Len(rows') /\ DOMAIN rows' = DOMAIN rows \cup {k} /\ Len(rows') >= Len(rows)
    BY <1>2, <2>1, <2>6
  <2> HIDE DEF c, due
  <2> QED BY <1>0, <1>1, <1>2, <1>5, <2>1, <2>4, <2>5, <2>6, <2>7, <2>8
<1> QED BY <1>4, <1>5

LEMMA FinalizationKeepsType ==
    ASSUME TypeInv, NEW a \in Process, Finalization(a)
    PROVE  TypeInv'
<1>t. TypeOK /\ Len(rows) \in Nat /\ RowsOf(task[a], Len(rows))
  BY DEF TypeInv, TypeOK, HeldRowsExist
<1>1. CASE ReadCredit(a)
  <2> DEFINE t == [pc |-> "settle", row |-> task[a].row, sub |-> task[a].sub,
                   period |-> task[a].period, total |-> task[a].total, credit |-> balance]
  <2>1. t \in Task /\ RowsOf(t, Len(rows))
    BY <1>1, <1>t, TaskShape DEF ReadCredit, At, Task, RowsOf, HoldsRow, Phases, TypeOK
  <2>2. Go(a, t) /\ UNCHANGED <<subs, rows, ledger, money, batch>>
    BY <1>1 DEF ReadCredit
  <2> HIDE DEF t
  <2> QED BY <2>1, <2>2, MoveKeepsType
<1>2. CASE SettleThrows(a)
  BY <1>2, IdleTask, MoveKeepsType DEF SettleThrows
<1>3. CASE Settle(a)
  <2>1. /\ Used(a) \in Nat /\ rows' \in Seq(Invoice)
        /\ ledger' \in Seq([finalized : Nat, receivable : Int])
        /\ Len(ledger') = Len(rows') /\ Len(rows') >= Len(rows)
    BY <1>3, SettleEffect
  <2>2. balance' \in Int /\ granted' \in Int /\ applied' \in Int
    <3>1. balance \in Int /\ granted \in Int /\ applied \in Int
      BY <1>t DEF TypeOK
    <3>2. /\ balance' = balance - Used(a) /\ applied' = applied + Used(a)
          /\ UNCHANGED granted
      BY <1>3 DEF Settle, DeductCredit, Used
    <3> QED BY <2>1, <3>1, <3>2
  <2>3. AfterSettle(a) \in Task /\ RowsOf(AfterSettle(a), Len(rows'))
    <3>1. CASE a \in Runner /\ task[a].sub # NoSub
      <4>1. task[a].sub \in Sub /\ task[a].period \in Nat
        BY <1>3, <1>t, <3>1, TaskShape DEF Settle, At
      <4>2. Announcing(a).row \in 1..Len(rows') /\ Announcing(a).pc = "announce"
        <5>1. SettledRow(a) \in 1..Len(rows')
          BY <1>3, SettleEffect
        <5> QED BY <5>1 DEF Announcing, SettledRow
      <4>3. Announcing(a) \in Task
        <5>1. Announcing(a).row \in Nat
          BY <4>2
        <5> QED BY <4>1, <5>1 DEF Announcing, Task
      <4> QED BY <3>1, <4>2, <4>3 DEF AfterSettle, RowsOf, HoldsRow, Phases
    <3>2. CASE ~(a \in Runner /\ task[a].sub # NoSub)
      BY <3>2, IdleTask DEF AfterSettle
    <3> QED BY <3>1, <3>2
  <2>4. Go(a, AfterSettle(a)) /\ UNCHANGED <<subs, batch>>
    BY <1>3 DEF Settle
  <2>5. subs' \in [Sub -> [status : SubscriptionStatus, period : Nat, next : BOOLEAN]]
    BY <1>t, <2>4 DEF TypeOK
  <2> QED BY <2>1, <2>2, <2>3, <2>4, <2>5, WriteKeepsType
<1> QED BY <1>1, <1>2, <1>3 DEF Finalization

\* An insertion: the row is there, nothing else is written.
LEMMA InsertKeepsType ==
    ASSUME TypeInv, NEW a \in Process, NEW t \in Task, Go(a, t), RowsOf(t, Len(rows) + 1),
           NEW v \in Invoice, Insert(v), UNCHANGED <<subs, money, batch>>
    PROVE  TypeInv'
<1>1. TypeOK /\ Len(rows) \in Nat
  BY DEF TypeInv, TypeOK
<1>2. /\ rows' \in Seq(Invoice)
      /\ ledger' \in Seq([finalized : Nat, receivable : Int])
      /\ Len(rows') = Len(rows) + 1 /\ Len(ledger') = Len(rows')
  BY <1>1, InsertEffect
<1>3. Len(rows') >= Len(rows) /\ RowsOf(t, Len(rows'))
  BY <1>1, <1>2
<1>4. /\ subs' \in [Sub -> [status : SubscriptionStatus, period : Nat, next : BOOLEAN]]
      /\ balance' \in Int /\ granted' \in Int /\ applied' \in Int
  BY <1>1 DEF TypeOK, money
<1> QED BY <1>2, <1>3, <1>4, WriteKeepsType

\* A subscription written, with the rest as it was.
LEMMA SubsKeepType ==
    ASSUME TypeInv, NEW a \in Process, NEW t \in Task, Go(a, t), RowsOf(t, Len(rows)),
           subs' \in [Sub -> [status : SubscriptionStatus, period : Nat, next : BOOLEAN]],
           UNCHANGED <<rows, ledger, money, batch>>
    PROVE  TypeInv'
<1>1. TypeOK /\ rows' = rows /\ Len(rows) \in Nat
  BY DEF TypeInv, TypeOK
<1>2. /\ rows' \in Seq(Invoice)
      /\ ledger' \in Seq([finalized : Nat, receivable : Int])
      /\ Len(ledger') = Len(rows') /\ Len(rows') >= Len(rows)
      /\ balance' \in Int /\ granted' \in Int /\ applied' \in Int
  BY <1>1 DEF TypeOK, money
<1> QED BY <1>1, <1>2, WriteKeepsType

\* Either draft a generation may seed.
LEMMA SeededIsFresh ==
    ASSUME TypeOK, NEW r \in Process, SeedDraft(r)
    PROVE  \E v : /\ Insert(v) /\ IsFresh(v)
                 /\ v.sub = task[r].sub /\ v.period = task[r].period
<1>1. task[r].sub \in Sub /\ task[r].period \in Nat /\ task[r].credit \in Nat
  BY TaskShape DEF SeedDraft, At, Phases
<1>2. PICK n \in Amount :
        \/ Insert(Draft(task[r].sub, task[r].period, n))
        \/ Insert(CreditedDraft(task[r].sub, task[r].period, n, task[r].credit))
  BY DEF SeedDraft, InsertDraft
<1> QED BY <1>1, <1>2, DraftIsFresh, CreditedIsFresh

LEMMA AdvanceKeepsType ==
    ASSUME TypeInv, NEW r \in Runner, Advance(r)
    PROVE  TypeInv'
<1>r. r \in Process
  BY DEF Process
<1>t. TypeOK /\ Len(rows) \in Nat
  BY DEF TypeInv, TypeOK
<1>p. task[r].pc \in Phases =>
        /\ task[r].sub \in Sub /\ task[r].period \in Nat
        /\ task[r].row \in 1..Len(rows) /\ task[r].credit \in Nat
  BY <1>r, <1>t, TaskShape DEF TypeInv, HeldRowsExist, RowsOf, HoldsRow, Phases
\* Steps that change the phase and perhaps the period.
<1>s. ASSUME NEW from \in {"announce", "check", "seed"},
             NEW to \in {"check", "reread", "fetch"},
             Step(r, from, to), UNCHANGED subs
      PROVE  TypeInv'
  <2>1. /\ InPhase(r, to) \in Task /\ InPhase(r, to).pc = to
        /\ InPhase(r, to).row = task[r].row
    BY <1>s, <1>r, <1>t, PhaseShape DEF Step, At, Phases
  <2>2. RowsOf(InPhase(r, to), Len(rows))
    BY <1>s, <1>p, <2>1 DEF RowsOf, HoldsRow, Step, At, Phases
  <2>3. Go(r, InPhase(r, to)) /\ UNCHANGED <<subs, rows, ledger, money, batch>>
    BY <1>s DEF Step, InPhase
  <2> QED BY <1>r, <2>1, <2>2, <2>3, MoveKeepsType
<1>1. CASE Announce(r)
  BY <1>1, <1>s DEF Announce
<1>2. CASE AlreadyAdvanced(r)
  BY <1>2, <1>r, IdleTask, MoveKeepsType DEF AlreadyAdvanced
<1>3. CASE CheckPeriod(r)
  <2> DEFINE t == Closing(r, rows[task[r].row].credit)
  <2>1. task[r].pc \in Phases
    BY <1>3 DEF CheckPeriod, At, Phases
  <2>2. task[r].row \in DOMAIN rows
    BY <1>p, <1>t, <2>1 DEF TypeOK
  <2>3. rows[task[r].row].credit \in Nat
    BY <1>t, <2>2, RowShape
  <2>4. t \in Task /\ t.pc = "reread" /\ t.row = task[r].row
    BY <1>r, <1>t, <2>1, <2>3, PhaseShape
  <2>5. Go(r, t) /\ UNCHANGED <<subs, rows, ledger, money, batch>>
    BY <1>3 DEF CheckPeriod, Closing
  <2> HIDE DEF t
  <2>6. RowsOf(t, Len(rows))
    BY <1>p, <2>1, <2>4 DEF RowsOf
  <2> QED BY <1>r, <2>4, <2>5, <2>6, MoveKeepsType
<1>4. CASE ReadPeriod(r)
  <2> DEFINE t == InPhaseOf(r, "advance", subs[task[r].sub].period)
  <2>1. subs[task[r].sub].period \in Nat
    BY <1>4, <1>p, <1>t DEF ReadPeriod, At, TypeOK, Phases
  <2>2. t \in Task /\ t.pc = "advance" /\ t.row = task[r].row
    BY <1>4, <1>r, <1>t, <2>1, PhaseShape DEF ReadPeriod, At, Phases
  <2>3. Go(r, t) /\ UNCHANGED <<subs, rows, ledger, money, batch>>
    BY <1>4 DEF ReadPeriod, InPhaseOf
  <2> HIDE DEF t
  <2>4. RowsOf(t, Len(rows))
    BY <1>4, <1>p, <2>2 DEF RowsOf, HoldsRow, ReadPeriod, At, Phases
  <2> QED BY <1>r, <2>2, <2>3, <2>4, MoveKeepsType
<1>5. CASE AdvancePeriod(r)
  <2> DEFINE p == task[r].period + Month
             t == InPhaseOf(r, "seed", p)
  <2>1. p \in Nat /\ task[r].sub \in Sub
    BY <1>5, <1>p DEF AdvancePeriod, At, Month, Phases
  <2>2. /\ subs' = [subs EXCEPT ![task[r].sub].period = p, ![task[r].sub].next = TRUE]
        /\ Go(r, t) /\ UNCHANGED <<rows, ledger, money, batch>>
    BY <1>5 DEF AdvancePeriod, InPhaseOf
  <2> HIDE DEF p
  <2>3. t \in Task /\ t.pc = "seed" /\ t.row = task[r].row
    BY <1>5, <1>r, <1>t, <2>1, PhaseShape DEF AdvancePeriod, At, Phases
  <2> HIDE DEF t
  <2>4. RowsOf(t, Len(rows))
    BY <1>5, <1>p, <2>3 DEF RowsOf, HoldsRow, AdvancePeriod, At, Phases
  <2>5. subs' \in [Sub -> [status : SubscriptionStatus, period : Nat, next : BOOLEAN]]
    <3> DEFINE s == task[r].sub
               v == [subs[s] EXCEPT !.period = p, !.next = TRUE]
    <3>1. subs \in [Sub -> [status : SubscriptionStatus, period : Nat, next : BOOLEAN]]
      BY <1>t DEF TypeOK
    <3>2. v \in [status : SubscriptionStatus, period : Nat, next : BOOLEAN]
      BY <2>1, <3>1
    <3>3. subs' = [subs EXCEPT ![s] = v]
      BY <2>1, <2>2, <3>1
    <3> HIDE DEF v
    <3> QED BY <2>1, <3>1, <3>2, <3>3
  <2> QED BY <1>r, <2>2, <2>3, <2>4, <2>5, SubsKeepType
<1>6. CASE SkipSeed(r)
  BY <1>6, <1>r, IdleTask, MoveKeepsType DEF SkipSeed
<1>7. CASE CheckDraft(r)
  BY <1>7, <1>s DEF CheckDraft
<1>8. CASE SeedDraft(r)
  <2>1. PICK v : Insert(v) /\ v \in Invoice
    BY <1>8, <1>r, <1>t, SeededIsFresh DEF IsFresh
  <2>2. Go(r, Idle) /\ UNCHANGED <<subs, money, batch>>
    BY <1>8 DEF SeedDraft
  <2> QED BY <1>r, <2>1, <2>2, IdleTask, InsertKeepsType
<1> QED BY <1>1, <1>2, <1>3, <1>4, <1>5, <1>6, <1>7, <1>8 DEF Advance

LEMMA AfterTask ==
    ASSUME NEW t \in SetStatusTask \cup InsertTask
    PROVE  t \in Task /\ t.pc \in {"setStatus", "insert"} /\ \A n : RowsOf(t, n)
BY DEF SetStatusTask, InsertTask, Task, RowsOf, HoldsRow, Phases

\* Changes of a subscription's state.
LEMMA UpdateKeepsType ==
    ASSUME TypeInv, NEW h \in Handler,
           BeginUpdate(h) \/ FindDraft(h) \/ VoidDraft(h) \/ SetStatus(h)
    PROVE  TypeInv'
<1>h. h \in Process
  BY DEF Process
<1>t. TypeOK /\ Len(rows) \in Nat /\ DOMAIN rows = 1..Len(rows)
      /\ RowsOf(task[h], Len(rows))
  BY <1>h DEF TypeInv, TypeOK, HeldRowsExist
<1>1. CASE BeginUpdate(h)
  <2>1. PICK s \in Sub : \E to \in SubscriptionTransitions[subs[s].status] :
          LET set == [pc |-> "setStatus", sub |-> s, from |-> subs[s].status, to |-> to]
          IN  Go(h, IF to \in {"paused", "canceled"}
                    THEN [pc |-> "findDraft", after |-> set]
                    ELSE set)
    BY <1>1 DEF BeginUpdate
  <2>2. PICK to \in SubscriptionTransitions[subs[s].status] :
          LET set == [pc |-> "setStatus", sub |-> s, from |-> subs[s].status, to |-> to]
          IN  Go(h, IF to \in {"paused", "canceled"}
                    THEN [pc |-> "findDraft", after |-> set]
                    ELSE set)
    BY <2>1
  <2> DEFINE set == [pc |-> "setStatus", sub |-> s, from |-> subs[s].status, to |-> to]
             t == IF to \in {"paused", "canceled"}
                  THEN [pc |-> "findDraft", after |-> set] ELSE set
  <2>3. subs[s].status \in SubscriptionStatus
    BY <1>t DEF TypeOK
  <2>4. to \in SubscriptionStatus
    BY <2>3 DEF SubscriptionStatus, SubscriptionTransitions
  <2>5. set \in SetStatusTask
    BY <2>3, <2>4 DEF SetStatusTask
  <2>6. t \in Task /\ RowsOf(t, Len(rows))
    <3>1. set \in Task /\ RowsOf(set, Len(rows))
      BY <2>5, AfterTask
    <3>2. [pc |-> "findDraft", after |-> set] \in Task
          /\ RowsOf([pc |-> "findDraft", after |-> set], Len(rows))
      BY <2>5 DEF Task, RowsOf, HoldsRow, Phases
    <3> QED BY <3>1, <3>2
  <2>7. Go(h, t) /\ UNCHANGED <<subs, rows, ledger, money, batch>>
    BY <1>1, <2>2 DEF BeginUpdate
  <2> HIDE DEF t
  <2> QED BY <1>h, <2>6, <2>7, MoveKeepsType
<1>2. CASE FindDraft(h)
  <2> DEFINE t == IF Drafts = {} THEN task[h].after
                  ELSE [pc |-> "voidDraft", row |-> Oldest(Drafts), after |-> task[h].after]
  <2>1. task[h].after \in SetStatusTask \cup InsertTask
    BY <1>2, <1>h, <1>t, TaskShape DEF FindDraft, At
  <2>2. CASE Drafts = {}
    BY <1>2, <1>h, <2>1, <2>2, AfterTask, MoveKeepsType DEF FindDraft
  <2>3. CASE Drafts # {}
    <3> DEFINE v == [pc |-> "voidDraft", row |-> Oldest(Drafts), after |-> task[h].after]
    <3>1. Oldest(Drafts) \in 1..Len(rows)
      BY <1>t, <2>3, ChosenRow DEF Drafts
    <3>2. v \in Task /\ RowsOf(v, Len(rows))
      BY <2>1, <3>1 DEF Task, RowsOf, HoldsRow, Phases
    <3>3. Go(h, v) /\ UNCHANGED <<subs, rows, ledger, money, batch>>
      BY <1>2, <2>3 DEF FindDraft
    <3> HIDE DEF v
    <3> QED BY <1>h, <3>2, <3>3, MoveKeepsType
  <2> QED BY <2>2, <2>3
<1>3. CASE VoidDraft(h)
  <2>1. task[h].after \in Task /\ (\A n : RowsOf(task[h].after, n))
    BY <1>3, <1>h, <1>t, TaskShape, AfterTask DEF VoidDraft, At
  <2>2. rows' \in Seq(Invoice) /\ Len(rows') = Len(rows)
    <3> DEFINE v == [rows[task[h].row] EXCEPT !.status = "void"]
    <3>1. task[h].row \in DOMAIN rows
      BY <1>3, <1>t DEF VoidDraft, At, RowsOf, HoldsRow, Phases
    <3>2. v \in Invoice
      BY <1>t, <3>1, RowShape DEF Invoice, InvoiceStatus
    <3>3. rows' = [rows EXCEPT ![task[h].row] = v]
      BY <1>3 DEF VoidDraft
    <3> HIDE DEF v
    <3> QED BY <1>t, <3>1, <3>2, <3>3, ReplaceEffect
  <2>3. Go(h, task[h].after) /\ UNCHANGED <<subs, ledger, money, batch>>
    BY <1>3 DEF VoidDraft
  <2>4. /\ subs' \in [Sub -> [status : SubscriptionStatus, period : Nat, next : BOOLEAN]]
        /\ ledger' \in Seq([finalized : Nat, receivable : Int]) /\ Len(ledger') = Len(rows')
        /\ balance' \in Int /\ granted' \in Int /\ applied' \in Int
        /\ Len(rows') >= Len(rows)
    BY <1>t, <2>2, <2>3 DEF TypeOK, money
  <2> QED BY <1>h, <2>1, <2>2, <2>3, <2>4, WriteKeepsType
<1>4. CASE SetStatus(h)
  <2>1. task[h].sub \in Sub /\ task[h].to \in SubscriptionStatus
    BY <1>4, <1>h, <1>t, TaskShape DEF SetStatus, At
  <2>2. \A new \in NewState(task[h].sub, task[h].from, task[h].to) :
          new \in [status : SubscriptionStatus, period : Nat, next : BOOLEAN]
    <3>1. subs[task[h].sub] \in [status : SubscriptionStatus, period : Nat, next : BOOLEAN]
      BY <1>t, <2>1 DEF TypeOK
    <3>2. FreshPeriods(task[h].sub) \subseteq Nat
      BY BillingAssumption DEF FreshPeriods
    <3> DEFINE v == subs[task[h].sub]
               S == [status : SubscriptionStatus, period : Nat, next : BOOLEAN]
    <3>3. /\ [v EXCEPT !.status = task[h].to, !.next = FALSE] \in S
          /\ [v EXCEPT !.status = task[h].to] \in S
      BY <2>1, <3>1
    <3>4. \A p \in FreshPeriods(task[h].sub) :
            [status |-> task[h].to, period |-> p, next |-> TRUE] \in S
      BY <2>1, <3>2
    <3>5. \A new \in NewState(task[h].sub, task[h].from, task[h].to) :
            \/ new = [v EXCEPT !.status = task[h].to, !.next = FALSE]
            \/ new = [v EXCEPT !.status = task[h].to]
            \/ \E p \in FreshPeriods(task[h].sub) :
                 new = [status |-> task[h].to, period |-> p, next |-> TRUE]
      BY Zenon DEF NewState
    <3> HIDE DEF S, v
    <3> QED BY <3>3, <3>4, <3>5 DEF S
  <2>3. subs' \in [Sub -> [status : SubscriptionStatus, period : Nat, next : BOOLEAN]]
    BY <1>4, <1>t, <2>1, <2>2 DEF SetStatus, TypeOK
  <2> QED BY <1>4, <1>h, <2>3, IdleTask, SubsKeepType DEF SetStatus
<1> QED BY <1>1, <1>2, <1>3, <1>4

\* subscription.create
LEMMA SubscribeKeepsType ==
    ASSUME TypeInv, NEW h \in Handler,
           BeginSubscribe(h) \/ ResumeSubscription(h) \/ CreateSubscription(h)
           \/ LoadSubscription(h) \/ FindOpen(h) \/ CreateDraft(h)
    PROVE  TypeInv'
<1>h. h \in Process
  BY DEF Process
<1>t. TypeOK /\ Len(rows) \in Nat
  BY DEF TypeInv, TypeOK
<1>a. "active" \in SubscriptionStatus
  BY DEF SubscriptionStatus, SubscriptionTransitions
<1>p. \A s \in Sub, pc \in {"create", "resume", "load"} :
        [pc |-> pc, sub |-> s] \in Task /\ RowsOf([pc |-> pc, sub |-> s], Len(rows))
  BY DEF Task, RowsOf, HoldsRow, Phases
<1>1. CASE BeginSubscribe(h)
  <2>1. \E s \in Sub, pc \in {"create", "resume"} : Go(h, [pc |-> pc, sub |-> s])
    BY <1>1 DEF BeginSubscribe
  <2>2. \E t \in Task : Go(h, t) /\ RowsOf(t, Len(rows))
    BY <2>1, <1>p
  <2> QED BY <1>1, <1>h, <2>2, MoveKeepsType DEF BeginSubscribe
<1>2. CASE ResumeSubscription(h)
  <2>1. task[h].sub \in Sub
    BY <1>2, <1>h, <1>t, TaskShape DEF ResumeSubscription, At
  <2>2. 0..MaxPeriod \subseteq Nat
    BY BillingAssumption
  <2>3. subs' \in [Sub -> [status : SubscriptionStatus, period : Nat, next : BOOLEAN]]
    <3>1. CASE \E p \in 0..MaxPeriod : subs' = [subs EXCEPT ![task[h].sub] =
                 [status |-> "active", period |-> p, next |-> TRUE]]
      BY <3>1, <1>a, <1>t, <2>1, <2>2 DEF TypeOK
    <3>2. CASE UNCHANGED subs
      BY <3>2, <1>t DEF TypeOK
    <3> QED BY <1>2, <3>1, <3>2 DEF ResumeSubscription
  <2>4. Go(h, [pc |-> "load", sub |-> task[h].sub])
        /\ UNCHANGED <<rows, ledger, money, batch>>
    BY <1>2 DEF ResumeSubscription
  <2> QED BY <1>h, <1>p, <2>1, <2>3, <2>4, SubsKeepType
<1>3. CASE CreateSubscription(h)
  <2>1. task[h].sub \in Sub
    BY <1>3, <1>h, <1>t, TaskShape DEF CreateSubscription, At
  <2>2. subs' \in [Sub -> [status : SubscriptionStatus, period : Nat, next : BOOLEAN]]
    BY <1>3, <1>a, <1>t, <2>1 DEF CreateSubscription, TypeOK
  <2>3. Go(h, [pc |-> "load", sub |-> task[h].sub])
        /\ UNCHANGED <<rows, ledger, money, batch>>
    BY <1>3 DEF CreateSubscription
  <2> QED BY <1>h, <1>p, <2>1, <2>2, <2>3, SubsKeepType
<1>4. CASE LoadSubscription(h)
  <2> DEFINE t == [pc |-> "findOpen", sub |-> task[h].sub, period |-> subs[task[h].sub].period]
  <2>1. task[h].sub \in Sub
    BY <1>4, <1>h, <1>t, TaskShape DEF LoadSubscription, At
  <2>2. subs[task[h].sub].period \in Nat
    BY <1>t, <2>1 DEF TypeOK
  <2>3. t \in Task /\ RowsOf(t, Len(rows))
    BY <2>1, <2>2 DEF Task, RowsOf, HoldsRow, Phases
  <2>4. Go(h, t) /\ UNCHANGED <<subs, rows, ledger, money, batch>>
    BY <1>4 DEF LoadSubscription
  <2> HIDE DEF t
  <2> QED BY <1>h, <2>3, <2>4, MoveKeepsType
<1>5. CASE FindOpen(h)
  <2> DEFINE insert == [pc |-> "insert", sub |-> task[h].sub, period |-> task[h].period]
  <2>1. task[h].sub \in Sub /\ task[h].period \in Nat
    BY <1>5, <1>h, <1>t, TaskShape DEF FindOpen, At
  <2>2. insert \in InsertTask
    BY <2>1 DEF InsertTask
  <2>3. insert \in Task /\ RowsOf(insert, Len(rows))
    BY <2>2, AfterTask
  <2>4. [pc |-> "findDraft", after |-> insert] \in Task
        /\ RowsOf([pc |-> "findDraft", after |-> insert], Len(rows))
    BY <2>2 DEF Task, RowsOf, HoldsRow, Phases
  <2>5. [pc |-> "payroll"] \in Task /\ RowsOf([pc |-> "payroll"], Len(rows))
    BY DEF Task, RowsOf, HoldsRow, Phases
  <2>6. \/ Go(h, insert) \/ Go(h, [pc |-> "payroll"])
        \/ Go(h, [pc |-> "findDraft", after |-> insert])
    BY <1>5 DEF FindOpen
  <2>7. UNCHANGED <<subs, rows, ledger, money, batch>>
    BY <1>5 DEF FindOpen
  <2> HIDE DEF insert
  <2> QED BY <1>h, <2>3, <2>4, <2>5, <2>6, <2>7, MoveKeepsType
<1>6. CASE CreateDraft(h)
  <2>1. task[h].sub \in Sub /\ task[h].period \in Nat
    BY <1>6, <1>h, <1>t, TaskShape DEF CreateDraft, At
  <2>2. PICK v \in Invoice : Insert(v)
    BY <1>6, <2>1, DraftIsFresh DEF CreateDraft, InsertDraft, IsFresh
  <2>3. Go(h, Idle) /\ UNCHANGED <<subs, money, batch>>
    BY <1>6 DEF CreateDraft
  <2> QED BY <1>h, <2>2, <2>3, IdleTask, InsertKeepsType
<1> QED BY <1>1, <1>2, <1>3, <1>4, <1>5, <1>6

\* Payroll, standalone invoices, credit notes and voiding.
LEMMA InvoicingKeepsType ==
    ASSUME TypeInv, NEW h \in Handler,
           BeginPayroll(h) \/ FindOpenDraft(h) \/ Rewrite(h)
           \/ CreateStandalone(h) \/ FinalizeAndCharge(h)
           \/ IssueCreditNote(h) \/ BeginVoid(h) \/ VoidInvoice(h)
    PROVE  TypeInv'
<1>h. h \in Process
  BY DEF Process
<1>t. TypeOK /\ Len(rows) \in Nat /\ DOMAIN rows = 1..Len(rows)
      /\ RowsOf(task[h], Len(rows))
  BY <1>h DEF TypeInv, TypeOK, HeldRowsExist
\* A row replaced, with the rest as it was.
<1>w. ASSUME NEW i \in DOMAIN rows, NEW v \in Invoice, rows' = [rows EXCEPT ![i] = v],
             ledger' \in Seq([finalized : Nat, receivable : Int]),
             Len(ledger') = Len(rows), Go(h, Idle), UNCHANGED <<subs, money, batch>>
      PROVE  TypeInv'
  <2>1. rows' \in Seq(Invoice) /\ Len(rows') = Len(rows)
    BY <1>w, <1>t, ReplaceEffect
  <2>2. /\ subs' \in [Sub -> [status : SubscriptionStatus, period : Nat, next : BOOLEAN]]
        /\ balance' \in Int /\ granted' \in Int /\ applied' \in Int
        /\ Len(rows') >= Len(rows) /\ Len(ledger') = Len(rows')
    BY <1>w, <1>t, <2>1 DEF TypeOK, money
  <2> QED BY <1>w, <1>h, <2>1, <2>2, IdleTask, WriteKeepsType
<1>1. CASE BeginPayroll(h)
  <2>1. [pc |-> "payroll"] \in Task /\ RowsOf([pc |-> "payroll"], Len(rows))
    BY DEF Task, RowsOf, HoldsRow, Phases
  <2> QED BY <1>1, <1>h, <2>1, MoveKeepsType DEF BeginPayroll
<1>2. CASE FindOpenDraft(h)
  <2>1. CASE Cardinality(OpenDrafts) = 1
    <3> DEFINE t == [pc |-> "rewrite", row |-> Newest(OpenDrafts)]
    <3>1. OpenDrafts # {}
      BY <2>1, FS_EmptySet
    <3>2. Newest(OpenDrafts) \in 1..Len(rows)
      BY <1>t, <3>1, ChosenRow DEF OpenDrafts, Drafts
    <3>3. t \in Task /\ RowsOf(t, Len(rows))
      BY <3>2 DEF Task, RowsOf, HoldsRow, Phases
    <3>4. Go(h, t) /\ UNCHANGED <<subs, rows, ledger, money, batch>>
      BY <1>2, <2>1 DEF FindOpenDraft
    <3> HIDE DEF t
    <3> QED BY <1>h, <3>3, <3>4, MoveKeepsType
  <2>2. CASE Cardinality(OpenDrafts) # 1
    BY <1>2, <1>h, <2>2, IdleTask, MoveKeepsType DEF FindOpenDraft
  <2> QED BY <2>1, <2>2
<1>3. CASE Rewrite(h)
  <2>1. PICK n \in Amount : rows' = [rows EXCEPT ![task[h].row].items = n,
                                                ![task[h].row].credit = 0,
                                                ![task[h].row].total = n]
    BY <1>3 DEF Rewrite
  <2> DEFINE v == [rows[task[h].row] EXCEPT !.items = n, !.credit = 0, !.total = n]
  <2>2. task[h].row \in DOMAIN rows /\ n \in Nat /\ n \in Int
    <3>1. n \in Nat
      BY BillingAssumption
    <3>2. task[h].row \in DOMAIN rows
      BY <1>3, <1>t DEF Rewrite, At, RowsOf, HoldsRow
    <3> QED BY <3>1, <3>2
  <2>3. v \in Invoice
    BY <1>t, <2>2, RowShape DEF Invoice
  <2>4. rows' = [rows EXCEPT ![task[h].row] = v]
    BY <2>1, <2>2
  <2>5. ledger' \in Seq([finalized : Nat, receivable : Int]) /\ Len(ledger') = Len(rows)
    BY <1>3, <1>t DEF Rewrite, TypeOK
  <2> HIDE DEF v
  <2> QED BY <1>3, <1>w, <2>2, <2>3, <2>4, <2>5 DEF Rewrite
<1>4. CASE CreateStandalone(h)
  <2>1. PICK v \in Invoice : Insert(v)
    BY <1>4, DraftIsFresh DEF CreateStandalone, InsertDraft, IsFresh
  <2>2. UNCHANGED <<subs, money, batch>>
    BY <1>4 DEF CreateStandalone
  <2>3. CASE Go(h, Idle)
    BY <1>h, <2>1, <2>2, <2>3, IdleTask, InsertKeepsType
  <2>4. CASE Go(h, [pc |-> "readNew", row |-> Len(rows) + 1])
    <3>1. /\ [pc |-> "readNew", row |-> Len(rows) + 1] \in Task
          /\ RowsOf([pc |-> "readNew", row |-> Len(rows) + 1], Len(rows) + 1)
      BY <1>t DEF Task, RowsOf, HoldsRow, Phases
    <3> QED BY <1>h, <2>1, <2>2, <2>4, <3>1, InsertKeepsType
  <2> QED BY <1>4, <2>3, <2>4 DEF CreateStandalone
<1>5. CASE FinalizeAndCharge(h)
  <2>1. CASE IsDraft(task[h].row)
    <3> DEFINE t == Finalizing(task[h].row, NoSub, 0, rows[task[h].row].total)
    <3>1. task[h].row \in DOMAIN rows
      BY <1>5, <1>t DEF FinalizeAndCharge, At, RowsOf, HoldsRow, Phases
    <3>2. task[h].row \in 0..Len(rows) /\ task[h].row # 0
          /\ rows[task[h].row].total \in Int
      BY <1>t, <3>1, RowShape
    <3>3. t \in Task /\ RowsOf(t, Len(rows))
      BY <1>t, <3>2, FinalizingTask
    <3>4. Go(h, t) /\ UNCHANGED <<subs, rows, ledger, money, batch>>
      BY <1>5, <2>1 DEF FinalizeAndCharge
    <3> HIDE DEF t
    <3> QED BY <1>h, <3>3, <3>4, MoveKeepsType
  <2>2. CASE ~IsDraft(task[h].row)
    BY <1>5, <1>h, <2>2, IdleTask, MoveKeepsType DEF FinalizeAndCharge
  <2> QED BY <2>1, <2>2
<1>6. CASE IssueCreditNote(h)
  <2>1. PICK n \in Note : balance' = balance + n /\ granted' = granted + n
    BY <1>6 DEF IssueCreditNote
  <2>2. n \in Int
    BY BillingAssumption
  <2>3. balance' \in Int /\ granted' \in Int /\ applied' \in Int
    <3>1. balance \in Int /\ granted \in Int /\ applied \in Int
      BY <1>t DEF TypeOK
    <3> QED BY <1>6, <2>1, <2>2, <3>1 DEF IssueCreditNote
  <2>4. UNCHANGED <<subs, rows, ledger, batch, task>>
    BY <1>6 DEF IssueCreditNote
  <2> QED BY <2>3, <2>4 DEF TypeInv, TypeOK, HeldRowsExist
<1>7. CASE BeginVoid(h)
  <2>1. PICK i \in DOMAIN rows : Go(h, [pc |-> "void", row |-> i, total |-> rows[i].total])
    BY <1>7 DEF BeginVoid
  <2> DEFINE t == [pc |-> "void", row |-> i, total |-> rows[i].total]
  <2>2. rows[i].total \in Int /\ i \in 1..Len(rows)
    BY <1>t, RowShape
  <2>3. t \in Task /\ RowsOf(t, Len(rows))
    BY <2>2 DEF Task, RowsOf, HoldsRow, Phases
  <2> HIDE DEF t
  <2> QED BY <1>7, <1>h, <2>1, <2>3, MoveKeepsType DEF BeginVoid, t
<1>8. CASE VoidInvoice(h)
  <2>1. CASE /\ rows' = [rows EXCEPT ![task[h].row].status = "void"]
             /\ ledger' = [ledger EXCEPT ![task[h].row].receivable = @ - task[h].total]
    <3> DEFINE i == task[h].row
               v == [rows[i] EXCEPT !.status = "void"]
               x == ledger[i].receivable - task[h].total
               e == [ledger[i] EXCEPT !.receivable = x]
    <3>1. i \in DOMAIN rows
      BY <1>8, <1>t DEF VoidInvoice, At, RowsOf, HoldsRow, Phases
    <3>2. v \in Invoice
      BY <1>t, <3>1, RowShape DEF Invoice, InvoiceStatus
    <3>3. x \in Int
      BY <1>8, <1>h, <1>t, <3>1, RowShape, TaskShape DEF VoidInvoice, At
    <3>4. e \in [finalized : Nat, receivable : Int]
      <4> HIDE DEF x
      <4> QED BY <1>t, <3>1, <3>3, RowShape
    <3>5. rows' = [rows EXCEPT ![i] = v] /\ ledger' = [ledger EXCEPT ![i] = e]
      BY <2>1
    <3> HIDE DEF v, e, i
    <3>6. ledger' \in Seq([finalized : Nat, receivable : Int]) /\ Len(ledger') = Len(rows)
      BY <1>t, <3>1, <3>4, <3>5, ReplaceEntry
    <3> QED BY <1>8, <1>w, <3>1, <3>2, <3>5, <3>6 DEF VoidInvoice
  <2>2. CASE UNCHANGED <<rows, ledger>>
    BY <1>8, <1>h, <2>2, IdleTask, MoveKeepsType DEF VoidInvoice
  <2> QED BY <1>8, <2>1, <2>2 DEF VoidInvoice
<1> QED BY <1>1, <1>2, <1>3, <1>4, <1>5, <1>6, <1>7, <1>8

LEMMA PayKeepsType ==
    ASSUME TypeInv, NEW i \in DOMAIN rows, Pay(i)
    PROVE  TypeInv'
<1> DEFINE v == [rows[i] EXCEPT !.status = "paid"]
<1>1. TypeOK
  BY DEF TypeInv
<1>2. v \in Invoice
  BY <1>1, RowShape DEF Invoice, InvoiceStatus
<1>3. rows' = [rows EXCEPT ![i] = v] /\ UNCHANGED <<subs, ledger, money, batch, task>>
  BY DEF Pay
<1> HIDE DEF v
<1>4. rows' \in Seq(Invoice) /\ Len(rows') = Len(rows)
  BY <1>1, <1>2, <1>3, ReplaceEffect
<1> QED BY <1>3, <1>4 DEF TypeInv, TypeOK, HeldRowsExist, money

LEMMA TypeInvInit == Init => TypeInv
<1> SUFFICES ASSUME Init PROVE TypeInv
  OBVIOUS
<1>1. subs \in [Sub -> [status : SubscriptionStatus, period : Nat, next : BOOLEAN]]
  BY DEF Init, SubscriptionStatus, SubscriptionTransitions
<1>2. rows \in Seq(Invoice) /\ ledger \in Seq([finalized : Nat, receivable : Int])
      /\ Len(ledger) = Len(rows)
  <2>1. CASE Enrolled = {}
    BY <2>1 DEF Init
  <2>2. CASE Enrolled # {}
    <3>1. PICK s \in Enrolled, n \in Amount : rows = <<Draft(s, 0, n)>>
      BY <2>2 DEF Init
    <3>2. s \in Sub /\ n \in Nat
      BY BillingAssumption
    <3>3. Draft(s, 0, n) \in Invoice /\ Unbooked \in [finalized : Nat, receivable : Int]
      BY <3>2, DraftShape
    <3>4. ledger = <<Unbooked>>
      BY <2>2 DEF Init
    <3> QED BY <3>1, <3>3, <3>4
  <2> QED BY <2>1, <2>2
<1>3. /\ batch = [r \in Runner |-> NoBatch] /\ task = [a \in Process |-> Idle]
      /\ balance \in Int /\ granted \in Int /\ applied \in Int
  BY DEF Init
<1> QED BY <1>1, <1>2, <1>3, IdleTask DEF TypeInv, TypeOK, HeldRowsExist, NoBatch

LEMMA TypeInvStep == TypeInv /\ [Next]_vars => TypeInv'
<1> SUFFICES ASSUME TypeInv, [Next]_vars PROVE TypeInv'
  OBVIOUS
<1>1. ASSUME NEW r \in Runner, StartGeneration(r) \/ Generate(r) \/ Crash(r)
      PROVE  TypeInv'
  BY <1>1, GenerationKeepsType, FinalizationKeepsType, AdvanceKeepsType
     DEF Generate, Process
<1>2. ASSUME NEW h \in Handler, Handle(h)
      PROVE  TypeInv'
  BY <1>2, UpdateKeepsType, SubscribeKeepsType, InvoicingKeepsType, FinalizationKeepsType
     DEF Handle, Process
<1>3. ASSUME NEW a \in Process, Throws(a)
      PROVE  TypeInv'
  BY <1>3, IdleTask, MoveKeepsType DEF Throws
<1>4. ASSUME NEW i \in DOMAIN rows, Pay(i)
      PROVE  TypeInv'
  BY <1>4, PayKeepsType
<1>5. CASE UNCHANGED vars
  BY <1>5 DEF vars, money, TypeInv, TypeOK, HeldRowsExist
<1> QED BY <1>1, <1>2, <1>3, <1>4, <1>5 DEF Next

LEMMA TypeInvariant == Spec => []TypeInv
BY TypeInvInit, TypeInvStep, PTL DEF Spec

\* Every variable keeps its type: tasks, batches, invoices and their entries.
THEOREM TypesHold == Spec => []TypeOK
BY TypeInvariant, PTL DEF TypeInv

\* Only the finalizing transaction and credit notes move the balance.
LEMMA MoneySteps ==
    ASSUME [Next]_vars
    PROVE  \/ \E a \in Process : Settle(a)
           \/ \E h \in Handler : IssueCreditNote(h)
           \/ UNCHANGED money
<1>1. ASSUME NEW r \in Runner, StartGeneration(r) \/ Crash(r) PROVE UNCHANGED money
  BY <1>1 DEF StartGeneration, Crash
<1>2. ASSUME NEW r \in Runner, Generate(r), ~Settle(r) PROVE UNCHANGED money
  BY <1>2 DEF Generate, VisitSubscription, EndSubscriptions, VisitStandalone, EndGeneration,
       Finalization, ReadCredit, SettleThrows, Advance, Announce, AlreadyAdvanced, CheckPeriod,
       ReadPeriod, AdvancePeriod, SkipSeed, CheckDraft, SeedDraft, Step
<1>3. ASSUME NEW h \in Handler, Handle(h), ~Settle(h), ~IssueCreditNote(h)
      PROVE  UNCHANGED money
  BY <1>3 DEF Handle, BeginUpdate, FindDraft, VoidDraft, SetStatus, BeginSubscribe,
       ResumeSubscription, CreateSubscription, LoadSubscription, FindOpen, CreateDraft,
       BeginPayroll, FindOpenDraft, Rewrite, CreateStandalone, FinalizeAndCharge,
       Finalization, ReadCredit, SettleThrows, BeginVoid, VoidInvoice
<1>4. ASSUME NEW a \in Process, Throws(a) PROVE UNCHANGED money
  BY <1>4 DEF Throws
<1>5. ASSUME NEW i \in DOMAIN rows, Pay(i) PROVE UNCHANGED money
  BY <1>5 DEF Pay
<1>6. CASE UNCHANGED vars
  BY <1>6 DEF vars
<1>7. Runner \subseteq Process /\ Handler \subseteq Process
  BY DEF Process
<1> QED BY <1>1, <1>2, <1>3, <1>4, <1>5, <1>6, <1>7 DEF Next

\* What the notes granted and the ledger applied is what the balance says,
\* whatever a finalization read of it before (the transaction's decrement is
\* relative); for any number of runners, handlers and faults.
THEOREM CreditIsConserved == Spec => []CreditConserved
<1>1. Init => CreditConserved
  BY DEF Init, CreditConserved
<1>2. TypeInv /\ CreditConserved /\ [Next]_vars => CreditConserved'
  <2> SUFFICES ASSUME TypeInv, CreditConserved, [Next]_vars PROVE CreditConserved'
    OBVIOUS
  <2>t. balance \in Int /\ granted \in Int /\ applied \in Int
    BY DEF TypeInv, TypeOK
  <2>1. ASSUME NEW a \in Process, Settle(a) PROVE CreditConserved'
    <3>1. /\ Used(a) \in Nat /\ balance' = balance - Used(a)
          /\ applied' = applied + Used(a) /\ granted' = granted
      BY <2>1, SettleEffect DEF Settle, DeductCredit, Used
    <3> QED BY <2>t, <3>1 DEF CreditConserved
  <2>2. ASSUME NEW h \in Handler, IssueCreditNote(h) PROVE CreditConserved'
    <3>1. PICK n \in Note : balance' = balance + n /\ granted' = granted + n
      BY <2>2 DEF IssueCreditNote
    <3>2. n \in Int /\ applied' = applied
      BY <2>2, BillingAssumption DEF IssueCreditNote
    <3> QED BY <2>t, <3>1, <3>2 DEF CreditConserved
  <2>3. CASE UNCHANGED money
    BY <2>3 DEF CreditConserved, money
  <2> QED BY <2>1, <2>2, <2>3, MoneySteps
<1> QED BY <1>1, <1>2, TypeInvariant, PTL DEF Spec

-----------------------------------------------------------------------------
(* Layer 2: who may bill which row *)

SingleRunner == \A r, s \in Runner : r = s

Standalone(i) == i \in DOMAIN rows /\ rows[i].sub = NoSub

Finalizes(a) == task[a].pc \in {"finalize", "settle"}

\* Handlers finalize standalone invoices only.
HandlerHolds(t) ==
    /\ t.pc = "readNew" => Standalone(t.row)
    /\ t.pc \in {"finalize", "settle"} => t.sub = NoSub /\ Standalone(t.row)

\* A runner does so in its second loop.  In the first, the period that it is
\* about to bill is not billed yet: what it has read stays true until it writes,
\* as nobody else bills a recurring invoice.
RunnerHolds(t) ==
    t.pc \in {"finalize", "settle"} =>
        IF t.sub = NoSub
        THEN Standalone(t.row)
        ELSE /\ \A i \in OfPeriod(t.sub, t.period) : ~IsBilled(i)
             /\ t.row # 0 => /\ t.row \in OfPeriod(t.sub, t.period)
                             /\ ledger[t.row].finalized = 0

BatchHolds(b) == b.loop = "pending" => \A due \in b.items : Standalone(due[1])

RowsHeld ==
    /\ \A h \in Handler : HandlerHolds(task[h])
    /\ \A r \in Runner : RunnerHolds(task[r]) /\ BatchHolds(batch[r])

DraftsUnbooked ==
    \A i \in DOMAIN rows : IsRecurring(i) /\ IsDraft(i) => ledger[i].finalized = 0

BillingInv ==
    /\ RowsHeld
    /\ DraftsUnbooked
    /\ BilledOnce
    /\ RecurringFinalizedOnce

\* Whatever a step does to the rows, unless it settles one, it bills none: old
\* rows keep their subscription and their period, new rows are drafts.
NoBilling ==
    /\ DOMAIN rows \subseteq DOMAIN rows'
    /\ \A i \in DOMAIN rows :
         /\ rows'[i].sub = rows[i].sub /\ rows'[i].period = rows[i].period
         /\ rows'[i].status \in {"finalized", "paid"} => IsBilled(i)
         /\ rows'[i].status = "draft" => IsDraft(i)
         /\ ledger'[i].finalized = ledger[i].finalized
    /\ \A i \in DOMAIN rows' \ DOMAIN rows :
         rows'[i].status = "draft" /\ ledger'[i].finalized = 0

LEMMA NoBillingIfUnchanged ==
    ASSUME UNCHANGED <<rows, ledger>> PROVE NoBilling
BY DEF NoBilling, IsBilled, IsDraft

LEMMA InsertBillsNothing ==
    ASSUME TypeInv, NEW v, IsFresh(v), Insert(v)
    PROVE  NoBilling /\ Len(rows) + 1 \in DOMAIN rows' /\ rows'[Len(rows) + 1].sub = v.sub
<1>1. TypeOK /\ v \in Invoice /\ v.status = "draft" /\ Unbooked.finalized = 0
  BY DEF TypeInv, IsFresh, Unbooked
<1>2. /\ DOMAIN rows' = DOMAIN rows \cup {Len(rows) + 1}
      /\ \A i \in DOMAIN rows : rows'[i] = rows[i] /\ ledger'[i] = ledger[i]
      /\ rows'[Len(rows) + 1] = v
      /\ ledger'[Len(rows) + 1] = Unbooked
  BY <1>1, InsertEffect
<1> QED BY <1>1, <1>2 DEF NoBilling, IsBilled, IsDraft

\* A row that is replaced by one of the same period, not newly billed.
LEMMA ReplaceBillsNothing ==
    ASSUME TypeInv, NEW i \in DOMAIN rows, NEW v \in Invoice, rows' = [rows EXCEPT ![i] = v],
           v.sub = rows[i].sub, v.period = rows[i].period,
           v.status \in {"finalized", "paid"} => IsBilled(i),
           v.status = "draft" => IsDraft(i),
           \A j \in DOMAIN rows : ledger'[j].finalized = ledger[j].finalized
    PROVE  NoBilling
<1>1. /\ DOMAIN rows' = DOMAIN rows /\ rows'[i] = v
      /\ \A j \in DOMAIN rows : j # i => rows'[j] = rows[j]
  BY ReplaceEffect DEF TypeInv
<1> QED BY <1>1 DEF NoBilling, IsBilled, IsDraft

LEMMA HandlersBillNothing ==
    ASSUME TypeInv, NEW h \in Handler, Handle(h), ~Settle(h)
    PROVE  NoBilling
<1>h. h \in Process
  BY DEF Process
<1>t. TypeOK /\ Len(rows) \in Nat /\ DOMAIN rows = 1..Len(rows)
      /\ RowsOf(task[h], Len(rows))
  BY <1>h DEF TypeInv, TypeOK, HeldRowsExist
<1>1. CASE UNCHANGED <<rows, ledger>>
  BY <1>1, NoBillingIfUnchanged
<1>2. CASE VoidDraft(h)
  <2> DEFINE i == task[h].row
             v == [rows[i] EXCEPT !.status = "void"]
  <2>1. i \in DOMAIN rows
    BY <1>2, <1>t DEF VoidDraft, At, RowsOf, HoldsRow, Phases
  <2>2. v \in Invoice /\ v.sub = rows[i].sub /\ v.period = rows[i].period /\ v.status = "void"
    BY <1>t, <2>1, RowShape DEF Invoice, InvoiceStatus
  <2>3. rows' = [rows EXCEPT ![i] = v] /\ ledger' = ledger
    BY <1>2 DEF VoidDraft
  <2> HIDE DEF v, i
  <2> QED BY <2>1, <2>2, <2>3, ReplaceBillsNothing
<1>3. CASE CreateDraft(h)
  <2>1. task[h].sub \in Sub /\ task[h].period \in Nat
    BY <1>3, <1>h, <1>t, TaskShape DEF CreateDraft, At
  <2>2. PICK v : Insert(v) /\ IsFresh(v)
    BY <1>3, <2>1, DraftIsFresh DEF CreateDraft, InsertDraft
  <2> QED BY <2>2, InsertBillsNothing
<1>4. CASE Rewrite(h)
  <2>1. PICK n \in Amount : rows' = [rows EXCEPT ![task[h].row].items = n,
                                                ![task[h].row].credit = 0,
                                                ![task[h].row].total = n]
    BY <1>4 DEF Rewrite
  <2> DEFINE i == task[h].row
             v == [rows[i] EXCEPT !.items = n, !.credit = 0, !.total = n]
  <2>2. i \in DOMAIN rows /\ n \in Nat /\ n \in Int
    BY <1>4, <1>t, BillingAssumption DEF Rewrite, At, RowsOf, HoldsRow, Phases
  <2>3. v \in Invoice /\ v.sub = rows[i].sub /\ v.period = rows[i].period
        /\ v.status = rows[i].status
    BY <1>t, <2>2, RowShape DEF Invoice
  <2>4. rows' = [rows EXCEPT ![i] = v] /\ ledger' = ledger
    BY <1>4, <2>1, <2>2 DEF Rewrite
  <2> HIDE DEF v, i
  <2> QED BY <2>2, <2>3, <2>4, ReplaceBillsNothing DEF IsBilled, IsDraft
<1>5. CASE CreateStandalone(h)
  BY <1>5, DraftIsFresh, InsertBillsNothing DEF CreateStandalone, InsertDraft
<1>6. CASE VoidInvoice(h) /\ ~UNCHANGED <<rows, ledger>>
  <2> DEFINE i == task[h].row
             v == [rows[i] EXCEPT !.status = "void"]
  <2>1. i \in DOMAIN rows
    BY <1>6, <1>t DEF VoidInvoice, At, RowsOf, HoldsRow, Phases
  <2>2. v \in Invoice /\ v.sub = rows[i].sub /\ v.period = rows[i].period /\ v.status = "void"
    BY <1>t, <2>1, RowShape DEF Invoice, InvoiceStatus
  <2>3. rows' = [rows EXCEPT ![i] = v]
        /\ ledger' = [ledger EXCEPT ![i].receivable = @ - task[h].total]
    BY <1>6 DEF VoidInvoice
  <2>4. \A j \in DOMAIN rows : ledger'[j].finalized = ledger[j].finalized
    <3>1. \A j \in DOMAIN rows : j \in 1..Len(ledger)
                               /\ ledger[j] \in [finalized : Nat, receivable : Int]
      BY <1>t, RowShape DEF TypeOK
    <3> QED BY <2>1, <2>3, <3>1
  <2> HIDE DEF v, i
  <2> QED BY <2>1, <2>2, <2>3, <2>4, ReplaceBillsNothing
<1> QED
  BY <1>1, <1>2, <1>3, <1>4, <1>5, <1>6
  DEF Handle, BeginUpdate, FindDraft, SetStatus, BeginSubscribe, ResumeSubscription,
      CreateSubscription, LoadSubscription, FindOpen, BeginPayroll, FindOpenDraft,
      FinalizeAndCharge, Finalization, ReadCredit, SettleThrows, BeginVoid, IssueCreditNote

LEMMA PayBillsNothing ==
    ASSUME TypeInv, NEW i \in DOMAIN rows, Pay(i)
    PROVE  NoBilling
<1> DEFINE v == [rows[i] EXCEPT !.status = "paid"]
<1>1. TypeOK
  BY DEF TypeInv
<1>2. v \in Invoice /\ v.sub = rows[i].sub /\ v.period = rows[i].period /\ v.status = "paid"
  BY <1>1, RowShape DEF Invoice, InvoiceStatus
<1>3. rows' = [rows EXCEPT ![i] = v] /\ ledger' = ledger /\ rows[i].status = "finalized"
  BY DEF Pay
<1> HIDE DEF v
<1> QED BY <1>2, <1>3, ReplaceBillsNothing DEF IsBilled

LEMMA RunnersBillNothing ==
    ASSUME TypeInv, NEW r \in Runner, StartGeneration(r) \/ Generate(r) \/ Crash(r), ~Settle(r)
    PROVE  NoBilling
<1>1. CASE UNCHANGED <<rows, ledger>>
  BY <1>1, NoBillingIfUnchanged
<1>2. CASE SeedDraft(r)
  <2>1. PICK v : Insert(v) /\ IsFresh(v)
    BY <1>2, SeededIsFresh DEF Process, TypeInv
  <2> QED BY <2>1, InsertBillsNothing
<1> QED
  BY <1>1, <1>2
  DEF StartGeneration, Crash, Generate, VisitSubscription, EndSubscriptions, VisitStandalone,
      EndGeneration, Finalization, ReadCredit, SettleThrows, Advance, Announce,
      AlreadyAdvanced, CheckPeriod, ReadPeriod, AdvancePeriod, SkipSeed, CheckDraft, Step

LEMMA NothingNewlyBilled ==
    ASSUME TypeInv, BillingInv, NoBilling
    PROVE  DraftsUnbooked' /\ BilledOnce' /\ RecurringFinalizedOnce'
<1>1. DraftsUnbooked'
  BY DEF BillingInv, DraftsUnbooked, NoBilling, IsRecurring, IsDraft
<1>2. \A i \in DOMAIN rows' : IsBilled(i)' => i \in DOMAIN rows /\ IsBilled(i)
  BY DEF NoBilling, IsBilled
<1>3. BilledOnce'
  BY <1>2 DEF BillingInv, BilledOnce, NoBilling, IsRecurring
<1>4. RecurringFinalizedOnce'
  BY DEF BillingInv, RecurringFinalizedOnce, NoBilling, IsRecurring
<1> QED BY <1>1, <1>3, <1>4

\* As long as nothing is billed, what a process holds stays as it must be.
LEMMA HoldingsKept ==
    ASSUME NoBilling, NEW t
    PROVE  /\ HandlerHolds(t) => HandlerHolds(t)'
           /\ RunnerHolds(t) => RunnerHolds(t)'
           /\ BatchHolds(t) => BatchHolds(t)'
<1>1. \A i : Standalone(i) => i \in DOMAIN rows' /\ rows'[i].sub = NoSub
  BY DEF Standalone, NoBilling
<1>2. HandlerHolds(t) => HandlerHolds(t)'
  BY <1>1 DEF HandlerHolds, Standalone
<1>3. RunnerHolds(t) => RunnerHolds(t)'
  <2> SUFFICES ASSUME RunnerHolds(t), t.pc \in {"finalize", "settle"}
               PROVE  RunnerHolds(t)'
    BY DEF RunnerHolds
  <2>1. CASE t.sub = NoSub
    BY <1>1, <2>1 DEF RunnerHolds, Standalone
  <2>2. CASE t.sub # NoSub
    <3>1. /\ \A i \in OfPeriod(t.sub, t.period) : ~IsBilled(i)
          /\ t.row # 0 => t.row \in OfPeriod(t.sub, t.period) /\ ledger[t.row].finalized = 0
      BY <2>2 DEF RunnerHolds
    <3>2. \A i \in DOMAIN rows' : rows'[i].sub = t.sub /\ rows'[i].period = t.period =>
            rows'[i].status \notin {"finalized", "paid"}
      BY <3>1 DEF OfPeriod, NoBilling, IsBilled
    <3>3. t.row # 0 => /\ t.row \in DOMAIN rows' /\ rows'[t.row].sub = t.sub
                       /\ rows'[t.row].period = t.period /\ ledger'[t.row].finalized = 0
      BY <3>1 DEF OfPeriod, NoBilling
    <3> QED BY <2>2, <3>2, <3>3 DEF RunnerHolds, OfPeriod, IsBilled
  <2> QED BY <2>1, <2>2
<1>4. BatchHolds(t) => BatchHolds(t)'
  BY <1>1 DEF BatchHolds, Standalone
<1> QED BY <1>2, <1>3, <1>4

\* What a handler goes on with holds no row or a standalone one.
LEMMA HandlersHold ==
    ASSUME TypeInv, BillingInv, NEW h \in Handler, Handle(h), ~Settle(h)
    PROVE  /\ HandlerHolds(task[h])'
           /\ \A a \in Process : a # h => task'[a] = task[a]
           /\ UNCHANGED batch
<1>h. h \in Process
  BY DEF Process
<1>t. TypeOK /\ Len(rows) \in Nat /\ DOMAIN rows = 1..Len(rows) /\ HandlerHolds(task[h])
      /\ task \in [Process -> Task]
  BY DEF TypeInv, TypeOK, BillingInv, RowsHeld
<1>o. (\A a \in Process : a # h => task'[a] = task[a]) /\ UNCHANGED batch
  BY <1>h, <1>t
  DEF Handle, BeginUpdate, FindDraft, VoidDraft, SetStatus, BeginSubscribe, ResumeSubscription,
      CreateSubscription, LoadSubscription, FindOpen, CreateDraft, BeginPayroll, FindOpenDraft,
      Rewrite, CreateStandalone, FinalizeAndCharge, Finalization, ReadCredit, SettleThrows,
      IssueCreditNote, BeginVoid, VoidInvoice, Go
<1> SUFFICES HandlerHolds(task[h])'
  BY <1>o
<1>n. NoBilling
  BY HandlersBillNothing
<1>g. \A t : Go(h, t) => task'[h] = t
  BY <1>h, <1>t DEF Go
\* Most tasks hold nothing that this is about.
<1>p. ASSUME NEW t, Go(h, t), t.pc \notin {"readNew", "finalize", "settle"}
      PROVE  HandlerHolds(task[h])'
  BY <1>p, <1>g DEF HandlerHolds
<1>1. CASE BeginUpdate(h)
  <2>1. \E t : Go(h, t) /\ t.pc \in {"findDraft", "setStatus"}
    BY <1>1 DEF BeginUpdate
  <2> QED BY <2>1, <1>p
<1>2. CASE FindDraft(h) \/ VoidDraft(h)
  <2>1. task[h].after.pc \in {"setStatus", "insert"}
    BY <1>2, <1>h, <1>t, TaskShape, AfterTask DEF FindDraft, VoidDraft, At
  <2>2. \E t : Go(h, t) /\ t.pc \in {"setStatus", "insert", "voidDraft"}
    <3>1. CASE VoidDraft(h)
      BY <2>1, <3>1 DEF VoidDraft
    <3>2. CASE FindDraft(h) /\ Drafts = {}
      BY <2>1, <3>2 DEF FindDraft
    <3>3. CASE FindDraft(h) /\ Drafts # {}
      BY <3>3 DEF FindDraft
    <3> QED BY <1>2, <3>1, <3>2, <3>3
  <2> QED BY <2>2, <1>p
<1>3. CASE \/ SetStatus(h) \/ CreateDraft(h) \/ Rewrite(h) \/ VoidInvoice(h)
           \/ SettleThrows(h)
  <2>1. Go(h, Idle) /\ Idle.pc = "idle"
    BY <1>3 DEF SetStatus, CreateDraft, Rewrite, VoidInvoice, SettleThrows, Idle
  <2> QED BY <2>1, <1>p
<1>4. CASE BeginSubscribe(h)
  <2>1. \E t : Go(h, t) /\ t.pc \in {"resume", "create"}
    BY <1>4 DEF BeginSubscribe
  <2> QED BY <2>1, <1>p
<1>5. CASE ResumeSubscription(h) \/ CreateSubscription(h)
  <2>1. \E t : Go(h, t) /\ t.pc = "load"
    BY <1>5 DEF ResumeSubscription, CreateSubscription
  <2> QED BY <2>1, <1>p
<1>6. CASE LoadSubscription(h)
  <2>1. \E t : Go(h, t) /\ t.pc = "findOpen"
    BY <1>6 DEF LoadSubscription
  <2> QED BY <2>1, <1>p
<1>7. CASE FindOpen(h)
  <2>1. \E t : Go(h, t) /\ t.pc \in {"insert", "payroll", "findDraft"}
    BY <1>7 DEF FindOpen
  <2> QED BY <2>1, <1>p
<1>8. CASE BeginPayroll(h)
  <2>1. \E t : Go(h, t) /\ t.pc = "payroll"
    BY <1>8 DEF BeginPayroll
  <2> QED BY <2>1, <1>p
<1>9. CASE FindOpenDraft(h)
  <2>1. \E t : Go(h, t) /\ t.pc \in {"rewrite", "idle"}
    BY <1>9 DEF FindOpenDraft, Idle
  <2> QED BY <2>1, <1>p
<1>10. CASE CreateStandalone(h)
  <2>1. Len(rows) + 1 \in DOMAIN rows' /\ rows'[Len(rows) + 1].sub = NoSub
    BY <1>10, DraftIsFresh, InsertBillsNothing DEF CreateStandalone, InsertDraft
  <2>2. \E t : Go(h, t) /\ (t.pc = "idle" \/ t = [pc |-> "readNew", row |-> Len(rows) + 1])
    BY <1>10 DEF CreateStandalone, Idle
  <2>3. CASE Go(h, [pc |-> "readNew", row |-> Len(rows) + 1])
    BY <2>1, <2>3, <1>g DEF HandlerHolds, Standalone
  <2> QED BY <2>2, <2>3, <1>p
<1>11. CASE FinalizeAndCharge(h)
  <2>1. Standalone(task[h].row)
    BY <1>11, <1>t DEF FinalizeAndCharge, At, HandlerHolds
  <2>2. task'[h].pc = "idle"
         \/ (task'[h].pc = "finalize" /\ task'[h].sub = NoSub /\ task'[h].row = task[h].row)
    BY <1>11, <1>g DEF FinalizeAndCharge, Finalizing, Idle
  <2>3. task[h].row \in DOMAIN rows' /\ rows'[task[h].row].sub = NoSub
    BY <2>1, <1>n DEF Standalone, NoBilling
  <2> QED BY <2>2, <2>3 DEF HandlerHolds, Standalone
<1>12. CASE ReadCredit(h)
  <2>1. task[h].sub = NoSub /\ Standalone(task[h].row)
    BY <1>12, <1>t DEF ReadCredit, At, HandlerHolds
  <2>2. task'[h].pc = "settle" /\ task'[h].sub = task[h].sub /\ task'[h].row = task[h].row
    BY <1>12, <1>g DEF ReadCredit
  <2>3. task[h].row \in DOMAIN rows' /\ rows'[task[h].row].sub = NoSub
    BY <2>1, <1>n DEF Standalone, NoBilling
  <2> QED BY <2>1, <2>2, <2>3 DEF HandlerHolds, Standalone
<1>13. CASE BeginVoid(h)
  <2>1. \E t : Go(h, t) /\ t.pc = "void"
    BY <1>13 DEF BeginVoid
  <2> QED BY <2>1, <1>p
<1>14. CASE IssueCreditNote(h)
  <2>1. task' = task
    BY <1>14 DEF IssueCreditNote
  <2>2. HandlerHolds(task[h])
    BY <1>t
  <2>3. \A i : Standalone(i) => i \in DOMAIN rows' /\ rows'[i].sub = NoSub
    BY <1>n DEF Standalone, NoBilling
  <2> QED BY <2>1, <2>2, <2>3 DEF HandlerHolds, Standalone
<1> QED
  BY <1>1, <1>2, <1>3, <1>4, <1>5, <1>6, <1>7, <1>8, <1>9, <1>10, <1>11, <1>12, <1>13,
     <1>14 DEF Handle, Finalization

\* What a runner goes on with: a period that is not billed, a standalone row, or
\* nothing.
LEMMA RunnersHold ==
    ASSUME TypeInv, BillingInv, NEW r \in Runner,
           StartGeneration(r) \/ Generate(r) \/ Crash(r), ~Settle(r)
    PROVE  /\ RunnerHolds(task[r])' /\ BatchHolds(batch[r])'
           /\ \A a \in Process : a # r => task'[a] = task[a]
           /\ \A s \in Runner : s # r => batch'[s] = batch[s]
<1>r. r \in Process
  BY DEF Process
<1>t. TypeOK /\ Len(rows) \in Nat /\ DOMAIN rows = 1..Len(rows)
      /\ RunnerHolds(task[r]) /\ BatchHolds(batch[r])
      /\ task \in [Process -> Task]
  BY DEF TypeInv, TypeOK, BillingInv, RowsHeld
<1>b. /\ batch \in [Runner -> [loop : {"none", "due"}, items : SUBSET (Sub \X Nat)]
                              \cup [loop : {"pending"}, items : SUBSET (Nat \X Int)]]
      /\ batch[r].loop = "due" => \A due \in batch[r].items : due[1] \in Sub
  BY DEF TypeInv, TypeOK
<1>o. /\ \A a \in Process : a # r => task'[a] = task[a]
      /\ \A s \in Runner : s # r => batch'[s] = batch[s]
  BY <1>r, <1>t, <1>b
  DEF StartGeneration, Generate, Crash, VisitSubscription, EndSubscriptions, VisitStandalone,
      EndGeneration, Visiting, SkipPeriod, PickDraft, PickMissing, Finalization, ReadCredit,
      SettleThrows, Advance, Announce, AlreadyAdvanced, CheckPeriod, ReadPeriod, AdvancePeriod,
      SkipSeed, CheckDraft, SeedDraft, Step, Go
<1> SUFFICES RunnerHolds(task[r])' /\ BatchHolds(batch[r])'
  BY <1>o
<1>n. NoBilling
  BY RunnersBillNothing
<1>g. \A t : Go(r, t) => task'[r] = t
  BY <1>r, <1>t DEF Go
<1>p. ASSUME NEW t, Go(r, t), t.pc \notin {"finalize", "settle"}
      PROVE  RunnerHolds(task[r])'
  BY <1>p, <1>g DEF RunnerHolds
<1>k. /\ UNCHANGED task => RunnerHolds(task[r])'
      /\ UNCHANGED batch => BatchHolds(batch[r])'
  <2>1. ASSUME UNCHANGED task PROVE RunnerHolds(task[r])'
    <3> DEFINE t == task[r]
    <3>1. \A u : RunnerHolds(u) => RunnerHolds(u)'
      BY <1>n, HoldingsKept
    <3>2. PICK u : u = task[r]
      OBVIOUS
    <3>3. RunnerHolds(u)'
      BY <1>t, <3>1, <3>2
    <3>4. task'[r] = u
      BY <2>1, <3>2
    <3> QED BY <3>3, <3>4 DEF RunnerHolds
  <2>2. ASSUME UNCHANGED batch PROVE BatchHolds(batch[r])'
    <3>1. \A u : BatchHolds(u) => BatchHolds(u)'
      BY <1>n, HoldingsKept
    <3>2. PICK u : u = batch[r]
      OBVIOUS
    <3>3. BatchHolds(u)'
      BY <1>t, <3>1, <3>2
    <3>4. batch'[r] = u
      BY <2>2, <3>2
    <3> QED BY <3>3, <3>4 DEF BatchHolds
  <2> QED BY <2>1, <2>2
\* Items that are taken off a batch leave the rest as it was.
<1>v. ASSUME NEW loop, NEW item, Visiting(r, loop, item)
      PROVE  BatchHolds(batch[r])'
  <2>1. batch'[r].loop = batch[r].loop /\ batch'[r].items \subseteq batch[r].items
    BY <1>v, <1>b DEF Visiting
  <2>2. \A i : Standalone(i) => i \in DOMAIN rows' /\ rows'[i].sub = NoSub
    BY <1>n DEF Standalone, NoBilling
  <2> QED BY <1>t, <2>1, <2>2 DEF BatchHolds, Standalone
<1>1. CASE StartGeneration(r)
  <2>1. batch'[r].loop = "due" /\ UNCHANGED task
    BY <1>1, <1>b DEF StartGeneration
  <2> QED BY <1>k, <2>1 DEF BatchHolds
<1>2. CASE VisitSubscription(r)
  <2>1. PICK due \in batch[r].items :
          /\ Visiting(r, "due", due)
          /\ \/ SkipPeriod(r, due[1], due[2])
             \/ PickDraft(r, due[1], due[2])
             \/ PickMissing(r, due[1], due[2])
    BY <1>2 DEF VisitSubscription
  <2>2. BatchHolds(batch[r])'
    BY <2>1, <1>v
  <2>3. due[1] \in Sub /\ due[1] # NoSub
    BY <2>1, <1>b, BillingAssumption DEF Visiting
  <2>4. UNCHANGED <<rows, ledger>>
    BY <1>2 DEF VisitSubscription
  <2>5. CASE SkipPeriod(r, due[1], due[2])
    BY <2>2, <2>5, <1>k DEF SkipPeriod
  <2>6. CASE PickDraft(r, due[1], due[2])
    <3>1. PICK i \in OfPeriod(due[1], due[2]) \cap Drafts :
            Go(r, Finalizing(i, due[1], due[2], rows[i].total))
      BY <2>6 DEF PickDraft
    <3>2. \A j \in OfPeriod(due[1], due[2]) : ~IsBilled(j)
      BY <2>6 DEF PickDraft
    <3>3. ledger[i].finalized = 0
      BY <2>3, <3>1 DEF BillingInv, DraftsUnbooked, OfPeriod, Drafts, IsRecurring
    <3>4. RunnerHolds(Finalizing(i, due[1], due[2], rows[i].total))
      BY <2>3, <3>1, <3>2, <3>3 DEF RunnerHolds, Finalizing
    <3>5. task'[r] = Finalizing(i, due[1], due[2], rows[i].total)
      BY <1>g, <3>1
    <3>6. RunnerHolds(task[r])'
      BY <2>4, <3>4, <3>5 DEF RunnerHolds, Standalone, OfPeriod, IsBilled
    <3> QED BY <2>2, <3>6
  <2>7. CASE PickMissing(r, due[1], due[2])
    <3>1. PICK n \in Amount : Go(r, Finalizing(0, due[1], due[2], n))
      BY <2>7 DEF PickMissing
    <3>2. OfPeriod(due[1], due[2])' = {}
      BY <2>4, <2>7 DEF PickMissing, OfPeriod
    <3>3. /\ task'[r].row = 0 /\ task'[r].sub = due[1] /\ task'[r].period = due[2]
      BY <1>g, <3>1 DEF Finalizing
    <3>4. OfPeriod(task[r].sub, task[r].period)' = {}
      BY <3>2, <3>3 DEF OfPeriod
    <3>5. RunnerHolds(task[r])'
      BY <2>3, <3>3, <3>4 DEF RunnerHolds
    <3> QED BY <2>2, <3>5
  <2> QED BY <2>1, <2>5, <2>6, <2>7
<1>3. CASE EndSubscriptions(r)
  <2>1. PICK due \in SUBSET {i \in Drafts : ~IsRecurring(i)} :
          batch' = [batch EXCEPT ![r] =
                     [loop |-> "pending", items |-> {<<i, rows[i].total>> : i \in due}]]
    BY <1>3 DEF EndSubscriptions
  <2>2. batch'[r].items = {<<i, rows[i].total>> : i \in due}
    BY <2>1, <1>b
  <2>3. \A i \in due : i \in DOMAIN rows' /\ rows'[i].sub = NoSub
    BY <1>3 DEF EndSubscriptions, Drafts, IsRecurring
  <2>4. BatchHolds(batch[r])'
    BY <2>2, <2>3 DEF BatchHolds, Standalone
  <2> QED BY <1>3, <1>k, <2>4 DEF EndSubscriptions
<1>4. CASE VisitStandalone(r)
  <2>1. PICK due \in batch[r].items :
          /\ Visiting(r, "pending", due)
          /\ Go(r, Finalizing(due[1], NoSub, 0, due[2]))
    BY <1>4 DEF VisitStandalone
  <2>2. BatchHolds(batch[r])'
    BY <2>1, <1>v
  <2>3. Standalone(due[1])
    BY <2>1, <1>t DEF BatchHolds, Visiting
  <2>4. /\ task'[r].sub = NoSub /\ task'[r].row = due[1]
        /\ due[1] \in DOMAIN rows' /\ rows'[due[1]].sub = NoSub
    BY <1>g, <1>n, <2>1, <2>3 DEF Finalizing, Standalone, NoBilling
  <2> QED BY <2>2, <2>4 DEF RunnerHolds, Standalone
<1>5. CASE EndGeneration(r) \/ Crash(r)
  <2>1. batch'[r].loop = "none"
    BY <1>5, <1>b DEF EndGeneration, Crash, NoBatch
  <2>2. RunnerHolds(task[r])'
    <3>1. CASE EndGeneration(r)
      BY <1>k, <3>1 DEF EndGeneration
    <3>2. CASE Crash(r)
      <4>1. Go(r, Idle) /\ Idle.pc = "idle"
        BY <3>2 DEF Crash, Idle
      <4> QED BY <4>1, <1>p
    <3> QED BY <1>5, <3>1, <3>2
  <2> QED BY <2>1, <2>2 DEF BatchHolds
<1>6. CASE ReadCredit(r)
  <2>1. BatchHolds(batch[r])'
    BY <1>6, <1>k DEF ReadCredit
  <2>2. UNCHANGED <<rows, ledger>> /\ task[r].pc = "finalize"
    BY <1>6 DEF ReadCredit, At
  <2>3. task'[r].pc = "settle" /\ task'[r].sub = task[r].sub /\ task'[r].row = task[r].row
        /\ task'[r].period = task[r].period
    BY <1>6, <1>g DEF ReadCredit
  <2>4. RunnerHolds(task[r])'
    BY <2>2, <2>3, <1>t DEF RunnerHolds, Standalone, OfPeriod, IsBilled
  <2> QED BY <2>1, <2>4
<1>7. CASE SettleThrows(r) \/ AlreadyAdvanced(r) \/ SkipSeed(r) \/ SeedDraft(r)
  <2>1. Go(r, Idle) /\ Idle.pc = "idle" /\ UNCHANGED batch
    BY <1>7 DEF SettleThrows, AlreadyAdvanced, SkipSeed, SeedDraft, Idle
  <2> QED BY <2>1, <1>p, <1>k
<1>8. CASE Announce(r) \/ CheckPeriod(r) \/ ReadPeriod(r) \/ AdvancePeriod(r) \/ CheckDraft(r)
  <2>1. task[r].pc \in Phases /\ UNCHANGED batch
    BY <1>8 DEF Announce, CheckPeriod, ReadPeriod, AdvancePeriod, CheckDraft, Step, At, Phases
  <2>2. \/ \E pc \in Phases : Go(r, InPhase(r, pc))
        \/ \E pc \in Phases, p \in Nat : Go(r, InPhaseOf(r, pc, p))
        \/ \E c \in Nat : Go(r, Closing(r, c))
    <3>1. task[r].sub \in Sub /\ task[r].period \in Nat /\ task[r].row \in DOMAIN rows
      BY <1>r, <1>t, <2>1, TaskShape DEF TypeInv, HeldRowsExist, RowsOf, HoldsRow
    <3>2. /\ subs[task[r].sub].period \in Nat /\ task[r].period + Month \in Nat
          /\ rows[task[r].row].credit \in Nat
      <4>1. rows[task[r].row].credit \in Nat
        BY <1>t, <3>1, RowShape
      <4>2. subs[task[r].sub].period \in Nat
        BY <1>t, <3>1 DEF TypeOK
      <4>3. task[r].period + Month \in Nat
        BY <3>1 DEF Month
      <4> QED BY <4>1, <4>2, <4>3
    <3>3. CASE Announce(r) \/ CheckDraft(r)
      BY <3>3 DEF Announce, CheckDraft, Step, InPhase, Phases
    <3>4. CASE CheckPeriod(r)
      BY <3>2, <3>4 DEF CheckPeriod, Closing
    <3>5. CASE ReadPeriod(r) \/ AdvancePeriod(r)
      BY <3>2, <3>5 DEF ReadPeriod, AdvancePeriod, InPhaseOf, Phases
    <3> QED BY <1>8, <3>3, <3>4, <3>5
  <2>3. \E t : Go(r, t) /\ t.pc \in Phases
    <3>1. CASE \E c \in Nat : Go(r, Closing(r, c))
      <4>1. PICK c \in Nat : Go(r, Closing(r, c))
        BY <3>1
      <4>2. Closing(r, c).pc = "reread" /\ "reread" \in Phases
        BY <1>r, <1>t, <2>1, PhaseShape DEF Phases
      <4> QED BY <4>1, <4>2
    <3>2. CASE ~ \E c \in Nat : Go(r, Closing(r, c))
      BY <1>r, <1>t, <2>1, <2>2, <3>2, PhaseShape
    <3> QED BY <3>1, <3>2
  <2> QED BY <2>1, <2>3, <1>p, <1>k DEF Phases
<1> QED
  BY <1>1, <1>2, <1>3, <1>4, <1>5, <1>6, <1>7, <1>8 DEF Generate, Finalization, Advance

\* The layer, when nothing was billed and every process and batch that changed
\* holds what it may.
LEMMA QuietKeepsBilling ==
    ASSUME TypeInv, BillingInv, NoBilling,
           \A h \in Handler : task'[h] = task[h] \/ HandlerHolds(task[h])',
           \A r \in Runner : task'[r] = task[r] \/ RunnerHolds(task[r])',
           \A r \in Runner : batch'[r] = batch[r] \/ BatchHolds(batch[r])'
    PROVE  BillingInv'
<1>1. ASSUME NEW h \in Handler, task'[h] = task[h] PROVE HandlerHolds(task[h])'
  <2>1. PICK u : u = task[h]
    OBVIOUS
  <2>2. HandlerHolds(u)
    BY <2>1 DEF BillingInv, RowsHeld
  <2>3. HandlerHolds(u)'
    BY <2>2, HoldingsKept
  <2> QED BY <1>1, <2>1, <2>3 DEF HandlerHolds
<1>2. ASSUME NEW r \in Runner, task'[r] = task[r] PROVE RunnerHolds(task[r])'
  <2>1. PICK u : u = task[r]
    OBVIOUS
  <2>2. RunnerHolds(u)
    BY <2>1 DEF BillingInv, RowsHeld
  <2>3. RunnerHolds(u)'
    BY <2>2, HoldingsKept
  <2> QED BY <1>2, <2>1, <2>3 DEF RunnerHolds
<1>3. ASSUME NEW r \in Runner, batch'[r] = batch[r] PROVE BatchHolds(batch[r])'
  <2>1. PICK u : u = batch[r]
    OBVIOUS
  <2>2. BatchHolds(u)
    BY <2>1 DEF BillingInv, RowsHeld
  <2>3. BatchHolds(u)'
    BY <2>2, HoldingsKept
  <2> QED BY <1>3, <2>1, <2>3 DEF BatchHolds
<1>4. RowsHeld'
  BY <1>1, <1>2, <1>3 DEF RowsHeld
<1> QED BY <1>4, NothingNewlyBilled DEF BillingInv

\* The finalizing transaction: a standalone row, or the only one of its period.
LEMMA SettleKeepsBilling ==
    ASSUME SingleRunner, TypeInv, BillingInv, NEW a \in Process, Settle(a)
    PROVE  BillingInv'
<1> DEFINE k == SettledRow(a)
           t == task[a]
<1>t. TypeOK /\ Len(rows) \in Nat /\ DOMAIN rows = 1..Len(rows)
      /\ task \in [Process -> Task] /\ t.pc = "settle" /\ RowsOf(t, Len(rows))
  BY DEF TypeInv, TypeOK, HeldRowsExist, Settle, At
<1>s. /\ DOMAIN rows' = DOMAIN rows \cup {k}
      /\ k \in DOMAIN rows <=> t.row # 0
      /\ \A j \in DOMAIN rows : j # k => rows'[j] = rows[j] /\ ledger'[j] = ledger[j]
      /\ rows'[k].status \in {"finalized", "paid"}
      /\ t.row # 0 => k = t.row /\ rows'[k].sub = rows[k].sub /\ rows'[k].period = rows[k].period
      /\ t.row = 0 => rows'[k].sub = t.sub /\ rows'[k].period = t.period
      /\ t.row # 0 => ledger'[k].finalized = ledger[k].finalized + (IF Due(a) <= 0 THEN 0 ELSE 1)
      /\ t.row = 0 => ledger'[k].finalized = (IF Due(a) <= 0 THEN 0 ELSE 1)
      /\ UNCHANGED batch
  BY SettleEffect DEF SettledRow, Settle
<1>g. /\ task'[a] = AfterSettle(a) /\ AfterSettle(a).pc \in {"announce", "idle"}
      /\ \A b \in Process : b # a => task'[b] = task[b]
  BY <1>t DEF Settle, Go, AfterSettle, Announcing, Idle
<1> HIDE DEF k
\* Rows that were standalone are so.
<1>1. \A i : Standalone(i) => i \in DOMAIN rows' /\ rows'[i].sub = NoSub
  BY <1>s DEF Standalone
<1>2. \A h \in Handler : HandlerHolds(task[h])'
  <2> SUFFICES ASSUME NEW h \in Handler PROVE HandlerHolds(task[h])'
    OBVIOUS
  <2>1. CASE h = a
    BY <1>g, <2>1 DEF HandlerHolds
  <2>2. CASE h # a
    <3>1. task'[h] = task[h] /\ HandlerHolds(task[h])
      BY <1>g, <2>2 DEF Process, BillingInv, RowsHeld
    <3> QED BY <1>1, <3>1 DEF HandlerHolds, Standalone
  <2> QED BY <2>1, <2>2
<1>3. \A r \in Runner : BatchHolds(batch[r])'
  <2>1. \A r \in Runner : BatchHolds(batch[r]) /\ batch' = batch
    BY <1>s DEF BillingInv, RowsHeld
  <2> QED BY <1>1, <2>1 DEF BatchHolds, Standalone
\* In both loops nothing else of the row's period was billed.
<1>4. CASE t.sub = NoSub
  <2>1. Standalone(t.row) /\ t.row # 0 /\ k = t.row
    <3>1. Standalone(t.row)
      BY <1>t, <1>4 DEF Process, BillingInv, RowsHeld, HandlerHolds, RunnerHolds
    <3> QED BY <1>t, <1>s, <3>1 DEF Standalone
  <2>2. DOMAIN rows' = DOMAIN rows /\ rows[k].sub = NoSub /\ rows'[k].sub = NoSub
    BY <1>s, <2>1 DEF Standalone
  <2>3. \A i \in DOMAIN rows : /\ rows'[i].sub = rows[i].sub
                               /\ rows'[i].sub # NoSub =>
                                    rows'[i] = rows[i] /\ ledger'[i] = ledger[i]
    BY <1>s, <2>2
  <2>4. \A r \in Runner : RunnerHolds(task[r])'
    <3> SUFFICES ASSUME NEW r \in Runner PROVE RunnerHolds(task[r])'
      OBVIOUS
    <3>1. CASE r = a
      BY <1>g, <3>1 DEF RunnerHolds
    <3>2. CASE r # a
      <4>1. task'[r] = task[r] /\ RunnerHolds(task[r])
        BY <1>g, <3>2 DEF Process, BillingInv, RowsHeld
      <4>2. task'[r].pc \in {"finalize", "settle"} /\ task'[r].sub = NoSub =>
              Standalone(task[r].row)'
        BY <1>1, <4>1 DEF RunnerHolds, Standalone
      <4>3. task'[r].pc \in {"finalize", "settle"} /\ task'[r].sub # NoSub =>
              \A i \in DOMAIN rows' :
                rows'[i].sub = task[r].sub /\ rows'[i].period = task[r].period =>
                  rows'[i].status \notin {"finalized", "paid"}
        BY <4>1, <2>2, <2>3 DEF RunnerHolds, OfPeriod, IsBilled
      <4>4. task'[r].pc \in {"finalize", "settle"} /\ task'[r].sub # NoSub /\ task'[r].row # 0 =>
              /\ task[r].row \in DOMAIN rows' /\ rows'[task[r].row].sub = task[r].sub
              /\ rows'[task[r].row].period = task[r].period
              /\ ledger'[task[r].row].finalized = 0
        BY <4>1, <2>2, <2>3 DEF RunnerHolds, OfPeriod
      <4> QED BY <4>1, <4>2, <4>3, <4>4 DEF RunnerHolds, OfPeriod, IsBilled
    <3> QED BY <3>1, <3>2
  <2>5. DraftsUnbooked' /\ BilledOnce' /\ RecurringFinalizedOnce'
    BY <2>2, <2>3 DEF BillingInv, DraftsUnbooked, BilledOnce, RecurringFinalizedOnce,
                      IsRecurring, IsDraft, IsBilled
  <2> QED BY <1>2, <1>3, <2>4, <2>5 DEF BillingInv, RowsHeld
<1>5. CASE t.sub # NoSub
  <2>1. a \in Runner
    BY <1>t, <1>5 DEF Process, BillingInv, RowsHeld, HandlerHolds
  <2>2. RunnerHolds(t)
    BY <2>1 DEF BillingInv, RowsHeld
  <2>3. /\ \A i \in OfPeriod(t.sub, t.period) : ~IsBilled(i)
        /\ t.row # 0 => t.row \in OfPeriod(t.sub, t.period) /\ ledger[t.row].finalized = 0
    BY <1>t, <1>5, <2>2 DEF RunnerHolds
  <2>4. \A r \in Runner : RunnerHolds(task[r])'
    BY <1>g, <2>1 DEF SingleRunner, RunnerHolds
  <2>5. rows'[k].sub = t.sub /\ rows'[k].period = t.period /\ ledger'[k].finalized \in {0, 1}
    BY <1>s, <2>3 DEF OfPeriod
  <2>6. DraftsUnbooked'
    BY <1>s DEF BillingInv, DraftsUnbooked, IsRecurring, IsDraft
  <2>7. RecurringFinalizedOnce'
    BY <1>s, <2>5 DEF BillingInv, RecurringFinalizedOnce, IsRecurring
  <2>8. \A i \in DOMAIN rows' : i # k =>
          i \in DOMAIN rows /\ rows'[i] = rows[i]
          /\ ~(rows'[i].sub = t.sub /\ rows'[i].period = t.period
               /\ rows'[i].status \in {"finalized", "paid"})
    BY <1>s, <2>3 DEF OfPeriod, IsBilled
  <2>9. BilledOnce'
    BY <2>5, <2>8 DEF BillingInv, BilledOnce, IsRecurring, IsBilled
  <2> QED BY <1>2, <1>3, <2>4, <2>6, <2>7, <2>9 DEF BillingInv, RowsHeld
<1> QED BY <1>4, <1>5

LEMMA BillingInvInit == Init => BillingInv
<1> SUFFICES ASSUME Init PROVE BillingInv
  OBVIOUS
<1>1. RowsHeld
  BY DEF Init, RowsHeld, HandlerHolds, RunnerHolds, BatchHolds, Idle, NoBatch, Process
<1>2. CASE Enrolled = {}
  BY <1>1, <1>2 DEF Init, BillingInv, DraftsUnbooked, BilledOnce, RecurringFinalizedOnce
<1>3. CASE Enrolled # {}
  <2>1. PICK s \in Enrolled, n \in Amount : rows = <<Draft(s, 0, n)>>
    BY <1>3 DEF Init
  <2>2. ledger = <<Unbooked>> /\ DOMAIN rows = {1}
    BY <1>3, <2>1 DEF Init
  <2>3. ledger[1].finalized = 0
    BY <2>2 DEF Unbooked
  <2> QED BY <1>1, <2>2, <2>3 DEF BillingInv, DraftsUnbooked, BilledOnce, RecurringFinalizedOnce
<1> QED BY <1>2, <1>3

LEMMA BillingInvStep ==
    ASSUME SingleRunner
    PROVE  TypeInv /\ BillingInv /\ [Next]_vars => BillingInv'
<1> SUFFICES ASSUME TypeInv, BillingInv, [Next]_vars PROVE BillingInv'
  OBVIOUS
<1>p. Runner \subseteq Process /\ Handler \subseteq Process /\ Runner \cap Handler = {}
  BY BillingAssumption DEF Process
<1>0. ASSUME NEW a \in Process, Settle(a) PROVE BillingInv'
  BY <1>0, SettleKeepsBilling
<1>1. ASSUME NEW r \in Runner, StartGeneration(r) \/ Generate(r) \/ Crash(r), ~Settle(r)
      PROVE  BillingInv'
  <2>1. /\ RunnerHolds(task[r])' /\ BatchHolds(batch[r])'
        /\ \A a \in Process : a # r => task'[a] = task[a]
        /\ \A s \in Runner : s # r => batch'[s] = batch[s]
    BY <1>1, RunnersHold
  <2>2. NoBilling
    BY <1>1, RunnersBillNothing
  <2>3. \A h \in Handler : task'[h] = task[h]
    BY <1>p, <2>1
  <2>4. \A s \in Runner : task'[s] = task[s] \/ RunnerHolds(task[s])'
    BY <1>p, <2>1
  <2>5. \A s \in Runner : batch'[s] = batch[s] \/ BatchHolds(batch[s])'
    BY <2>1
  <2> QED BY <2>2, <2>3, <2>4, <2>5, QuietKeepsBilling
<1>2. ASSUME NEW h \in Handler, Handle(h), ~Settle(h)
      PROVE  BillingInv'
  <2>1. /\ HandlerHolds(task[h])' /\ UNCHANGED batch
        /\ \A a \in Process : a # h => task'[a] = task[a]
    BY <1>2, HandlersHold
  <2>2. NoBilling
    BY <1>2, HandlersBillNothing
  <2>3. \A g \in Handler : task'[g] = task[g] \/ HandlerHolds(task[g])'
    BY <1>p, <2>1
  <2>4. \A s \in Runner : task'[s] = task[s] /\ batch'[s] = batch[s]
    BY <1>p, <2>1
  <2> QED BY <2>2, <2>3, <2>4, QuietKeepsBilling
<1>3. ASSUME NEW a \in Process, Throws(a)
      PROVE  BillingInv'
  <2>1. UNCHANGED <<rows, ledger, batch>> /\ task'[a].pc = "idle"
        /\ \A b \in Process : b # a => task'[b] = task[b]
    BY <1>3 DEF Throws, Go, Idle, TypeInv, TypeOK
  <2>2. \A h \in Handler : task'[h] = task[h] \/ HandlerHolds(task[h])'
    BY <1>p, <2>1 DEF HandlerHolds
  <2>3. \A s \in Runner : task'[s] = task[s] \/ RunnerHolds(task[s])'
    BY <1>p, <2>1 DEF RunnerHolds
  <2>4. \A s \in Runner : batch'[s] = batch[s] \/ BatchHolds(batch[s])'
    BY <2>1
  <2> QED BY <2>1, <2>2, <2>3, <2>4, NoBillingIfUnchanged, QuietKeepsBilling
<1>4. ASSUME NEW i \in DOMAIN rows, Pay(i)
      PROVE  BillingInv'
  <2>1. NoBilling /\ UNCHANGED <<batch, task>>
    BY <1>4, PayBillsNothing DEF Pay
  <2> QED BY <2>1, QuietKeepsBilling
<1>5. CASE UNCHANGED vars
  <2>1. UNCHANGED <<rows, ledger, batch, task>>
    BY <1>5 DEF vars
  <2> QED BY <2>1, NoBillingIfUnchanged, QuietKeepsBilling
<1> QED BY <1>p, <1>0, <1>1, <1>2, <1>3, <1>4, <1>5 DEF Next, Generate, Finalization, Handle

LEMMA BillingInvariant ==
    ASSUME SingleRunner
    PROVE  Spec => [](TypeInv /\ BillingInv)
<1>1. TypeInv /\ BillingInv /\ [Next]_vars => TypeInv' /\ BillingInv'
  BY TypeInvStep, BillingInvStep
<1> QED BY <1>1, TypeInvInit, BillingInvInit, PTL DEF Spec

\* With one runner a period of a subscription is billed once, whatever handlers
\* pause, resume, void, rewrite or finalize while the runner waits, and wherever
\* calls fail or the runner crashes.
THEOREM PeriodBilledOnce ==
    ASSUME SingleRunner
    PROVE  Spec => []BilledOnce
BY BillingInvariant, PTL DEF BillingInv

\* And every recurring invoice enters the receivables at most once.
THEOREM RecurringEnteredOnce ==
    ASSUME SingleRunner
    PROVE  Spec => []RecurringFinalizedOnce
BY BillingInvariant, PTL DEF BillingInv

-----------------------------------------------------------------------------
(* Layer 3: requests that leave drafts alone *)

SteadyRequest == {"credit", "invoice_later", "void", "past_due", "active"}

Steady == SingleRunner /\ Request \subseteq SteadyRequest

\* Nothing is paused, resumed, voided as a draft or rewritten, and the invoice
\* that a handler has read and is about to void is closed.
HandlerSteady(t) ==
    /\ t.pc \in {"idle", "setStatus", "void"}
    /\ t.pc = "setStatus" => t.from # "paused" /\ t.to \in {"active", "past_due"}
    /\ t.pc = "void" => /\ t.row \in DOMAIN rows /\ ~IsDraft(t.row)
                        /\ rows[t.row].total = t.total

Closed(s, p) == \E i \in OfPeriod(s, p) : ~IsDraft(i)

\* What a runner read of a row is what the row says when it writes.  A batch may
\* lag behind the subscriptions, but the test of the period filters out what
\* lags: the period that is advanced is the one that was billed.
RunnerSteady(t) ==
    /\ t.pc \in {"finalize", "settle"} /\ t.row # 0 =>
         t.row \in DOMAIN rows /\ IsDraft(t.row) /\ rows[t.row].total = t.total
    /\ (t.pc \in {"finalize", "settle"} /\ t.sub # NoSub) \/ t.pc \in {"announce", "check"} =>
         t.period <= subs[t.sub].period
    /\ t.pc \in {"announce", "check", "reread", "advance"} => Closed(t.sub, t.period)
    /\ t.pc \in {"reread", "advance"} => t.period = subs[t.sub].period

\* An item of the second loop is not the row that the runner is at.
BatchSteady(b, t) ==
    /\ b.loop = "due" => \A due \in b.items : due[2] <= subs[due[1]].period
    /\ b.loop = "pending" => \A due \in b.items :
         /\ due[1] \in DOMAIN rows /\ IsDraft(due[1]) /\ rows[due[1]].total = due[2]
         /\ t.pc \in {"finalize", "settle"} => t.row # due[1]

SteadyHolds ==
    /\ \A s \in Sub : subs[s].status \in {"none", "active", "past_due"}
    /\ \A h \in Handler : HandlerSteady(task[h])
    /\ \A r \in Runner : RunnerSteady(task[r]) /\ BatchSteady(batch[r], task[r])

DraftsUntouched ==
    \A i \in DOMAIN rows : IsDraft(i) => ledger[i].receivable = 0

SteadyInv == SteadyHolds /\ DraftsUntouched /\ LedgerMatchesInvoice

\* Every step but the transaction leaves amounts alone and opens no closed row.
QuietRows ==
    /\ DOMAIN rows \subseteq DOMAIN rows'
    /\ \A i \in DOMAIN rows :
         /\ rows'[i].sub = rows[i].sub /\ rows'[i].period = rows[i].period
         /\ rows'[i].items = rows[i].items /\ rows'[i].total = rows[i].total
         /\ rows'[i].status = "draft" <=> IsDraft(i)
    /\ DraftsUntouched' /\ LedgerMatchesInvoice'

SamePeriods == \A s \in Sub : subs'[s].period = subs[s].period

LEMMA QuietIfUnchanged ==
    ASSUME SteadyInv, UNCHANGED <<rows, ledger>> PROVE QuietRows
BY DEF QuietRows, SteadyInv, DraftsUntouched, LedgerMatchesInvoice, IsDraft, IsBilled

LEMMA InsertIsQuiet ==
    ASSUME TypeInv, SteadyInv, NEW v, IsFresh(v), Insert(v)
    PROVE  QuietRows
<1>1. /\ TypeOK /\ v \in Invoice /\ v.status = "draft" /\ v.total = v.items - v.credit
      /\ Unbooked.receivable = 0
  BY DEF TypeInv, IsFresh, Unbooked
<1>2. /\ DOMAIN rows' = DOMAIN rows \cup {Len(rows) + 1}
      /\ \A i \in DOMAIN rows : rows'[i] = rows[i] /\ ledger'[i] = ledger[i]
      /\ rows'[Len(rows) + 1] = v
      /\ ledger'[Len(rows) + 1] = Unbooked
  BY <1>1, InsertEffect
<1> QED BY <1>1, <1>2
        DEF QuietRows, SteadyInv, DraftsUntouched, LedgerMatchesInvoice, IsDraft, IsBilled

\* Closing a finalized invoice: as paid its receivable stays, as void it goes.
LEMMA ClosingIsQuiet ==
    ASSUME TypeInv, SteadyInv, NEW i \in DOMAIN rows, rows[i].status = "finalized",
           NEW status \in {"paid", "void"}, status = "void" => rows[i].total > 0,
           rows' = [rows EXCEPT ![i].status = status],
           ledger' = IF status = "paid" THEN ledger
                     ELSE [ledger EXCEPT ![i].receivable = @ - rows[i].total]
    PROVE  QuietRows
<1> DEFINE v == [rows[i] EXCEPT !.status = status]
           x == ledger[i].receivable - rows[i].total
           e == [ledger[i] EXCEPT !.receivable = x]
<1>1. TypeOK
  BY DEF TypeInv
<1>2. /\ rows[i].total \in Int /\ ledger[i] \in [finalized : Nat, receivable : Int]
      /\ ledger[i].receivable = IF rows[i].total > 0 THEN rows[i].total ELSE 0
  BY <1>1, RowShape DEF SteadyInv, LedgerMatchesInvoice, IsBilled
<1>3. /\ v \in Invoice /\ v.sub = rows[i].sub /\ v.period = rows[i].period
      /\ v.items = rows[i].items /\ v.total = rows[i].total /\ v.credit = rows[i].credit
      /\ v.status = status
  BY <1>1, RowShape DEF Invoice, InvoiceStatus
<1>4. x \in Int /\ (status = "void" => x = 0)
  BY <1>2
<1>5. e \in [finalized : Nat, receivable : Int] /\ e.receivable = x
  <2> HIDE DEF x
  <2> QED BY <1>2, <1>4
<1>6. rows' = [rows EXCEPT ![i] = v]
  OBVIOUS
<1>7. status = "void" => ledger' = [ledger EXCEPT ![i] = e]
  OBVIOUS
<1> HIDE DEF v, e, x
<1>8. /\ DOMAIN rows' = DOMAIN rows /\ rows'[i] = v
      /\ \A j \in DOMAIN rows : j # i => rows'[j] = rows[j]
  BY <1>1, <1>3, <1>6, ReplaceEffect
<1>9. /\ status = "void" => ledger'[i].receivable = 0
      /\ status = "paid" => ledger'[i].receivable = IF rows[i].total > 0 THEN rows[i].total ELSE 0
      /\ \A j \in DOMAIN rows : j # i => ledger'[j] = ledger[j]
  <2>1. CASE status = "void"
    BY <1>1, <1>4, <1>5, <1>7, <2>1, ReplaceEntry
  <2>2. CASE status = "paid"
    BY <1>2, <2>2
  <2> QED BY <2>1, <2>2
<1> QED BY <1>3, <1>8, <1>9
        DEF QuietRows, SteadyInv, DraftsUntouched, LedgerMatchesInvoice, IsDraft, IsBilled

\* What processes know of rows and periods survives what is quiet.
LEMMA KnowledgeKept ==
    ASSUME QuietRows, NEW t
    PROVE  /\ HandlerSteady(t) => HandlerSteady(t)'
           /\ SamePeriods /\ t.sub \in Sub \cup {NoSub}
              /\ (t.pc \in Phases => t.sub \in Sub)
              /\ RunnerSteady(t) => RunnerSteady(t)'
<1>1. \A i \in DOMAIN rows : /\ i \in DOMAIN rows' /\ rows'[i].total = rows[i].total
                             /\ rows'[i].status = "draft" <=> IsDraft(i)
  BY DEF QuietRows
<1>2. HandlerSteady(t) => HandlerSteady(t)'
  BY <1>1 DEF HandlerSteady, IsDraft
<1>3. \A s, p : Closed(s, p) => Closed(s, p)'
  BY <1>1 DEF Closed, OfPeriod, IsDraft, QuietRows
<1>4. ASSUME SamePeriods, t.sub \in Sub \cup {NoSub}, t.pc \in Phases => t.sub \in Sub,
             RunnerSteady(t)
      PROVE  RunnerSteady(t)'
  <2>1. t.pc \in {"finalize", "settle"} /\ t.row # 0 =>
          t.row \in DOMAIN rows' /\ IsDraft(t.row)' /\ rows'[t.row].total = t.total
    BY <1>1, <1>4 DEF RunnerSteady, IsDraft
  <2>2. t.sub \in Sub => subs'[t.sub].period = subs[t.sub].period
    BY <1>4 DEF SamePeriods
  <2>3. t.pc \in {"announce", "check", "reread", "advance"} => Closed(t.sub, t.period)'
    <3>1. t.pc \in {"announce", "check", "reread", "advance"} => Closed(t.sub, t.period)
      BY <1>4 DEF RunnerSteady
    <3>2. PICK s, p : s = t.sub /\ p = t.period
      OBVIOUS
    <3> QED BY <1>3, <3>1, <3>2
  <2> QED BY <1>4, <2>1, <2>2, <2>3 DEF RunnerSteady, Phases
<1> QED BY <1>2, <1>4

LEMMA ItemsKept ==
    ASSUME QuietRows, SamePeriods, NEW b, NEW t,
           b.loop = "due" => \A due \in b.items : due[1] \in Sub
    PROVE  BatchSteady(b, t) => BatchSteady(b, t)'
<1>1. \A i \in DOMAIN rows : /\ i \in DOMAIN rows' /\ rows'[i].total = rows[i].total
                             /\ rows'[i].status = "draft" <=> IsDraft(i)
  BY DEF QuietRows
<1> QED BY <1>1 DEF BatchSteady, SamePeriods, IsDraft

\* The steps that handlers are left with.
LEMMA SteadySteps ==
    ASSUME Request \subseteq SteadyRequest, TypeInv, SteadyInv, NEW h \in Handler, Handle(h)
    PROVE  \/ BeginUpdate(h) \/ SetStatus(h) \/ CreateStandalone(h) \/ IssueCreditNote(h)
           \/ BeginVoid(h) \/ VoidInvoice(h)
<1>1. task[h].pc \in {"idle", "setStatus", "void"}
  BY DEF SteadyInv, SteadyHolds, HandlerSteady
<1>2. ~Asked(h, "subscribe") /\ ~Asked(h, "payroll")
  BY DEF Asked, SteadyRequest
<1> QED BY <1>1, <1>2
        DEF Handle, FindDraft, VoidDraft, BeginSubscribe, ResumeSubscription, CreateSubscription,
            LoadSubscription, FindOpen, CreateDraft, BeginPayroll, FindOpenDraft, Rewrite,
            FinalizeAndCharge, Finalization, ReadCredit, Settle, SettleThrows, At

LEMMA SteadyHandlers ==
    ASSUME Request \subseteq SteadyRequest, TypeInv, SteadyInv, NEW h \in Handler, Handle(h)
    PROVE  /\ QuietRows /\ SamePeriods /\ UNCHANGED batch
           /\ \A s \in Sub : subs'[s].status \in {"none", "active", "past_due"}
           /\ HandlerSteady(task[h])'
           /\ \A a \in Process : a # h => task'[a] = task[a]
<1>h. h \in Process
  BY DEF Process
<1>t. /\ TypeOK /\ Len(rows) \in Nat /\ DOMAIN rows = 1..Len(rows)
      /\ RowsOf(task[h], Len(rows)) /\ HandlerSteady(task[h])
      /\ task \in [Process -> Task]
      /\ \A s \in Sub : subs[s].status \in {"none", "active", "past_due"}
  BY <1>h DEF TypeInv, TypeOK, HeldRowsExist, SteadyInv, SteadyHolds
<1>g. \A t : Go(h, t) => task'[h] = t /\ \A a \in Process : a # h => task'[a] = task[a]
  BY <1>h, <1>t DEF Go
<1>i. Go(h, Idle) => HandlerSteady(task[h])'
  BY <1>g DEF Idle, HandlerSteady
<1>q. ASSUME UNCHANGED <<rows, ledger>> PROVE QuietRows
  BY <1>q, QuietIfUnchanged
<1>1. CASE BeginUpdate(h)
  <2>1. PICK s \in Sub : \E to \in SubscriptionTransitions[subs[s].status] :
          /\ Asked(h, to)
          /\ Go(h, IF to \in {"paused", "canceled"}
                   THEN [pc |-> "findDraft",
                         after |-> [pc |-> "setStatus", sub |-> s, from |-> subs[s].status,
                                    to |-> to]]
                   ELSE [pc |-> "setStatus", sub |-> s, from |-> subs[s].status, to |-> to])
    BY <1>1 DEF BeginUpdate
  <2>2. PICK to \in SubscriptionTransitions[subs[s].status] :
          /\ Asked(h, to)
          /\ Go(h, IF to \in {"paused", "canceled"}
                   THEN [pc |-> "findDraft",
                         after |-> [pc |-> "setStatus", sub |-> s, from |-> subs[s].status,
                                    to |-> to]]
                   ELSE [pc |-> "setStatus", sub |-> s, from |-> subs[s].status, to |-> to])
    BY <2>1
  <2>3. to \in {"active", "past_due"}
    <3>1. subs[s].status \in SubscriptionStatus
      BY <1>t DEF TypeOK
    <3>2. to \in SubscriptionStatus
      BY <3>1 DEF SubscriptionStatus, SubscriptionTransitions
    <3> QED BY <2>2, <3>2 DEF Asked, SteadyRequest, SubscriptionStatus, SubscriptionTransitions
  <2>4. Go(h, [pc |-> "setStatus", sub |-> s, from |-> subs[s].status, to |-> to])
    BY <2>2, <2>3
  <2>5. /\ task'[h].pc = "setStatus" /\ task'[h].from = subs[s].status /\ task'[h].to = to
        /\ \A a \in Process : a # h => task'[a] = task[a]
    BY <2>4, <1>g
  <2>6. UNCHANGED <<subs, rows, ledger, batch>>
    BY <1>1 DEF BeginUpdate
  <2>7. HandlerSteady(task[h])'
    BY <2>3, <2>5, <1>t DEF HandlerSteady
  <2> QED BY <1>q, <1>t, <2>5, <2>6, <2>7 DEF SamePeriods
<1>2. CASE SetStatus(h)
  <2>1. task[h].sub \in Sub /\ task[h].from # "paused" /\ task[h].to \in {"active", "past_due"}
    BY <1>2, <1>h, <1>t, TaskShape DEF SetStatus, At, HandlerSteady
  <2>2. NewState(task[h].sub, task[h].from, task[h].to) =
          {[subs[task[h].sub] EXCEPT !.status = task[h].to]}
    BY <2>1 DEF NewState
  <2>3. \/ UNCHANGED subs
        \/ subs' = [subs EXCEPT ![task[h].sub] =
                                  [subs[task[h].sub] EXCEPT !.status = task[h].to]]
    BY <1>2, <2>2 DEF SetStatus
  <2>4. SamePeriods /\ \A s \in Sub : subs'[s].status \in {"none", "active", "past_due"}
    <3>1. subs \in [Sub -> [status : SubscriptionStatus, period : Nat, next : BOOLEAN]]
      BY <1>t DEF TypeOK
    <3> QED BY <1>t, <2>1, <2>3, <3>1 DEF SamePeriods
  <2> QED BY <1>2, <1>g, <1>i, <1>q, <2>4 DEF SetStatus
<1>3. CASE CreateStandalone(h)
  <2>1. ~Asked(h, "invoice_now")
    BY DEF Asked, SteadyRequest
  <2>2. Go(h, Idle) /\ UNCHANGED <<subs, batch>>
    BY <1>3, <2>1 DEF CreateStandalone
  <2>3. QuietRows
    BY <1>3, DraftIsFresh, InsertIsQuiet DEF CreateStandalone, InsertDraft
  <2> QED BY <1>g, <1>i, <1>t, <2>2, <2>3 DEF SamePeriods
<1>4. CASE IssueCreditNote(h)
  <2>1. UNCHANGED <<subs, rows, ledger, batch, task>>
    BY <1>4 DEF IssueCreditNote
  <2>2. HandlerSteady(task[h])'
    BY <1>t, <2>1 DEF HandlerSteady, IsDraft
  <2> QED BY <1>q, <1>t, <2>1, <2>2 DEF SamePeriods
<1>5. CASE BeginVoid(h)
  <2>1. PICK i \in DOMAIN rows :
          /\ rows[i].status = "finalized"
          /\ Go(h, [pc |-> "void", row |-> i, total |-> rows[i].total])
    BY <1>5 DEF BeginVoid
  <2>2. UNCHANGED <<subs, rows, ledger, batch>>
    BY <1>5 DEF BeginVoid
  <2>3. /\ task'[h].pc = "void" /\ task'[h].row = i /\ task'[h].total = rows[i].total
        /\ \A a \in Process : a # h => task'[a] = task[a]
    BY <1>g, <2>1
  <2>4. HandlerSteady(task[h])'
    BY <2>1, <2>2, <2>3 DEF HandlerSteady, IsDraft
  <2> QED BY <1>q, <1>t, <2>2, <2>3, <2>4 DEF SamePeriods
<1>6. CASE VoidInvoice(h)
  <2>1. Go(h, Idle) /\ UNCHANGED <<subs, batch>>
    BY <1>6 DEF VoidInvoice
  <2>2. task[h].row \in DOMAIN rows /\ rows[task[h].row].total = task[h].total
    BY <1>6, <1>t DEF VoidInvoice, At, HandlerSteady
  <2>3. QuietRows
    <3>1. CASE UNCHANGED <<rows, ledger>>
      BY <1>q, <3>1
    <3>2. CASE ~UNCHANGED <<rows, ledger>>
      <4> DEFINE i == task[h].row
      <4>1. rows[i].status = "finalized" /\ rows' = [rows EXCEPT ![i].status = "void"]
            /\ ledger' = [ledger EXCEPT ![i].receivable = @ - task[h].total]
            /\ task[h].total > 0
        BY <1>6, <3>2 DEF VoidInvoice, Voidable
      <4>2. ledger' = [ledger EXCEPT ![i].receivable = @ - rows[i].total] /\ rows[i].total > 0
        BY <2>2, <4>1
      <4> QED BY <2>2, <4>1, <4>2, ClosingIsQuiet
    <3> QED BY <3>1, <3>2
  <2> QED BY <1>g, <1>i, <1>t, <2>1, <2>3 DEF SamePeriods
<1> QED BY <1>1, <1>2, <1>3, <1>4, <1>5, <1>6, SteadySteps

\* What each step of a runner does to its task, its batch and the periods, other
\* than settling and advancing.
LEMMA SteadyRunners ==
    ASSUME TypeInv, BillingInv, SteadyInv, NEW r \in Runner,
           StartGeneration(r) \/ Generate(r) \/ Crash(r), ~Settle(r), ~AdvancePeriod(r)
    PROVE  /\ QuietRows /\ UNCHANGED subs
           /\ RunnerSteady(task[r])' /\ BatchSteady(batch[r], task[r])'
           /\ \A a \in Process : a # r => task'[a] = task[a]
<1>r. r \in Process
  BY DEF Process
<1>t. /\ TypeOK /\ Len(rows) \in Nat /\ DOMAIN rows = 1..Len(rows)
      /\ RowsOf(task[r], Len(rows)) /\ RunnerSteady(task[r])
      /\ BatchSteady(batch[r], task[r])
      /\ task \in [Process -> Task]
  BY <1>r DEF TypeInv, TypeOK, HeldRowsExist, SteadyInv, SteadyHolds
<1>b. /\ batch \in [Runner -> [loop : {"none", "due"}, items : SUBSET (Sub \X Nat)]
                              \cup [loop : {"pending"}, items : SUBSET (Nat \X Int)]]
      /\ batch[r].loop = "due" => \A due \in batch[r].items : due[1] \in Sub /\ due[2] \in Nat
      /\ batch[r].loop = "pending" => \A due \in batch[r].items : due = <<due[1], due[2]>>
  BY DEF TypeInv, TypeOK
<1>p. /\ task[r].pc \in {"finalize", "settle"} => task[r].sub \in Sub \cup {NoSub}
      /\ task[r].pc \in Phases => task[r].sub \in Sub /\ task[r].period \in Nat
      /\ \A s \in Sub : subs[s].period \in Nat
  BY <1>r, <1>t, TaskShape DEF TypeOK
<1>g. \A t : Go(r, t) => task'[r] = t
  BY <1>r, <1>t DEF Go
<1>o. /\ UNCHANGED subs
      /\ \A a \in Process : a # r => task'[a] = task[a]
  BY <1>r, <1>t
  DEF StartGeneration, Generate, Crash, VisitSubscription, EndSubscriptions, VisitStandalone,
      EndGeneration, Visiting, SkipPeriod, PickDraft, PickMissing, Finalization, ReadCredit,
      SettleThrows, Advance, Announce, AlreadyAdvanced, CheckPeriod, ReadPeriod,
      SkipSeed, CheckDraft, SeedDraft, Step, Go
<1>u. UNCHANGED <<rows, ledger>> \/ SeedDraft(r)
  BY DEF StartGeneration, Crash, Generate, VisitSubscription, EndSubscriptions,
      VisitStandalone, EndGeneration, Finalization, ReadCredit, SettleThrows, Advance, Announce,
      AlreadyAdvanced, CheckPeriod, ReadPeriod, SkipSeed, CheckDraft, Step
<1>q. QuietRows
  <2>1. CASE SeedDraft(r)
    BY <1>r, <1>t, <2>1, SeededIsFresh, InsertIsQuiet
  <2> QED BY <1>u, <2>1, QuietIfUnchanged
<1> SUFFICES RunnerSteady(task[r])' /\ BatchSteady(batch[r], task[r])'
  BY <1>o, <1>q
<1>e. SamePeriods
  BY <1>o DEF SamePeriods
<1>s. \A s, p : Closed(s, p) => Closed(s, p)'
  BY <1>q DEF Closed, OfPeriod, IsDraft, QuietRows
\* The batch as it was or less an item, with a task that finalizes no row of it.
<1>k. ASSUME batch'[r].loop = batch[r].loop, batch'[r].items \subseteq batch[r].items,
             task'[r].pc \in {"finalize", "settle"} =>
               \A due \in batch'[r].items : batch[r].loop = "pending" => task'[r].row # due[1]
      PROVE  BatchSteady(batch[r], task[r])'
  <2>1. \A i \in DOMAIN rows : /\ i \in DOMAIN rows' /\ rows'[i].total = rows[i].total
                               /\ rows'[i].status = "draft" <=> IsDraft(i)
    BY <1>q DEF QuietRows
  <2> QED BY <1>k, <1>t, <1>o, <2>1 DEF BatchSteady, IsDraft
\* A task that knows nothing.
<1>n. ASSUME NEW t, Go(r, t), t.pc \in {"idle", "seed", "fetch"}
      PROVE  RunnerSteady(task[r])' /\ (UNCHANGED batch => BatchSteady(batch[r], task[r])')
  BY <1>n, <1>g, <1>k DEF RunnerSteady
<1>1. CASE StartGeneration(r)
  <2>1. PICK due \in SUBSET Billable :
          batch' = [batch EXCEPT ![r] =
                     [loop |-> "due", items |-> {<<s, subs[s].period>> : s \in due}]]
    BY <1>1 DEF StartGeneration
  <2>2. batch'[r].loop = "due" /\ batch'[r].items = {<<s, subs[s].period>> : s \in due}
    BY <2>1, <1>b
  <2>3. \A s \in due : s \in Sub
    BY DEF Billable
  <2>4. BatchSteady(batch[r], task[r])'
    BY <1>o, <1>p, <2>2, <2>3 DEF BatchSteady
  <2>5. UNCHANGED <<subs, rows, ledger, task>>
    BY <1>1 DEF StartGeneration
  <2>6. RunnerSteady(task[r])'
    BY <1>t, <2>5 DEF RunnerSteady, IsDraft, Closed, OfPeriod
  <2> QED BY <2>4, <2>6
<1>2. CASE VisitSubscription(r)
  <2>1. PICK due \in batch[r].items :
          /\ Visiting(r, "due", due)
          /\ \/ SkipPeriod(r, due[1], due[2])
             \/ PickDraft(r, due[1], due[2])
             \/ PickMissing(r, due[1], due[2])
    BY <1>2 DEF VisitSubscription
  <2>2. /\ batch[r].loop = "due" /\ due[1] \in Sub /\ due[2] \in Nat
        /\ due[2] <= subs[due[1]].period /\ task[r].pc = "idle"
    BY <2>1, <1>b, <1>t DEF Visiting, BatchSteady, At
  <2>3. batch'[r].loop = "due" /\ batch'[r].items \subseteq batch[r].items
    BY <2>1, <2>2, <1>b DEF Visiting
  <2>4. BatchSteady(batch[r], task[r])'
    BY <1>k, <2>2, <2>3
  <2>5. UNCHANGED <<rows, ledger>>
    BY <1>2 DEF VisitSubscription
  <2>6. CASE SkipPeriod(r, due[1], due[2])
    <3>1. UNCHANGED task
      BY <2>6 DEF SkipPeriod
    <3> QED BY <2>2, <2>4, <3>1 DEF RunnerSteady
  <2>7. CASE PickDraft(r, due[1], due[2])
    <3>1. PICK i \in OfPeriod(due[1], due[2]) \cap Drafts :
            Go(r, Finalizing(i, due[1], due[2], rows[i].total))
      BY <2>7 DEF PickDraft
    <3>2. /\ task'[r].pc = "finalize" /\ task'[r].row = i /\ task'[r].sub = due[1]
          /\ task'[r].period = due[2] /\ task'[r].total = rows[i].total
      BY <1>g, <3>1 DEF Finalizing
    <3>3. i \in DOMAIN rows /\ IsDraft(i)
      BY <3>1 DEF Drafts
    <3>4. RunnerSteady(task[r])'
      BY <1>o, <2>2, <2>5, <3>2, <3>3 DEF RunnerSteady, IsDraft
    <3> QED BY <2>4, <3>4
  <2>8. CASE PickMissing(r, due[1], due[2])
    <3>1. PICK n \in Amount : Go(r, Finalizing(0, due[1], due[2], n))
      BY <2>8 DEF PickMissing
    <3>2. /\ task'[r].pc = "finalize" /\ task'[r].row = 0 /\ task'[r].sub = due[1]
          /\ task'[r].period = due[2]
      BY <1>g, <3>1 DEF Finalizing
    <3>3. RunnerSteady(task[r])'
      BY <1>o, <2>2, <3>2 DEF RunnerSteady
    <3> QED BY <2>4, <3>3
  <2> QED BY <2>1, <2>6, <2>7, <2>8
<1>3. CASE EndSubscriptions(r)
  <2>1. PICK due \in SUBSET {i \in Drafts : ~IsRecurring(i)} :
          batch' = [batch EXCEPT ![r] =
                     [loop |-> "pending", items |-> {<<i, rows[i].total>> : i \in due}]]
    BY <1>3 DEF EndSubscriptions
  <2>2. batch'[r].loop = "pending" /\ batch'[r].items = {<<i, rows[i].total>> : i \in due}
    BY <2>1, <1>b
  <2>3. UNCHANGED <<subs, rows, task>> /\ task[r].pc = "idle"
    BY <1>3 DEF EndSubscriptions, At
  <2>4. \A i \in due : i \in DOMAIN rows' /\ IsDraft(i)'
    BY <2>3 DEF Drafts, IsDraft
  <2>5. BatchSteady(batch[r], task[r])'
    BY <2>2, <2>3, <2>4 DEF BatchSteady
  <2>6. RunnerSteady(task[r])'
    BY <2>3 DEF RunnerSteady
  <2> QED BY <2>5, <2>6
<1>4. CASE VisitStandalone(r)
  <2>1. PICK due \in batch[r].items :
          /\ Visiting(r, "pending", due)
          /\ Go(r, Finalizing(due[1], NoSub, 0, due[2]))
    BY <1>4 DEF VisitStandalone
  <2>2. batch[r].loop = "pending"
    BY <2>1 DEF Visiting
  <2>3. batch'[r].loop = "pending" /\ batch'[r].items = batch[r].items \ {due}
    BY <2>1, <2>2, <1>b DEF Visiting
  <2>4. /\ task'[r].pc = "finalize" /\ task'[r].row = due[1] /\ task'[r].sub = NoSub
        /\ task'[r].total = due[2]
    BY <1>g, <2>1 DEF Finalizing
  <2>5. \A d \in batch[r].items : d[1] \in DOMAIN rows /\ IsDraft(d[1])
                                 /\ rows[d[1]].total = d[2] /\ d = <<d[1], d[2]>>
    BY <1>t, <1>b, <2>2 DEF BatchSteady
\* The total tells which item: another item is another row.
  <2>6. \A d \in batch'[r].items : d[1] # due[1]
    BY <2>3, <2>5
  <2>7. BatchSteady(batch[r], task[r])'
    BY <1>k, <2>2, <2>3, <2>4, <2>6
  <2>8. UNCHANGED rows
    BY <1>4 DEF VisitStandalone
  <2>9. RunnerSteady(task[r])'
    BY <2>4, <2>5, <2>8 DEF RunnerSteady, IsDraft
  <2> QED BY <2>7, <2>9
<1>5. CASE EndGeneration(r) \/ Crash(r)
  <2>1. batch'[r].loop = "none"
    BY <1>5, <1>b DEF EndGeneration, Crash, NoBatch
  <2>2. task'[r].pc = "idle"
    BY <1>5, <1>g DEF EndGeneration, Crash, Idle, At
  <2> QED BY <2>1, <2>2 DEF RunnerSteady, BatchSteady
<1>6. CASE ReadCredit(r)
  <2>1. UNCHANGED <<subs, rows, ledger, batch>> /\ task[r].pc = "finalize"
    BY <1>6 DEF ReadCredit, At
  <2>2. task'[r].pc = "settle" /\ task'[r].sub = task[r].sub /\ task'[r].row = task[r].row
        /\ task'[r].period = task[r].period /\ task'[r].total = task[r].total
    BY <1>6, <1>g DEF ReadCredit
  <2>3. RunnerSteady(task[r])'
    BY <2>1, <2>2, <1>t DEF RunnerSteady, IsDraft
  <2>4. BatchSteady(batch[r], task[r])'
    BY <2>1, <2>2, <1>k, <1>t DEF BatchSteady
  <2> QED BY <2>3, <2>4
<1>7. CASE SettleThrows(r) \/ AlreadyAdvanced(r) \/ SkipSeed(r) \/ SeedDraft(r)
  <2>1. Go(r, Idle) /\ Idle.pc = "idle" /\ UNCHANGED batch
    BY <1>7 DEF SettleThrows, AlreadyAdvanced, SkipSeed, SeedDraft, Idle
  <2> QED BY <2>1, <1>n
<1>8. CASE Announce(r) \/ CheckPeriod(r) \/ CheckDraft(r)
  <2> DEFINE to == IF task[r].pc = "announce" THEN "check"
                   ELSE IF task[r].pc = "check" THEN "reread" ELSE "fetch"
  <2>1. /\ task[r].pc \in {"announce", "check", "seed"}
        /\ UNCHANGED <<rows, ledger, batch>>
        /\ task[r].pc = "check" => subs[task[r].sub].period <= task[r].period
    BY <1>8 DEF Announce, CheckPeriod, CheckDraft, Step, At
  <2>2. /\ task'[r].pc = to /\ task'[r].sub = task[r].sub /\ task'[r].period = task[r].period
    <3>1. CASE Announce(r) \/ CheckDraft(r)
      <4>1. Go(r, InPhase(r, to)) /\ task[r].pc \in Phases /\ to \in Phases
        BY <3>1 DEF Announce, CheckDraft, Step, At, InPhase, Phases
      <4> QED BY <1>g, <1>r, <1>t, <4>1, PhaseShape
    <3>2. CASE CheckPeriod(r)
      <4> DEFINE c == rows[task[r].row].credit
      <4>1. Go(r, Closing(r, c)) /\ task[r].pc = "check"
        BY <3>2 DEF CheckPeriod, At, Closing
      <4>2. task[r].row \in DOMAIN rows
        BY <1>t, <4>1 DEF RowsOf, HoldsRow, Phases
      <4>3. c \in Nat
        BY <1>t, <4>2, RowShape
      <4> HIDE DEF c
      <4> QED BY <1>g, <1>r, <1>t, <4>1, <4>3, PhaseShape DEF Phases
    <3> QED BY <1>8, <3>1, <3>2
  <2>3. task[r].sub \in Sub /\ task[r].period \in Nat /\ subs[task[r].sub].period \in Nat
    BY <1>p, <2>1 DEF Phases
  <2>4. task[r].pc \in {"announce", "check"} =>
          /\ task[r].period <= subs[task[r].sub].period /\ Closed(task[r].sub, task[r].period)
    BY <1>t DEF RunnerSteady
  <2>5. task[r].pc \in {"announce", "check"} => Closed(task[r].sub, task[r].period)'
    BY <2>1, <2>2, <2>4 DEF Closed, OfPeriod, IsDraft
  <2>6. RunnerSteady(task[r])'
    BY <1>o, <2>1, <2>2, <2>3, <2>4, <2>5 DEF RunnerSteady
  <2>7. BatchSteady(batch[r], task[r])'
    BY <1>k, <2>1, <2>2
  <2> QED BY <2>6, <2>7
<1>9. CASE ReadPeriod(r)
  <2> DEFINE p == subs[task[r].sub].period
  <2>1. task[r].pc = "reread" /\ UNCHANGED <<subs, rows, ledger, batch>>
        /\ Go(r, InPhaseOf(r, "advance", p))
    BY <1>9 DEF ReadPeriod, At, InPhaseOf
  <2>2. task[r].sub \in Sub /\ p \in Nat /\ task[r].period = p /\ Closed(task[r].sub, p)
    BY <1>p, <1>t, <2>1 DEF RunnerSteady, Phases
  <2>3. task'[r].pc = "advance" /\ task'[r].sub = task[r].sub /\ task'[r].period = p
    BY <1>g, <1>r, <1>t, <2>1, <2>2, PhaseShape DEF Phases
  <2>4. Closed(task[r].sub, task[r].period)'
    BY <2>1, <2>2, <2>3 DEF Closed, OfPeriod, IsDraft
  <2>5. RunnerSteady(task[r])'
    BY <1>o, <2>3, <2>4 DEF RunnerSteady
  <2>6. BatchSteady(batch[r], task[r])'
    BY <1>k, <2>1, <2>3
  <2> QED BY <2>5, <2>6
<1> QED
  BY <1>1, <1>2, <1>3, <1>4, <1>5, <1>6, <1>7, <1>8, <1>9 DEF Generate, Finalization, Advance

\* The transaction closes the draft that it holds at its total less the credit.
LEMMA SteadySettle ==
    ASSUME Steady, TypeInv, BillingInv, SteadyInv, NEW a \in Process, Settle(a)
    PROVE  /\ SteadyInv'
           /\ \A i \in DOMAIN rows : ~IsDraft(i) => rows'[i] = rows[i]
           /\ UNCHANGED subs
<1> DEFINE k == SettledRow(a)
           c == Used(a)
           d == Due(a)
           t == task[a]
<1>t. /\ TypeOK /\ Len(rows) \in Nat /\ DOMAIN rows = 1..Len(rows)
      /\ task \in [Process -> Task] /\ t.pc = "settle" /\ RowsOf(t, Len(rows))
      /\ t.total \in Int /\ t.sub \in Sub \cup {NoSub} /\ (t.row = 0 => t.total \in Nat)
  BY TaskShape DEF TypeInv, TypeOK, HeldRowsExist, RowsOf, Settle, At
<1>a. a \in Runner
  BY <1>t DEF Process, SteadyInv, SteadyHolds, HandlerSteady
<1>h. RunnerSteady(t) /\ RunnerHolds(t) /\ BatchSteady(batch[a], t)
  BY <1>a DEF SteadyInv, SteadyHolds, BillingInv, RowsHeld
<1>s. /\ c \in Nat /\ d \in Int /\ d = t.total - c
      /\ DOMAIN rows' = DOMAIN rows \cup {k}
      /\ k \in DOMAIN rows <=> t.row # 0
      /\ \A j \in DOMAIN rows : j # k => rows'[j] = rows[j] /\ ledger'[j] = ledger[j]
      /\ rows'[k].status = IF d = 0 THEN "paid" ELSE "finalized"
      /\ rows'[k].total = d
      /\ t.row # 0 => /\ k = t.row /\ rows'[k].sub = rows[k].sub
                      /\ rows'[k].period = rows[k].period /\ rows'[k].items = rows[k].items
                      /\ rows'[k].credit = rows[k].credit + c
                      /\ ledger'[k].receivable = ledger[k].receivable + (IF d <= 0 THEN 0 ELSE d)
      /\ t.row = 0 => /\ rows'[k].sub = t.sub /\ rows'[k].period = t.period
                      /\ rows'[k].items = t.total /\ rows'[k].credit = c
                      /\ ledger'[k].receivable = (IF d <= 0 THEN 0 ELSE d)
      /\ UNCHANGED <<batch, subs>>
  BY SettleEffect DEF SettledRow, Due, Settle
<1>g. /\ task'[a] = AfterSettle(a)
      /\ \A b \in Process : b # a => task'[b] = task[b]
  BY <1>t DEF Settle, Go
<1> HIDE DEF k, c, d
<1>1. t.row # 0 => IsDraft(k) /\ rows[k].total = t.total /\ k \in DOMAIN rows
  BY <1>h, <1>s, <1>t DEF RunnerSteady
<1>2. \A i \in DOMAIN rows : ~IsDraft(i) => rows'[i] = rows[i]
  BY <1>1, <1>s
<1>3. /\ rows'[k].total = d /\ rows'[k].total = rows'[k].items - rows'[k].credit
      /\ ledger'[k].receivable = IF d > 0 THEN d ELSE 0
      /\ rows'[k].status \in {"finalized", "paid"}
  <2>1. CASE t.row = 0
    BY <1>s, <2>1
  <2>2. CASE t.row # 0
    <3>1. /\ ledger[k].receivable = 0 /\ rows[k].total = rows[k].items - rows[k].credit
      BY <1>1, <2>2 DEF SteadyInv, DraftsUntouched, LedgerMatchesInvoice
    <3>2. rows[k].items \in Nat /\ rows[k].credit \in Nat
      BY <1>1, <1>t, <2>2, RowShape
    <3>3. t.total - c = rows[k].items - (rows[k].credit + c)
      BY <1>1, <1>s, <2>2, <3>1, <3>2
    <3> QED BY <1>s, <2>2, <3>1, <3>3
  <2> QED BY <2>1, <2>2
<1>4. DraftsUntouched' /\ LedgerMatchesInvoice'
  BY <1>3, <1>s DEF SteadyInv, DraftsUntouched, LedgerMatchesInvoice, IsDraft, IsBilled
<1>5. \A h \in Handler : HandlerSteady(task[h])'
  <2> SUFFICES ASSUME NEW h \in Handler PROVE HandlerSteady(task[h])'
    OBVIOUS
  <2>1. h # a /\ task'[h] = task[h] /\ HandlerSteady(task[h])
    <3>1. h \in Process /\ HandlerSteady(task[h])
      BY DEF Process, SteadyInv, SteadyHolds
    <3>2. h # a
      BY <1>t, <3>1 DEF HandlerSteady
    <3> QED BY <1>g, <3>1, <3>2
  <2>2. task[h].pc = "void" => rows'[task[h].row] = rows[task[h].row]
                               /\ task[h].row \in DOMAIN rows'
    BY <1>2, <1>s, <2>1 DEF HandlerSteady
  <2> QED BY <2>1, <2>2 DEF HandlerSteady, IsDraft
<1>6. RunnerSteady(task[a])'
  <2>1. CASE t.sub = NoSub
    BY <1>g, <2>1 DEF AfterSettle, Idle, RunnerSteady
  <2>2. CASE t.sub # NoSub
    <3>1. /\ task'[a].pc = "announce" /\ task'[a].sub = t.sub /\ task'[a].period = t.period
      BY <1>a, <1>g, <2>2 DEF AfterSettle, Announcing
    <3>2. t.period <= subs[t.sub].period /\ UNCHANGED subs
      BY <1>h, <1>s, <1>t, <2>2 DEF RunnerSteady
    <3>3. k \in DOMAIN rows' /\ rows'[k].sub = t.sub /\ rows'[k].period = t.period
      BY <1>h, <1>s, <1>t, <2>2 DEF RunnerHolds, OfPeriod
    <3>4. Closed(task[a].sub, task[a].period)'
      BY <1>3, <3>1, <3>3 DEF Closed, OfPeriod, IsDraft
    <3> QED BY <3>1, <3>2, <3>4 DEF RunnerSteady
  <2> QED BY <2>1, <2>2
<1>7. BatchSteady(batch[a], task[a])'
  <2>1. task'[a].pc \notin {"finalize", "settle"}
    BY <1>g DEF AfterSettle, Announcing, Idle
  <2>2. \A i \in DOMAIN rows : i # k => i \in DOMAIN rows' /\ rows'[i] = rows[i]
    BY <1>s
  <2>3. batch[a].loop = "pending" => \A due \in batch[a].items : due[1] # k
    BY <1>h, <1>s, <1>t DEF BatchSteady
  <2> QED BY <1>h, <1>s, <2>1, <2>2, <2>3 DEF BatchSteady, IsDraft
<1>8. \A s \in Sub : subs'[s].status \in {"none", "active", "past_due"}
  BY <1>s DEF SteadyInv, SteadyHolds
<1>9. \A r \in Runner : RunnerSteady(task[r])' /\ BatchSteady(batch[r], task[r])'
  BY <1>6, <1>7, <1>a DEF Steady, SingleRunner
<1> QED BY <1>2, <1>4, <1>5, <1>8, <1>9, <1>s DEF SteadyInv, SteadyHolds

\* The advance moves the subscription out of the period that was closed, and only
\* forward: what remains in the batch lags the more.
LEMMA SteadyAdvance ==
    ASSUME Steady, TypeInv, SteadyInv, NEW r \in Runner, AdvancePeriod(r)
    PROVE  /\ SteadyInv' /\ UNCHANGED rows
           /\ \A s \in Sub : subs'[s].period # subs[s].period => Closed(s, subs[s].period)
<1>r. r \in Process
  BY DEF Process
<1>t. TypeOK /\ task \in [Process -> Task]
      /\ subs \in [Sub -> [status : SubscriptionStatus, period : Nat, next : BOOLEAN]]
  BY DEF TypeInv, TypeOK
<1> DEFINE s == task[r].sub
           p == task[r].period + Month
<1>1. /\ task[r].pc = "advance" /\ UNCHANGED <<rows, ledger, batch>>
      /\ subs' = [subs EXCEPT ![s].period = p, ![s].next = TRUE]
      /\ Go(r, InPhaseOf(r, "seed", p))
  BY DEF AdvancePeriod, At, InPhaseOf
<1>2. s \in Sub /\ task[r].period \in Nat
  BY <1>1, <1>r, <1>t, TaskShape DEF Phases
<1>3. task[r].period = subs[s].period /\ Closed(s, task[r].period)
  BY <1>1 DEF SteadyInv, SteadyHolds, RunnerSteady
<1>4. p \in Nat /\ p > subs[s].period
  BY <1>2, <1>3 DEF Month
<1> HIDE DEF p
<1>5. /\ subs'[s].period = p /\ subs'[s].status = subs[s].status
      /\ \A x \in Sub : x # s => subs'[x] = subs[x]
  BY <1>1, <1>2, <1>t
<1>6. task'[r].pc = "seed" /\ \A a \in Process : a # r => task'[a] = task[a]
  BY <1>1, <1>r, <1>t, <1>4, PhaseShape, GoType DEF Phases
<1>7. \A x \in Sub : subs'[x].status \in {"none", "active", "past_due"}
  BY <1>5 DEF SteadyInv, SteadyHolds
<1>8. \A h \in Handler : HandlerSteady(task[h])'
  <2> SUFFICES ASSUME NEW h \in Handler PROVE HandlerSteady(task[h])'
    OBVIOUS
  <2>1. task'[h] = task[h] /\ HandlerSteady(task[h])
    BY <1>6, BillingAssumption DEF Process, SteadyInv, SteadyHolds
  <2> QED BY <1>1, <2>1 DEF HandlerSteady, IsDraft
<1>9. RunnerSteady(task[r])'
  BY <1>6 DEF RunnerSteady
<1>10. BatchSteady(batch[r], task[r])'
  <2>1. BatchSteady(batch[r], task[r]) /\ batch' = batch /\ rows' = rows
    BY <1>1 DEF SteadyInv, SteadyHolds
  <2>2. batch[r].loop = "due" => \A due \in batch[r].items :
          due[1] \in Sub /\ due[2] \in Nat /\ due[2] <= subs'[due[1]].period
    <3> SUFFICES ASSUME batch[r].loop = "due", NEW due \in batch[r].items
                 PROVE  due[1] \in Sub /\ due[2] \in Nat /\ due[2] <= subs'[due[1]].period
      OBVIOUS
    <3>1. due[1] \in Sub /\ due[2] \in Nat
      BY DEF TypeInv, TypeOK
    <3>2. due[2] <= subs[due[1]].period /\ subs[due[1]].period \in Nat
      BY <1>t, <2>1, <3>1 DEF BatchSteady
    <3>3. subs[due[1]].period <= subs'[due[1]].period /\ subs'[due[1]].period \in Nat
      BY <1>4, <1>5, <3>1, <3>2
    <3> QED BY <3>1, <3>2, <3>3
  <2> QED BY <1>6, <2>1, <2>2 DEF BatchSteady, IsDraft
<1>11. \A q \in Runner : RunnerSteady(task[q])' /\ BatchSteady(batch[q], task[q])'
  BY <1>9, <1>10 DEF Steady, SingleRunner
<1>12. DraftsUntouched' /\ LedgerMatchesInvoice'
  BY <1>1 DEF SteadyInv, DraftsUntouched, LedgerMatchesInvoice, IsDraft, IsBilled
<1>13. \A x \in Sub : subs'[x].period # subs[x].period => Closed(x, subs[x].period)
  BY <1>3, <1>5
<1> QED BY <1>1, <1>7, <1>8, <1>11, <1>12, <1>13 DEF SteadyInv, SteadyHolds

LEMMA SteadyInvInit == Init => SteadyInv
<1> SUFFICES ASSUME Init PROVE SteadyInv
  OBVIOUS
<1>1. SteadyHolds
  BY DEF Init, SteadyHolds, HandlerSteady, RunnerSteady, BatchSteady, Idle, NoBatch, Process
<1>2. CASE Enrolled = {}
  BY <1>1, <1>2 DEF Init, SteadyInv, DraftsUntouched, LedgerMatchesInvoice
<1>3. CASE Enrolled # {}
  <2>1. PICK s \in Enrolled, n \in Amount : rows = <<Draft(s, 0, n)>>
    BY <1>3 DEF Init
  <2>2. ledger = <<Unbooked>> /\ DOMAIN rows = {1} /\ rows[1] = Draft(s, 0, n)
    BY <1>3, <2>1 DEF Init
  <2>3. /\ rows[1].status = "draft" /\ rows[1].credit = 0 /\ rows[1].items = n
        /\ rows[1].total = n /\ ledger[1].receivable = 0 /\ n = n - 0
    BY <2>2, BillingAssumption DEF Unbooked, Draft
  <2> QED BY <1>1, <2>2, <2>3
          DEF SteadyInv, DraftsUntouched, LedgerMatchesInvoice, IsBilled
<1> QED BY <1>2, <1>3

\* What every step does under steady requests: the invariant, and left periods.
LEMMA SteadyStep ==
    ASSUME Steady, TypeInv, BillingInv, SteadyInv, [Next]_vars
    PROVE  /\ SteadyInv'
           /\ \A s \in Sub : subs'[s].period # subs[s].period => Closed(s, subs[s].period)
<1>p. Runner \subseteq Process /\ Handler \subseteq Process /\ Runner \cap Handler = {}
  BY BillingAssumption DEF Process
<1>t. /\ \A r \in Runner :
           /\ task[r].pc \in {"finalize", "settle"} => task[r].sub \in Sub \cup {NoSub}
           /\ task[r].pc \in Phases => task[r].sub \in Sub
           /\ batch[r].loop = "due" => \A due \in batch[r].items : due[1] \in Sub
      /\ task \in [Process -> Task]
  BY <1>p, TaskShape DEF TypeInv, TypeOK
\* Quiet steps: it is enough to look at the processes that moved.
<1>q. ASSUME QuietRows, SamePeriods,
             \A s \in Sub : subs'[s].status \in {"none", "active", "past_due"},
             \A h \in Handler : task'[h] = task[h] \/ HandlerSteady(task[h])',
             \A r \in Runner : \/ task'[r] = task[r] /\ batch'[r] = batch[r]
                               \/ RunnerSteady(task[r])' /\ BatchSteady(batch[r], task[r])'
      PROVE  /\ SteadyInv'
             /\ \A s \in Sub : subs'[s].period # subs[s].period => Closed(s, subs[s].period)
  <2>1. ASSUME NEW h \in Handler, task'[h] = task[h] PROVE HandlerSteady(task[h])'
    <3>1. PICK u : u = task[h]
      OBVIOUS
    <3>2. HandlerSteady(u)'
      BY <1>q, <3>1, KnowledgeKept DEF SteadyInv, SteadyHolds
    <3> QED BY <2>1, <3>1, <3>2 DEF HandlerSteady
  <2>2. ASSUME NEW r \in Runner, task'[r] = task[r], batch'[r] = batch[r]
        PROVE  RunnerSteady(task[r])' /\ BatchSteady(batch[r], task[r])'
    <3>1. PICK u, b : u = task[r] /\ b = batch[r]
      OBVIOUS
    <3>2. RunnerSteady(u) /\ BatchSteady(b, u)
      BY <3>1 DEF SteadyInv, SteadyHolds
    <3>3. RunnerSteady(u)'
      <4>1. CASE u.pc \in {"finalize", "settle"} \cup Phases
        <5>1. u.sub \in Sub \cup {NoSub} /\ (u.pc \in Phases => u.sub \in Sub)
          BY <1>t, <3>1, <4>1
        <5> QED BY <1>q, <3>2, <5>1, KnowledgeKept
      <4>2. CASE u.pc \notin {"finalize", "settle"} \cup Phases
        BY <4>2 DEF RunnerSteady, Phases
      <4> QED BY <4>1, <4>2
    <3>4. BatchSteady(b, u)'
      BY <1>q, <1>t, <3>1, <3>2, ItemsKept
    <3> QED BY <2>2, <3>1, <3>3, <3>4 DEF RunnerSteady, BatchSteady
  <2>3. SteadyHolds'
    BY <1>q, <2>1, <2>2 DEF SteadyHolds
  <2> QED BY <1>q, <2>3 DEF SteadyInv, QuietRows, SamePeriods
<1>0. ASSUME NEW a \in Process, Settle(a)
      PROVE  SteadyInv' /\ UNCHANGED subs
  BY <1>0, SteadySettle
<1>1. ASSUME NEW r \in Runner, AdvancePeriod(r)
      PROVE  /\ SteadyInv' /\ UNCHANGED rows
             /\ \A s \in Sub : subs'[s].period # subs[s].period => Closed(s, subs[s].period)
  BY <1>1, SteadyAdvance
<1>2. ASSUME NEW r \in Runner, StartGeneration(r) \/ Generate(r) \/ Crash(r), ~Settle(r),
             ~AdvancePeriod(r)
      PROVE  /\ SteadyInv'
             /\ \A s \in Sub : subs'[s].period # subs[s].period => Closed(s, subs[s].period)
  <2>1. /\ QuietRows /\ UNCHANGED subs
        /\ RunnerSteady(task[r])' /\ BatchSteady(batch[r], task[r])'
        /\ \A a \in Process : a # r => task'[a] = task[a]
    BY <1>2, SteadyRunners
  <2>2. SamePeriods /\ \A s \in Sub : subs'[s].status \in {"none", "active", "past_due"}
    BY <2>1 DEF SamePeriods, SteadyInv, SteadyHolds
  <2>3. \A h \in Handler : task'[h] = task[h]
    BY <1>p, <2>1
  <2>4. \A s \in Runner : RunnerSteady(task[s])' /\ BatchSteady(batch[s], task[s])'
    BY <2>1 DEF Steady, SingleRunner
  <2> QED BY <1>q, <2>1, <2>2, <2>3, <2>4
<1>3. ASSUME NEW h \in Handler, Handle(h)
      PROVE  /\ SteadyInv'
             /\ \A s \in Sub : subs'[s].period # subs[s].period => Closed(s, subs[s].period)
  <2>1. /\ QuietRows /\ SamePeriods /\ UNCHANGED batch
        /\ \A s \in Sub : subs'[s].status \in {"none", "active", "past_due"}
        /\ HandlerSteady(task[h])'
        /\ \A a \in Process : a # h => task'[a] = task[a]
    BY <1>3, SteadyHandlers DEF Steady
  <2>2. \A g \in Handler : task'[g] = task[g] \/ HandlerSteady(task[g])'
    BY <1>p, <2>1
  <2>3. \A r \in Runner : task'[r] = task[r] /\ batch'[r] = batch[r]
    BY <1>p, <2>1
  <2> QED BY <1>q, <2>1, <2>2, <2>3
<1>4. ASSUME UNCHANGED <<subs, rows, ledger, batch>>,
             \A a \in Process : task'[a] = task[a] \/ task'[a] = Idle
      PROVE  /\ SteadyInv'
             /\ \A s \in Sub : subs'[s].period # subs[s].period => Closed(s, subs[s].period)
  <2>1. QuietRows /\ SamePeriods
        /\ \A s \in Sub : subs'[s].status \in {"none", "active", "past_due"}
    BY <1>4, QuietIfUnchanged DEF SamePeriods, SteadyInv, SteadyHolds
  <2>2. \A h \in Handler : task'[h] = task[h] \/ HandlerSteady(task[h])'
    BY <1>4, <1>p DEF HandlerSteady, Idle
  <2>3. ASSUME NEW r \in Runner, task'[r] = Idle
        PROVE  RunnerSteady(task[r])' /\ BatchSteady(batch[r], task[r])'
    <3>1. RunnerSteady(task[r])'
      BY <2>3 DEF RunnerSteady, Idle
    <3>2. BatchSteady(batch[r], task[r])
      BY DEF SteadyInv, SteadyHolds
    <3> QED BY <1>4, <2>3, <3>1, <3>2 DEF BatchSteady, Idle, IsDraft
  <2> QED BY <1>4, <1>p, <1>q, <2>1, <2>2, <2>3
<1>5. ASSUME NEW a \in Process, Throws(a)
      PROVE  UNCHANGED <<subs, rows, ledger, batch>>
             /\ \A b \in Process : task'[b] = task[b] \/ task'[b] = Idle
  BY <1>5, <1>t DEF Throws, Go
<1>6. ASSUME NEW i \in DOMAIN rows, Pay(i)
      PROVE  /\ SteadyInv'
             /\ \A s \in Sub : subs'[s].period # subs[s].period => Closed(s, subs[s].period)
  <2>1. /\ rows[i].status = "finalized" /\ rows' = [rows EXCEPT ![i].status = "paid"]
        /\ ledger' = ledger /\ UNCHANGED <<subs, batch, task>>
    BY <1>6 DEF Pay
  <2>2. QuietRows
    BY <2>1, ClosingIsQuiet
  <2>3. SamePeriods /\ \A s \in Sub : subs'[s].status \in {"none", "active", "past_due"}
    BY <2>1 DEF SamePeriods, SteadyInv, SteadyHolds
  <2> QED BY <1>q, <2>1, <2>2, <2>3
<1>7. CASE UNCHANGED vars
  BY <1>4, <1>7 DEF vars
<1>8. ASSUME NEW r \in Runner, StartGeneration(r) \/ Generate(r) \/ Crash(r)
      PROVE  /\ SteadyInv'
             /\ \A s \in Sub : subs'[s].period # subs[s].period => Closed(s, subs[s].period)
  BY <1>0, <1>1, <1>2, <1>8, <1>p
<1> QED BY <1>3, <1>4, <1>5, <1>6, <1>7, <1>8 DEF Next

LEMMA SteadyInvariant ==
    ASSUME Steady
    PROVE  Spec => [](TypeInv /\ BillingInv /\ SteadyInv)
<1>1. SingleRunner
  BY DEF Steady
<1>2. TypeInv /\ BillingInv /\ SteadyInv /\ [Next]_vars => SteadyInv'
  BY SteadyStep
<1>3. TypeInv /\ BillingInv /\ [Next]_vars => TypeInv' /\ BillingInv'
  BY <1>1, TypeInvStep, BillingInvStep
<1> QED BY <1>2, <1>3, TypeInvInit, BillingInvInit, SteadyInvInit, PTL DEF Spec

\* While no request touches a draft, one runner keeps every invoice at its lines
\* less those of credit, and the receivables at what invoices ask for, whether a
\* draft was computed anew or copied, credit and all, from the invoice before.
THEOREM LedgerAgrees ==
    ASSUME Steady
    PROVE  Spec => []LedgerMatchesInvoice
BY SteadyInvariant, PTL DEF SteadyInv

\* And a subscription leaves a period only with an invoice of it closed, however
\* late the batch that says so, and wherever the runner crashes in between.
THEOREM PeriodsLeftClosed ==
    ASSUME Steady
    PROVE  Spec => NoPeriodSkipped
<1>1. TypeInv /\ BillingInv /\ SteadyInv /\ [Next]_vars =>
        [\A s \in Sub :
           subs'[s].period # subs[s].period
             => \E i \in OfPeriod(s, subs[s].period) : ~IsDraft(i)]_vars
  BY SteadyStep DEF Closed
<1> QED BY <1>1, SteadyInvariant, PTL DEF Spec, NoPeriodSkipped
=============================================================================
