--------------------------- MODULE Reconciliation ---------------------------
(* Daily reconciliation (reconciliation.service.ts) next to the one-time     *)
(* charges and refunds whose money it compares.  A run looks for a completed *)
(* report of its period, lists the gateway's settlements, then reads the     *)
(* payments in the ledger and stores the report.  Periods are days; a        *)
(* message may name any day that has begun, and is delivered again when its  *)
(* handler dies.                                                             *)
EXTENDS Refunds

CONSTANTS
  Card,       \* keys paid by card; the others are bank debits
  Reconciler, \* handlers of daily-reconciliation messages
  MaxReports, \* bound on the reports stored
  MaxBusy     \* bound on the requests and handlers under way at once

ASSUME ReconciliationAssumption ==
  Card \subseteq Key /\ MaxReports \in Nat /\ MaxBusy \in Nat

\* A payment has two names at the gateway: that of its intent, which the charge
\* row keeps, and that of the charge made for it, the source of its settlement.
IntentId(k) == <<"pi", k>>
SourceId(k) == IF k \in Card THEN <<"ch", k>> ELSE <<"py", k>>

VARIABLES
  reports, \* reconciliation runs with their discrepancies, in order
  compare  \* control state of each handler

vars == <<oneTimeVars, refundVars, reports, compare>>

Resting == [pc |-> "idle", day |-> 0, over |-> FALSE, listed |-> {}]
Source == ({"ch", "py"} \X Key) \cup ({"re"} \X RefundKey)
Gap == [type: {"missing_stripe", "missing_internal"}, id: ({"pi"} \X Key) \cup Source]
BalanceTransaction == [type: {"charge", "payment", "refund"}, source: Source]

ReconciliationTypeOK ==
  /\ reports \in Seq([day: 0..LastDay, over: BOOLEAN, gaps: SUBSET Gap,
                      status: {"balanced", "discrepancy_found", "failed"},
                      internal: Nat, stripe: Nat])
  /\ compare \in [Reconciler ->
       [pc: {"idle", "list", "store"}, day: 0..LastDay, over: BOOLEAN,
        listed: SUBSET BalanceTransaction]]

ReconciliationInit ==
  /\ reports = <<>>
  /\ compare = [h \in Reconciler |-> Resting]

\* A report that failed does not stand in the way of another.
Completed(day) ==
  \E i \in DOMAIN reports : reports[i].day = day /\ reports[i].status # "failed"

\* The default period is yesterday; a message may name today as well.
StartReconciliation(h, day) ==
  /\ compare[h].pc = "idle"
  /\ Len(reports) < MaxReports
  /\ ~Completed(day)
  /\ compare' = [compare EXCEPT ![h] =
                   [pc |-> "list", day |-> day, over |-> day < today, listed |-> {}]]
  /\ UNCHANGED reports

\* What the gateway took on a day.
Captured(day) == {k \in Key : intent[k].phase = "captured" /\ intent[k].day = day}

\* What the gateway lists for a day: card captures and bank debits by their
\* charges, and refunds among the rest.
Settlements(day) ==
  {[type |-> IF k \in Card THEN "charge" ELSE "payment", source |-> SourceId(k)] :
     k \in Captured(day)}
  \cup {[type |-> "refund", source |-> <<"re", r>>] :
           r \in {r \in RefundKey : outcome[r] = "succeeded" /\ refund[r].of \in Captured(day)}}

\* Mutant: the listing is not filtered by its type.
EverySettlement(day) == Settlements(day)

\* Only type charge is compared: cards, no bank debits.
StripeSettlements(day) == {t \in Settlements(day) : t.type = "charge"}

ListSettlements(h) ==
  /\ compare[h].pc = "list"
  /\ compare' = [compare EXCEPT ![h].pc = "store",
                   ![h].listed = StripeSettlements(compare[h].day)]
  /\ UNCHANGED reports

\* The listing throws: a failed report, and the message counts as handled.
StoreFailedRun(h) ==
  /\ compare[h].pc = "list"
  /\ Len(reports) < MaxReports
  /\ reports' = Append(reports,
       [day |-> compare[h].day, over |-> compare[h].over, status |-> "failed",
        gaps |-> {}, internal |-> 0, stripe |-> 0])
  /\ compare' = [compare EXCEPT ![h] = Resting]

\* Positions of the day's payments whose charge names its intent.
InternalPayments(day) ==
  {p \in DOMAIN payments : payments[p].day = day /\ charge[payments[p].key].known}

\* Payments by their intents against settlements by their sources.  Duplicates
\* collapse here, the totals keep them.
Gaps(internal, stripe) ==
  {[type |-> "missing_stripe", id |-> id] : id \in internal \ stripe}
  \cup {[type |-> "missing_internal", id |-> id] : id \in stripe \ internal}

CompareRecords(day, over, listed) ==
  LET internal == InternalPayments(day)
      gaps == Gaps({IntentId(payments[p].key) : p \in internal}, {t.source : t \in listed})
  IN [day |-> day, over |-> over, gaps |-> gaps,
      status |-> IF gaps = {} THEN "balanced" ELSE "discrepancy_found",
      internal |-> Price * Cardinality(internal),
      stripe |-> Price * Cardinality(listed)]

\* Reads the ledger and stores the report with its discrepancies at once.
StoreResult(h) ==
  /\ compare[h].pc = "store"
  /\ Len(reports) < MaxReports
  /\ reports' = Append(reports,
       CompareRecords(compare[h].day, compare[h].over, compare[h].listed))
  /\ compare' = [compare EXCEPT ![h] = Resting]

ReconcileCrash(h) ==
  /\ compare[h].pc # "idle"
  /\ compare' = [compare EXCEPT ![h] = Resting]
  /\ UNCHANGED reports

ReconcileStep(h) ==
  \/ \E day \in 0..today : StartReconciliation(h, day)
  \/ ListSettlements(h) \/ StoreFailedRun(h) \/ StoreResult(h) \/ ReconcileCrash(h)

Init == OneTimeInit /\ RefundInit /\ ReconciliationInit

\* Whoever is under way.
Busy == {c \in Caller : call[c].pc # "idle"} \cup {c \in Refunder : asking[c].pc # "idle"}
        \cup {h \in Reconciler : compare[h].pc # "idle"}

Next ==
  /\ \/ OneTimeNext /\ UNCHANGED <<refundVars, reports, compare>>
     \/ ((\E c \in Refunder : RefundStep(c)) \/ (\E r \in RefundKey : RefundDecided(r)))
        /\ UNCHANGED <<oneTimeVars, reports, compare>>
     \/ (\E h \in Reconciler : ReconcileStep(h)) /\ UNCHANGED <<oneTimeVars, refundVars>>
  /\ Cardinality(Busy') <= MaxBusy

Spec == Init /\ [][Next]_vars

TypeOK == OneTimeTypeOK /\ RefundTypeOK /\ ReconciliationTypeOK

-----------------------------------------------------------------------------
(* Properties *)

Booked(day) == {k \in Key : \E p \in DOMAIN payments : payments[p] = [key |-> k, day |-> day]}

Of(report, type) == {g.id : g \in {g \in report.gaps : g.type = type}}

\* What a report says of a day that was over stays true for good, whenever the
\* handler ran: it lists every booking of the day by its intent and every card
\* the gateway captured that day by its charge, none of them paired, and those
\* two lists account for its totals.
ReportsStayTrue ==
  \A i \in DOMAIN reports :
    LET r == reports[i] IN
    r.over /\ r.status # "failed" =>
      /\ Of(r, "missing_stripe") = {IntentId(k) : k \in Booked(r.day)}
      /\ Of(r, "missing_internal") = {SourceId(k) : k \in Captured(r.day) \cap Card}
      /\ r.internal = Price * Cardinality(Of(r, "missing_stripe"))
      /\ r.stripe = Price * Cardinality(Of(r, "missing_internal"))

\* "Build maps keyed by PaymentIntent ID": a day on which the books and the
\* gateway agree is reported balanced.
AgreementIsBalanced ==
  \A i \in DOMAIN reports :
    LET r == reports[i] IN
    r.over /\ r.status # "failed" /\ Booked(r.day) = Captured(r.day) => r.status = "balanced"
=============================================================================
