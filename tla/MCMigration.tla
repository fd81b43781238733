----------------------------- MODULE MCMigration ------------------------------
EXTENDS Migration, TLC
Payroll(id, status, amount) ==
  [kind |-> "payroll", id |-> id, status |-> status, exact |-> TRUE, failure |-> FALSE,
   deleted |-> FALSE, valid |-> TRUE, amount |-> amount, items |-> amount, bare |-> FALSE]
Charge(id, status, amount) == [Payroll(id, status, amount) EXCEPT !.kind = "charge"]
Deleted(row) == [row EXCEPT !.deleted = TRUE]
Plain == [payrolls |-> <<Payroll(1, "upcoming", 1)>>, charges |-> <<>>,
          credit |-> "some", surcharge |-> "some",
          rate |-> TRUE, subscribed |-> TRUE, cheque |-> FALSE, methods |-> TRUE]
MCSource == {
  Plain,
  [Plain EXCEPT !.payrolls = <<Payroll(1, "pending", 2)>>, !.charges = <<Charge(1, "paid", 1)>>,
                !.credit = "none", !.surcharge = "none"],
  [Plain EXCEPT !.payrolls = <<[Payroll(1, "failed", -1) EXCEPT !.bare = TRUE]>>,
                !.surcharge = "none", !.subscribed = FALSE],
  [Plain EXCEPT !.payrolls = <<Deleted(Payroll(1, "paid", 1))>>,
                !.charges = <<[Charge(1, "voided", 1) EXCEPT !.items = 3]>>, !.credit = "none"],
  [Plain EXCEPT !.payrolls = <<[Payroll(1, "upcoming", 1) EXCEPT !.failure = TRUE]>>,
                !.charges = <<[Deleted(Charge(1, "paid", -2)) EXCEPT !.exact = FALSE]>>,
                !.credit = "none", !.surcharge = "none"],
  [Plain EXCEPT !.payrolls = <<[Payroll(1, "unpaid", 1) EXCEPT !.valid = FALSE]>>,
                !.surcharge = "bad", !.rate = FALSE],
  [Plain EXCEPT !.payrolls = <<Payroll(1, "unknown", 1)>>, !.methods = FALSE,
                !.charges = <<Charge(1, "failed", 0)>>, !.credit = "none", !.surcharge = "none"],
  [Plain EXCEPT !.payrolls = <<>>, !.credit = "bad"],
  [Plain EXCEPT !.cheque = TRUE] }
Alike == Permutations(Migrator) \cup Permutations(Remover)
MCOneSource == {Plain}
MCCreditSource == {[Plain EXCEPT !.payrolls = <<>>]}
MCSpeltSource == {[Plain EXCEPT !.charges = <<[Charge(1, "paid", 1) EXCEPT !.exact = FALSE]>>,
                                !.credit = "none"]}
=============================================================================
