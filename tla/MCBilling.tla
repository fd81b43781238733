----------------------------- MODULE MCBilling -----------------------------
(* BillingCycle on small instances; the model values come from the cfgs. *)
EXTENDS BillingCycle

\* All that changes a subscription, its drafts and the balance.
MixedRequests == {"paused", "active", "subscribe", "payroll", "credit", "invoice_now"}

\* What does not touch a draft that the scheduler may hold.
SteadyRequests == {"credit", "invoice_later", "void", "past_due", "active"}
============================================================================
