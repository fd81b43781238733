------------------------------- MODULE MCAccount ------------------------------
EXTENDS Account
CONSTANTS card, bank
Of(type, value) == [type |-> type, value |-> value]
MCMethod == {card, bank}
MCBank == {bank}
MCMessage == {Of("customer.created", 0), Of("customer.updated", 1),
  Of("surcharge-config.updated", TRUE), Of("mandate.updated", bank),
  Of("mandate.updated", Nothing), Of("invoice.create", 0)}
MCFew == {Of("customer.created", 0), Of("surcharge-config.updated", TRUE)}
=============================================================================
