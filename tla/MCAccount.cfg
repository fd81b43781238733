SPECIFICATION Spec
CONSTANTS
  card = card  bank = bank
  Method <- MCMethod  Bank <- MCBank  Message <- MCMessage
  Request = {r1}  Consumer = {c1}  Nothing = nothing
  RequestsFail = FALSE  MaxMessages = 3  MaxCustomers = 2  MaxInvoices = 1
INVARIANTS TypeOK OneActiveDefault GatewayFollowsDefault NamesAgreeWhenQuiet
CHECK_DEADLOCK FALSE
