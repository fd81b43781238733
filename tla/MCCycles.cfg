SPECIFICATION Spec
CONSTANTS
  AdvanceDays = {28, 29, 30, 31}
  Customers <- MCCustomers
  Employees <- MCEmployees
  Today <- MCToday
  Given <- MCGiven
  Nothing = Nothing  MaxCharges = 5  MaxDrafts = 2
INVARIANTS ChargedMonthly DueWithPeriod BenefitsRunTheirMonths
CHECK_DEADLOCK FALSE
