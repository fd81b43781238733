------------------------------ MODULE MCCycles -------------------------------
EXTENDS Cycles
Month(year, month) == 12 * year + month - 1
On(year, month, day) == [month |-> Month(year, month), day |-> day]
\* Two turns of the year, with a February of 28 days and one of 29.
MCCustomers == [chargeDay: {10, 30, 31}, prepaid: BOOLEAN]
MCEmployees ==
  {[discounted |-> On(2023, 1, 31), months |-> 1, bonuses |-> {Month(2023, 2)}],
   [discounted |-> On(2024, 1, 10), months |-> 2, bonuses |-> {Month(2023, 12), Month(2024, 2)}]}
MCToday == {On(2022, 11, 30), On(2023, 2, 28), On(2024, 5, 1)}
MCGiven == {On(2022, 10, 31), On(2023, 11, 30)}
=============================================================================
