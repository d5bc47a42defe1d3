SPECIFICATION IrqFairSpec
CONSTANTS Lines = {0, 1, 3, 12, 15}
 Withdrawn = {3, 12} Drivers = {2, 3, 7, 12} Exceptions = {0, 6}
INVARIANTS DispatchSound LinesExpected
PROPERTY KeyboardServed
