\* Two browsers and the machine API edit a text; requests fail and fonts are slow.
SPECIFICATION LiveSpec
CONSTANTS
  Browsers = {b1, b2}
  Shapes = {s1}
  Slow = {2}
  Pages = {p1, p2}
  PageOf <- MCPageOf
  FirstPage = p1
  MaxReport = 1
  MaxContent = 2
  MaxFailures = 1
  MaxSwitches = 2
  Spent <- MCSpent
INVARIANTS
  WrongSizesAreTemporary
PROPERTIES
  TrustedStays
  EventuallyMeasured
CHECK_DEADLOCK FALSE
