\* Two changes of roles; three fetches of users; two recoveries.  An error
\* takes the place of a whole screen, and with it of whatever could load again.
CONSTANTS
  Change = {x1, x2}
  Load = {l1, l2}
  MaxVersion = 3
  Page = {1, 2, 3}
  Limit = {10, 25}
  Initial = 10
  Fetch = {f1, f2, f3}
  Handler = {h1}
  Attempt = {a1, a2}
  MaxBegun = 4
  None = None
SPECIFICATION SpecDashboard
INVARIANTS
  ListCatchesUp
  PageAndDataAgree
  RecoveryIsToldAndBounded
SYMMETRY Symmetry
CHECK_DEADLOCK FALSE
