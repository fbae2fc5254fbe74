SPECIFICATION Spec
CONSTANTS
  Callers = {c1}
  Scopes = {s1, s2}
  Amounts = {1, 3, 14}
  Requests = {2, 6, 9}
  DefaultCap = 6
  CapFloor = 1
  RequestFloor = 2
  CapCeiling = 7
  HostUsable = 5
  RssFloor = 1
  Word = 16
  Unlimited = 20
  Privileged = TRUE
  NoScope = NoScope
PROPERTY BudgetOnlyTightens
