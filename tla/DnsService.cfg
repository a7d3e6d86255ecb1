CONSTANTS
  Hosts = {a, b, c}
  NoHost = NoHost
  V6Only = {c}
  Flaky = {b}
  Retries = {0, 2}
  Width = 8
  MaxIndex = 4
SPECIFICATION DnsSpec
\* The process may end.
CHECK_DEADLOCK FALSE
INVARIANTS
  LookupsAreRight
PROPERTIES
  StopReturns
  AddedIsResolved
