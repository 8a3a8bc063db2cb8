SPECIFICATION CacheSpec
CONSTANTS
  ann = ann  key = key  p1 = p1  s1 = s1  s2 = s2  a1 = a1  v1 = v1
  Accounts = {ann}
  Keys = {key}
  Passes = {p1}
  Scans = {s1}
  Audits = {a1}
  Viewers = {v1}
  PassFails = TRUE
  MaxCommands = 2
INVARIANTS InactiveComputed
CHECK_DEADLOCK FALSE
