SPECIFICATION Spec
CONSTANTS
  ann = ann  eve = eve  logAnn = logAnn  logEve = logEve
  grp = grp  staff = staff  crm = crm  wiki = wiki  r1 = r1  r2 = r2
  NoOne = NoOne
  People = {ann, eve}
  Corporate = {ann, eve}
  Logins = {logAnn, logEve}
  Squash <- SameSquash
  Groups = {grp, staff}
  GroupsFor <- GroupPerProvider
  LocalPart <- SharedLocalPart
  Explicit <- NoAliases
  Providers = {crm, wiki}
  Adders = {wiki}
  Removers = {crm, wiki}
  Deactivating = {wiki}
  Policies <- ImmediateOrExcepted
  MaxGrace = 1
  Runners = {r1}
  Faults = {"crash", "remove", "close", "add", "list"}
  Down = {}
  SlowRuns = TRUE
  Members0 <- AnnInStaff
  Seats0 <- SeatsAndLogin
  Leavers = {eve}
  Moves <- NoMoves
  Grants <- NoGrants
  LowerCased = {ann, eve}
  Holder <- HoldersOfShared
PROPERTIES OnlyTheDeparted EmployeesKept ExceptionsKept
