SPECIFICATION Spec
CONSTANTS
  ann = ann  eve = eve  logAnn = logAnn  logEve = logEve
  grp = grp  staff = staff  crm = crm  wiki = wiki  r1 = r1  r2 = r2
  NoOne = NoOne
  People = {ann, eve}
  Corporate = {ann, eve}
  Logins = {logAnn, logEve}
  Squash <- SameSquash
  Groups = {grp}
  GroupsFor <- OneGroup
  LocalPart <- LocalParts
  Explicit <- LoginOfEve
  Providers = {crm}
  Adders = {}
  Removers = {crm}
  Deactivating = {}
  Policies <- Varied
  MaxGrace = 2
  Runners = {r1}
  Faults = {"aliasGroup", "directory", "list", "group", "insertPending", "readExpired", "add"}
  Down = {}
  SlowRuns = TRUE
  Members0 <- BothMembers
  Seats0 <- LoginSeat
  Leavers = {eve}
  Moves <- EveMoves
  Grants <- LoginGrant
  LowerCased = {ann, eve}
  Holder <- Holders
INVARIANTS TypeOK NeverReset
PROPERTIES OnlyTheDeparted ExceptionsKept DryRunHarmless FullGrace
