SPECIFICATION SyncSpec
CONSTANTS
  ann = ann  eve = eve  logAnn = logAnn  logEve = logEve
  grp = grp  crm = crm  wiki = wiki  r1 = r1  r2 = r2
  NoOne = NoOne
  People = {ann, eve}
  Corporate = {ann, eve}
  Logins = {logAnn, logEve}
  Squash <- SameSquash
  Groups = {grp}
  GroupsFor <- OneGroup
  LocalPart <- LocalParts
  Explicit <- LoginOfEve
  Providers = {crm}
  Adders = {}
  Removers = {crm}
  Deactivating = {}
  Policies <- LiveOrDry
  MaxGrace = 1
  Runners = {r1}
  Daemons = {}
  Faults = {}
  Down = {}
  SlowRuns = FALSE
  Members0 <- OnlyEveMember
  Seats0 <- LoginSeat
  Leavers = {eve}
  Moves <- NoPairs
  Grants <- NoPairs
  LowerCased = {ann, eve}
  Holder <- Holders
PROPERTY GraceAfterReturn
