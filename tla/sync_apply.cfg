SPECIFICATION SyncSpec
CONSTANTS
  ann = ann  eve = eve  logAnn = logAnn  logEve = logEve
  grp = grp  crm = crm  wiki = wiki  r1 = r1  r2 = r2
  NoOne = NoOne
  People = {ann, eve}
  Corporate = {ann, eve}
  Logins = {logAnn, logEve}
  Squash <- SameSquash
  Groups = {grp}
  GroupsFor <- OneGroup
  LocalPart <- LocalParts
  Explicit <- LoginOfEve
  Providers = {crm}
  Adders = {}
  Removers = {crm}
  Deactivating = {}
  Policies <- Excepting
  MaxGrace = 1
  Runners = {r1, r2}
  Daemons = {r1}
  Faults = {"directory"}
  Down = {}
  SlowRuns = FALSE
  Members0 <- BothMembers
  Seats0 <- LoginSeat
  Leavers = {eve}
  Moves <- NoPairs
  Grants <- NoPairs
  LowerCased = {ann, eve}
  Holder <- Holders
PROPERTIES OnlyTheDeparted ExceptionsKept NothingUnasked
