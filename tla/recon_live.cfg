SPECIFICATION FairSpec
CONSTANTS
  ann = ann  eve = eve  logAnn = logAnn  logEve = logEve
  grp = grp  staff = staff  crm = crm  wiki = wiki  r1 = r1  r2 = r2
  NoOne = NoOne
  People = {ann, eve}
  Corporate = {ann, eve}
  Logins = {logAnn, logEve}
  Squash <- SameSquash
  Groups = {grp}
  GroupsFor <- OneGroup
  LocalPart <- LocalParts
  Explicit <- LoginOfEve
  Providers = {crm, wiki}
  Adders = {crm, wiki}
  Removers = {crm, wiki}
  Deactivating = {}
  Policies <- LiveOnly
  MaxGrace = 2
  Runners = {r1}
  Faults = {"remove", "readPending", "cancel", "close"}
  Down = {wiki}
  SlowRuns = TRUE
  Members0 <- BothMembers
  Seats0 <- LoginSeat
  Leavers = {eve}
  Moves <- EveMoves
  Grants <- NoGrants
  LowerCased = {ann, eve}
  Holder <- Holders
PROPERTIES ClosedMeansGone Reclaimed Provisioned
