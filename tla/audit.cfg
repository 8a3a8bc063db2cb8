CONSTANTS
  ann = ann  eve = eve  priv = priv
  logAnn = logAnn  sepAnn = sepAnn  logEve = logEve  bot = bot
  appA = appA  appE = appE  r1 = r1  r2 = r2  fa = fa  fe = fe
  NoOne = NoOne  Nobody = Nobody  NoForm = NoForm
  People = {ann, eve, priv}
  Corporate = {ann, eve}
  Logins = {logAnn, sepAnn, logEve, bot}
  LocalPart <- LocalParts
  Squash <- Squashes
  Explicit <- LoginOfEve
  Accounts = {sepAnn, logEve, bot}
  Saml <- SamlNames
  Public <- Shown
  Slots = 2
  Apps = {appA, appE}
  Installer <- Installers
  Repos = {r1, r2}
  Off <- AppAndHookOff
  Directories <- EveLeaves
  Mapped = {ann}
  Forms = {fa, fe}
  FormsOf <- HandleForms
  ProfileName <- Names
SPECIFICATION AuditSpec
INVARIANTS IdleIsProven WarnedOrWhole AuthorAndSeatAgree NobodyGuessed OneOwner
CHECK_DEADLOCK FALSE
