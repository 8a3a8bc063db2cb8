SPECIFICATION Spec
CONSTANTS
  seat = seat  key = key
  suspended = suspended  gone = gone  unsupported = unsupported
  ann = ann  bob = bob
  Nothing = Nothing
  Ids = {seat, key}
  Attestable = {key}
  Recs = {suspended, gone, unsupported}
  Unsupported = {unsupported}
  Humans = {ann, bob}
INVARIANTS TypeOK Attributed Current
PROPERTIES Audited ExecutedOnConsent KeepsPromise
