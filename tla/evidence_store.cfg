SPECIFICATION Spec
CONSTANTS
  a = a
  b = b
  f = f
  Live = {a, b}
  Fixtures = {f}
  None = None
  LastWeek = 2
  Covers <- MCCovers
  InspectFirst = {"evidence", "state"}
  LoadFirst = {"report"}
  Strict = {"evidence", "report"}
INVARIANTS TypeOK RecordedIsReadable QuietReadersAreGated
PROPERTIES ImplementsIngestionLedger StoreConverges
CHECK_DEADLOCK FALSE
