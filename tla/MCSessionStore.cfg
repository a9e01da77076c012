CONSTANTS
  MaxMsgs = 3
  MaxReqs = 3
  Tokens = {t1, t2}
  NoToken = NoToken
SYMMETRY Symmetry
SPECIFICATION SessionSpec
INVARIANTS
  ClaimsAreOwned
  TranscriptOrder
  OneDecisionPerQuestion
  HoldsBlockTheQueue
  HoldsOwnTheirQuestion
PROPERTIES
  RowsKeepTheirHistory
