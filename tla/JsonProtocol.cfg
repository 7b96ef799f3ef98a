SPECIFICATION Spec
CONSTANTS
  Tokens <- AllTokens
  Sdps <- MCSdps
  Candidates <- MCCandidates
  Mids <- MCMids
  Indexes <- MCIndexes
  Orders <- KnownOrders
INVARIANTS RoundTrip ServerUnderstood
