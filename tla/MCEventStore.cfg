SPECIFICATION ReaderSpec
CONSTANTS
  w1 = w1
  w2 = w2
  lead = lead
  sim = sim
  other = other
  turn = turn
  optOut = optOut
  Writers = {w1, w2}
  Leads = {lead}
  Types = {sim, other}
  Kinds = {turn, optOut}
  Protected = {optOut}
  Times = {0, 1}
  MaxVersion = 3
  Requests <- MCRequests
  NoType = NoType
  AnyVersion = AnyVersion
  ConversationType = sim
  Limit = 2
  LoadAttempts = 2
SYMMETRY WriterSymmetry
INVARIANTS VersionsAccounted LoadsWhole
PROPERTIES AppendAtomic ImplementsLedger
