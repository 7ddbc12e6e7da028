SPECIFICATION Spec
CONSTANTS
  Rates = {r44, r48}
  DefaultRate = r44
  DfuStop = dfuStop
  Alts <- MCAlts
  DsdAlts <- MCDsdAlts
  LowPower = TRUE
  BootDfu = FALSE
  BusEvents = {"suspend", "reset"}
INVARIANTS TypeOK NoProtocolTrap CommandNotOverwritten RateApplied DfuOnlyWhenStopped FormatApplied PowerFollowsStreams
PROPERTIES RequestsAnswered
