SPECIFICATION SuiteSpec
CONSTANTS
  Compression = "zlib"
  SeqMod = 8
  MaxSeq = 3
  Gex = FALSE
  StrictKex = TRUE
  MaxDeferredOut = 8
  MaxDeferredIn = 8
  TimeLimit = {"postauth"}
  MaxKex = 3
  MaxSent = 4
  MaxPings = 1
  Disconnects = FALSE
  UserRekeys = TRUE
INVARIANTS TypeOK NoProtocolError QuietDuringKex NewKeysAfterNewkeys
PROPERTIES PaidFor DeliversInOrder KeysKeepMeaning
CHECK_DEADLOCK FALSE
