SPECIFICATION Spec
CONSTANTS
  Compression = "delayed"
  SeqMod = 16
  MaxSeq = 8
  Gex = FALSE
  StrictKex = TRUE
  MaxDeferredOut = 8
  MaxDeferredIn = 8
  TimeLimit = {}
  MaxKex = 1
  MaxSent = 4
  MaxPings = 0
  Disconnects = FALSE
  UserRekeys = FALSE
INVARIANT DelayedCompressionInStep
CHECK_DEADLOCK FALSE
