SPECIFICATION SuiteSpec
CONSTANTS
  IdMod = 2
  Window = 4
  MaxPacket = 14
  MaxChannels = 1
  MaxOpens = 1
  ClientBytes = 1
  ServerBytes = 5
  MaxWrite = 2
  MaxInFlight = 2
  Forwards = TRUE
  Extended = TRUE
  ChannelTimeout = FALSE
INVARIANTS TypeOK NoPacketError ChannelsApart WindowsAgree WindowAccounted
CHECK_DEADLOCK FALSE
