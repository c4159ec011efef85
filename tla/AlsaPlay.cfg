SPECIFICATION FairSpec
CONSTANTS
  Bits <- AllBits
  Channels <- AllChannels
  Clients = {"little", "big"}
  Host = "little"
  Available <- Formats
  Page = 256
  Buffer = 2
  Chunks = {0, 3}
  MaxFrames = 5
  Dies = TRUE
INVARIANT TypeOK
INVARIANT WidthsFit
INVARIANT ByteOrderFits
PROPERTY DeliversInOrder
PROPERTY PlayComesBack
CHECK_DEADLOCK FALSE
