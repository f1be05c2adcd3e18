\* The same streams, cut anywhere.
SPECIFICATION FramingSpec
CONSTANTS
  Streams <- MCStreams
  Rbuf = 14
  BufferSize = 16
  IndexRange = 32
  MaxTail = 8
  nullopt = nullopt
INVARIANTS AssertsHold
