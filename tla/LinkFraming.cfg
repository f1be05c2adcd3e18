\* Every stream of up to five messages, which takes the ring past the end of its
\* buffer and of its indices, cut by recv at message boundaries or inside a
\* length field.
SPECIFICATION FramingSpec
CONSTANTS
  Streams <- MCStreams
  Rbuf = 14
  BufferSize = 16
  IndexRange = 32
  MaxTail = 2
  nullopt = nullopt
INVARIANTS FramesExact Prompt
