\* One frame ready on a channel at a time, two display buffers, three items.
CONSTANTS
  i1 = i1
  i2 = i2
  i3 = i3
  null = null
  NULL = null
  Item = {i1, i2, i3}
  Queue = {"channel0", "channel1"}
  Channel = {"channel0", "channel1"}
  Camera = {0, 1}
  MaxReady = 1
  NumBuffers = 2
  Limit = 1
  Scenarios <- SomeScenarios
SPECIFICATION FairSpec
INVARIANTS QueueIsAList CallsAreInOrder DrawsAsItBelieves
PROPERTIES BufferNotOverwritten 
