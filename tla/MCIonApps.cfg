\* Two programs that want more pages together than there are.
CONSTANTS
  Solo = Solo
  Main = Main
  Producer = Producer
  Consumer = Consumer
  None = None
  Proc = {Solo, Main, Producer, Consumer}
  Buf = {b1, b2}
  Page = {g1, g2, g3}
  Thing <- AllThings
  Faults <- AllFaults
  Scenarios <- Together
  Sizes = {0, 2}
SPECIFICATION FairSpec
CHECK_DEADLOCK FALSE
INVARIANTS
  AppsTypeOK
  PageHasOneOwner
  ConsumerSeesTheImage
  
  NothingLeftBehind
PROPERTY
  SentIsReceived
