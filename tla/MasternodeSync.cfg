SPECIFICATION Spec
CONSTANTS
  Peers = {p1}
  Signed <- TwoSporks
  Own <- MySporks
  NoSpork = NoSpork
  MASTERNODE_SYNC_THRESHOLD = 1
  ListSize <- Lists
INVARIANTS DatabaseFollows OfferedIsHeld ThreeAskedForSporks
PROPERTIES MostRecentInForce 
