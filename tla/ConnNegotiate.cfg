SPECIFICATION FairSpec
CONSTANTS
  Known = {"gen", "emb"}
  Foreign = {"new"}
  Offer = {"gen", "new"}
  OnHello <- MCOnHello
  Major <- MCMajorSame
  Ids = {0, 1}
  AppFrames <- MCControl
  WildFrames <- MCNone
  MaxStreams = 1
  MaxSends = 1
  MaxFaults = 2
  MayDestroy = {"client", "server"}
INVARIANTS CapsAgree NoReplyStorm TypeOK
PROPERTIES InOrder ClosedIsFinal NegotiationEnds CloseSpreads HandshakeSpec
CHECK_DEADLOCK FALSE
