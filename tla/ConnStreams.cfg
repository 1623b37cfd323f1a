SPECIFICATION ForeignSpec
CONSTANTS
  Known = {"gen", "emb"}
  Foreign = {"new"}
  Offer = {"gen", "new"}
  OnHello <- MCOnHelloNew
  Major <- MCMajorSame
  Ids = {0, 1, 2}
  AppFrames <- MCStreamFrames
  WildFrames <- MCWild
  MaxStreams = 2
  MaxSends = 3
  MaxFaults = 0
  MayDestroy = {}
INVARIANTS CapsKnown StreamsInStep OrdinalsExact
CHECK_DEADLOCK FALSE
