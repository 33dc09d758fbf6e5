SPECIFICATION FairSpec
CONSTANTS
  Caller = {1, 2}
  Peer = {1, 2}
  Key = {"digest"}
  BlobSize = 2
  Outcome <- SourceCode
  Setting <- MCSetting
  None = None
 
PROPERTIES EveryReadEnds
