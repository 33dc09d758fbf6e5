SPECIFICATION Spec
CONSTANTS
  Caller = {1}
  Peer = {1, 2}
  Key = {"digest"}
  BlobSize = 2
  Outcome <- SourceCode
  Setting <- MCRedirect
  None = None
INVARIANT RedirectReadExact
