SPECIFICATION Spec
CONSTANTS
  Files <- AllFiles
  SafeIDs <- IdentifierLike
  Panel_URLs <- HTTPSURLs
  Hosts <- HostLike
  Lower <- LowerCase
  Unset = Unset
  NaN = NaN
INVARIANTS TypeOK AcceptedIsSound RefusedForCause
