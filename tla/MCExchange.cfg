\* A read of every kind, with every server on the way: three origins over TLS, each
\* with one of three certificates, a plain one, and every answer.
SPECIFICATION Spec
CONSTANTS
  AbsoluteThreshold = 64
  RelativeNum = 1
  RelativeDen = 20
  LimitGrace = 30
  Origins <- FourOrigins
  Plain <- PlainOrigins
  Names <- HostNames
  AllowedSets <- HostLists
  Certificates = {"trusted", "pinned", "unknown"}
INVARIANTS
  TypeOK
  AccusedOfItsAnswer
  RequestsAreDirected
PROPERTY
  Ends
