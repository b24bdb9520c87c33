SPECIFICATION PartsSpec
SYMMETRY Alike
CONSTANTS
\* Deadlines: the timeouts in the order of the source.
  Path <- AllPaths
  dialTimeout = 3
  requestTimeout = 9
  clientHandshakeTimeout = 9
  clientIdleTimeout = 12
  ScramMessages = 2
\* Framing: two frames, cut anywhere.
  Size <- MCSize
  MaxFrameSize = 5
  MaxFrames = 2
\* Headers: every advertised version but one.
  Request <- MCRequest
  ClientID <- MCClientID
  Tags <- MCTags
  MaxInt = 255
  MaxUvarint = 2
  MaxFrame = 160
  MaxLength = 511
\* SaslParsers: both parsers on every payload of each form.
  Form <- MCForm
\* Startup: every configuration of up to two tenants.
  Config <- MCConfig
  UserID <- MCUserID
  Prefix <- MCPrefix
  Addr <- MCAddr
  Char = {"a"}
\* Metrics: five requests of two connections.
  c1 = c1
  c2 = c2
  Conn <- MCConn
  TenantID <- MCTenantID
  Stranger = "nobody"
  Mech <- MCMech
  Key <- MCKey
  MaxRequests = 5
INVARIANTS
  DeadlineTypeOK
  OnlyWritesBlockForever
  NoStaleDeadline
  DialIsBounded
  TypeOK
  FramesIntact
  CleanEndLosesNothing
  BodyIsFound
  ResponseIsFound
  ScramReadsTheName
  PlainFollowsGrammar
  SameUserOnBothMechanisms
  AcceptedConfigStarts
  CatalogueIsAsWritten
  OkCountsAuthentications
  EveryStepHasOneOutcome
  LabelsAreBounded
