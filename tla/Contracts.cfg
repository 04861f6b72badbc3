SPECIFICATION Spec
CONSTANTS
  NotCalled = NotCalled
  SensitiveKeys = {"api_key"}
  _MAX_HEADER_COUNT = 2
  _MAX_HEADER_NAME_LENGTH = 2
  _MAX_HEADER_VALUE_LENGTH = 3
  _MAX_HEADERS_TOTAL_LENGTH = 6
  NoHeaders = NoHeaders
  Refused = Refused
  Undecodable = Undecodable
  Absent = Absent
  ForbiddenExternal <- MCForbiddenExternal
  KnownModules <- MCKnownModules
  Reports <- MCReports
  SinkSettings <- MCSinkSettings
  Setups <- MCSetups
  HeaderLists <- MCHeaderLists
  Dists <- MCDists
  Sources <- MCSources
CHECK_DEADLOCK FALSE
INVARIANTS LineDecidesEnvelope PreparedOrRefused AcceptedReachesAgent SetUpIsWhole CarrierIsLastSent PassedIsComplete ImportsAreResolved
