\* Each family of APIs in turn.
SPECIFICATION MCSpec
CONSTANTS
  Conn <- MCConn
  Tenant <- MCTenant
  Owner <- MCOwner
  TopicPrefix <- MCTopicPrefix
  Foreign <- MCForeign
  Advertised = "proxy"
  Requests <- AllRequests
PROPERTY TenantsHaveDedicatedClusters
PROPERTY WritesStayInSlice
