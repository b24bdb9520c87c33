\* A prefix that starts another one.
SPECIFICATION FairSpec
CONSTANTS
  Conn <- MCConn
  Tenant <- MCTenant
  Owner <- MCOwner
  TopicPrefix <- MCNested
  Foreign <- MCForeign
  Advertised = "proxy"
  Requests <- MCNestedRequests
PROPERTY TenantsHaveDedicatedClusters
