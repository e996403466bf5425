SPECIFICATION Spec
CONSTANTS
  None = None
  Ids = {"c1", "c2"} Names = {"main"}
  Sites = {"s"}
  Users <- MCUsers RoleOf <- MCRoleOf Grants <- MCGrants
  Things = {t}
  Requests <- Removals
  Slots = {"v", "w"}
  StartClusters <- MCStartClusters
  StartServices <- MCStartServices
  Faults = {}
  MaxFaults = 0 MaxAudit = 2
PROPERTY RemovalAudited
CHECK_DEADLOCK FALSE
