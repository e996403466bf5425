SPECIFICATION FairSpec
CONSTANTS
  None = None
  Ids = {"c1", "c2"} Names = {"main"}
  Sites = {"s"}
  Users <- MCUsers RoleOf <- MCRoleOf Grants <- MCGrants
  Things = {t}
  Requests <- MCRequests
  Slots = {"v", "w"}
  StartClusters <- MCStartClusters
  StartServices <- MCStartServices
  Faults = {"statement", "call", "reply", "restart"}
  MaxFaults = 1 MaxAudit = 2
INVARIANT TypeOK
PROPERTIES ChangesPermitted ImplementsTrail StatusSettles
