SPECIFICATION Spec
CONSTANTS
  me = me u2 = u2 g = g
  Ids = {me, u2}
  Roles = {"DEVELOPER", "OPS"}
  SystemRoles = {"DEVELOPER"}
  Grants = {g}
  None = None
  Asked = Asked
  Me <- MCMe
  StartUsers <- MCUsers
  StartRoles <- MCRoles
  OtherUsers <- MCOtherUsers
  OtherRoles <- MCOtherRoles
  MaxWrites = 2
  MaxPending = 2
  Faults = {"users"}
INVARIANTS TypeOK OwnWritesShown
PROPERTIES FormsCloseByOwnAnswer
