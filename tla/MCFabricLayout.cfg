SPECIFICATION Spec
CONSTANTS
  Settings <- SmallSettings
  all = all
  ALL = ALL
  OR = OR
INVARIANTS
  TypeOK
  AcceptedComesUp
  MachinesFit
  GroupsPartition
  ReferencesResolve
  PoliciesEven
