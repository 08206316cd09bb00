SPECIFICATION Spec
CONSTANTS
  Registry <- RegistryTable
  Deps <- DependencyTable
  Phase <- PhaseTable
  Billable <- BillableTable
  InspectionOnly <- InspectionOnlyTable
  External <- ExternalTable
  Automatic <- AutomaticTable
  NeedsDatabase <- DatabaseTable
  NeedsManagement <- ManagementTable
  NeedsStorageKey <- StorageKeyTable
  Depth <- MCDepth
  Inputs <- MCInputs
CHECK_DEADLOCK FALSE
INVARIANTS
  ReadyPlanIsAccepted
  DependenciesComeFirst
  LimitsReachTheirDependents
