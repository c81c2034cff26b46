CONSTANTS
  Sources <- Programs
  Options <- AllOptions
  Turns = 2
  NoSource = NoSource
SPECIFICATION Spec
INVARIANTS SameBehaviourUnless  OpsTracedUnless PointersLoggedUnless
CHECK_DEADLOCK FALSE
