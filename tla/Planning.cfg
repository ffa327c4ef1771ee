SPECIFICATION PlanningSpec
CONSTANTS
  Thread = {"workflow", "sender"}
  Case = {"one", "two"}
  Plan = {"A", "B"}
  ConfKey = {"architecture", "boot"}
  ConfValue = {"x86", "arm", "efi"}
  Option <- AllOptions
  Value = {"extension", "intersection", "union", "drop-least-significant", "exact-match",
           "unset", "directory", "yes", "no", "maybe", "library"}
  Alphabet <- DottedNames
  Setups <- AllSetups
INVARIANTS
  MostSpecificClass StructuresFixed LongestBranch PlannedOnce EachServed
PROPERTIES
  OverridesSurvive
CHECK_DEADLOCK FALSE
