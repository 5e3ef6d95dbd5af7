SPECIFICATION Spec
CONSTANTS
  idle = idle
  Fields <- SomeFields
  MaxFields = 3
  PartSize = 20
  NotBuilding = idle
INVARIANTS PartFits TextFits
