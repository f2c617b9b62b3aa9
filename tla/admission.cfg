CONSTANTS Drives <- SomeDrives  Grid <- SomeGrid  Policies <- SomePolicies  MaxDecays = 2  MaxChanges = 1
SPECIFICATION Spec
INVARIANT WipesOnlyAdmitted
PROPERTY DecayNeverHelps
CHECK_DEADLOCK FALSE
