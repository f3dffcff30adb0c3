SPECIFICATION Spec
CONSTANTS
    Instances = {i1, i2, i3}
    Deployed <- AnyRevision
    MaxCrashes = 2
    MaxDowngrades = 1
INVARIANT ServesTheModels
PROPERTIES UpgradeIsAtomic EveryInstanceServes
CHECK_DEADLOCK FALSE
