SPECIFICATION Spec
CONSTANT N = 3
INVARIANT
    EveryPlanDiffers
CHECK_DEADLOCK FALSE
