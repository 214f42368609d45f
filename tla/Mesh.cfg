SPECIFICATION MCSpec
PROPERTIES  PlanIsHeld
CHECK_DEADLOCK FALSE
