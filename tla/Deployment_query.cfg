CONSTANTS
    Samples = {"new_query"}
    Strangers = {}
SPECIFICATION DeploymentSpec
CHECK_DEADLOCK FALSE
INVARIANT
    Served
