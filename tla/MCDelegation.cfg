SPECIFICATION MonitorSpec
CONSTANTS
    Inputs <- MCInputs
    Usages <- MCUsages
PROPERTIES
    DelegationIsEarned
    OverloadIsNoticed
    PollerStops
