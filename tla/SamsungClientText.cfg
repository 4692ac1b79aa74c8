SPECIFICATION Spec
CONSTANTS
    Interval = 1
    MaxSockets = 2
PROPERTIES
    AlwaysPrimed
