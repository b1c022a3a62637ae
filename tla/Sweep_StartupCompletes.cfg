CONSTANTS
    Objects = {a}
    None = None
    MaxEvents = 4
    MaxFaults = 2
SPECIFICATION SweepSpec
PROPERTY StartupCompletes
