\* Open's sweep over one record, with up to two faults or kills.
CONSTANTS
    Objects = {a}
    None = None
    MaxEvents = 4
    MaxFaults = 2
SPECIFICATION SweepSpec
INVARIANTS
    SweepIsSound
PROPERTIES
    ListedRecordsKeepTheirBytes
    RestartedRecordsSettle
