SPECIFICATION Spec
CONSTANTS
    factory = factory
    new = new
    invalid = invalid
    Absent = Absent
    Values <- MCValues
    ValidValues <- MCValid
    Factory <- MCFactory
    Changes <- MCChanges
    Unreadable <- MCUnreadable
    MaxFailed = 2
VIEW LiveView
INVARIANTS
    FieldsAreChosen
    UsableSettings
