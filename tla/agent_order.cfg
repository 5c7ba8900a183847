\* Three messages in a row.
CONSTANTS
    Clients = {c1}
    MaxRuns = 3
    MaxEvents = 1
    End = End
SPECIFICATION Spec
PROPERTY SavesInOrder
