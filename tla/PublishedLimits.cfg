\* The same calls, each judged by its published schema.
SPECIFICATION Spec
CONSTANTS
    None = None
    Documents <- EveryDocument
    SchemaNames <- Names
    PublicKeys <- Keys
    Served <- LongCallers
    Calls <- EveryCall
    MaxReceipts = 1
INVARIANTS
    PublishedLimitsAccepted
CHECK_DEADLOCK FALSE
