\* Every configuration around a bound, and under one of them every call.
SPECIFICATION Spec
CONSTANTS
    None = None
    Documents <- EveryDocument
    SchemaNames <- Names
    PublicKeys <- Keys
    Served <- LongCallers
    Calls <- EveryCall
    MaxReceipts = 1
INVARIANTS
    InputsTypeOK
    ValidationAgreesWithSchema
    ReplayRecognisesRequest
    RefusalsExplained
    IndexEntriesFit
\* A plan that is refused gets no calls.
CHECK_DEADLOCK FALSE
