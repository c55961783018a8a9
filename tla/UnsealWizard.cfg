\* Three validations: one before a cancelled decryption, one before the
\* decryption that is kept, one in the read-only view after it.
SPECIFICATION FairSpec
CONSTANT MaxProcs = 3
INVARIANTS TypeOK StepsInOrder PublishedIsVerified RecordOfOutput PlaintextAccounted
PROPERTY Responds
CHECK_DEADLOCK FALSE
