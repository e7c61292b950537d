\* Two attempts, with two copies of "Resend" each, and up to two lost packets:
\* one attempt can lose its message or answer, or both copies, but not all.
CONSTANTS
    MAXREEMISSIONS = 2
    MaxLoss = 2
SPECIFICATION PostOfficeSpec
INVARIANTS
    MailInOrderOnce
    SuccessMeansDelivered
PROPERTY ReliableSendEnds
CHECK_DEADLOCK FALSE
