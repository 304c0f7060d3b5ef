CONSTANTS
    Payloads <- MCPayloads
    MaxMessages = 3
SPECIFICATION FairSpec
CHECK_DEADLOCK FALSE
INVARIANTS
    TypeOK
    MessagesAsSent
    NothingLostAtTheEnd
PROPERTIES
    ArrivedMessagesAreRead
