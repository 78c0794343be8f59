SPECIFICATION Spec
CONSTANTS
    File = {f1, f2}
    Node = {n1, n2}
    MaxVersion = 2
    MaxChanges = 1
    MaxCommands = 2
    MaxRestarts = 1
    MaxResults = 1
    None = None
    Failed = Failed
    Unreadable = Unreadable
    Writing = Writing
INVARIANTS
    TypeOK
    TthIsOfFile
    HashQueueSound
    PublishedIsOurs
PROPERTY
    FilesAreHashed
CHECK_DEADLOCK FALSE
