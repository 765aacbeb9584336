CONSTANTS
    Queue = 1
    Chunk = 2
    Buffer = 2
    MaxConnections = 2
    MaxUp = 3
    MaxDown = 3
    MaxWire = 2
SPECIFICATION FairSpec
PROPERTY ClientHears
INVARIANTS UploadConserved DownloadConserved
CHECK_DEADLOCK FALSE
