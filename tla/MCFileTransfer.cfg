SPECIFICATION FairSpec
CONSTANTS
    MaxTransfers = 2
    Size = 3
INVARIANTS
    TypeOK
    DownloadInOrder
    UploadOvertakesOne
    NoPieceTwice
PROPERTY
    EndedDownloadReturns
CHECK_DEADLOCK FALSE
