SPECIFICATION Spec
CONSTANTS
    c1 = c1  c2 = c2  t1 = t1  t2 = t2  t3 = t3
    Calls <- MCCalls
    Temps <- MCTemps
    NoTemp = NoTemp
    Messages <- MCMessages
    Batches <- MCBatches
    SizeOf <- MCSizeOf
    HostSizes <- MCHostSizes
    MaxMedia = 2
    MaxImageUpload = 1
    MaxFileUpload = 2
    MaxRewrites = 1
INVARIANTS
    TypeOK
    FilesOwned
    GatewayReadsWhole
    UploadsWhole
PROPERTY
    FilesReleased
