\* Room for two results as in the code, a job with one result before its
\* last as the preview's two phases have, and enough generations for a
\* running, a waiting and a replacing job.
SPECIFICATION WorkerSpec
CONSTANTS
    WaitingResults = 2
    MaxGeneration = 4
    MaxSends = 1
INVARIANTS
    TypeOK
    LatestSound
PROPERTIES
    StartsOnce
    PromiseKept
    Progress
