SPECIFICATION Spec
CONSTANTS
    Ids = {patch, mask}
    None = none
    MaxTaskArtifacts = 2
    QueueCapacity = 1
PROPERTY FailedRecordsNothing
