\* Two files, as a task publishes several, and room for two collections.
SPECIFICATION Spec
CONSTANTS
    Ids = {patch, mask}
    None = none
    MaxTaskArtifacts = 2
    QueueCapacity = 2
INVARIANTS
    TypeOK
    StoreSound
    NoGarbageMissed
