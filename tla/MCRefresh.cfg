CONSTANTS
    Fingerprints = {1, 2}
    Absent = Absent
    Floor = 2
    Bundles <- MCBundles
    AddChoices <- MCAddChoices
    DistrustChoices = {{}, {1}}
    CompatChoices = {"None", "Files"}
    SecurityChoices = {"open", "closed"}
    Expiring = {2}
    Faults = {"load", "read", "render", "fallback", "watch", "stamp", "subscriber", "crash"}
    MaxEvents = 3
SPECIFICATION Spec
INVARIANTS
    TypeOK
    HealthyStoreIsRendered
    ChangeIsPending
    RefreshIsFresh
    
    SubscriberIsCurrent
    GenerationNamesRoots
    DistrustTakesHold
