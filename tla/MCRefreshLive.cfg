CONSTANTS
    Fingerprints = {1, 2}
    Absent = Absent
    Floor = 2
    Bundles <- MCBundles
    AddChoices <- MCAddChoices
    DistrustChoices = {{}, {1}}
    CompatChoices = {"None", "Files"}
    SecurityChoices = {"open"}
    Expiring = {}
    Faults = {}
    MaxEvents = 3
SPECIFICATION FairSpec
PROPERTY EventuallyInSync
