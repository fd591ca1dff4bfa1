CONSTANTS
    Fingerprints = {1, 2}
    Absent = Absent
    Floor = 2
    Bundles <- OneBundle
    AddChoices <- OneAddition
    DistrustChoices = {{}, {1}}
    CompatChoices = {"None", "Files"}
    SecurityChoices = {"open"}
    Expiring = {}
    Faults = {"watch"}
    MaxEvents = 2
SPECIFICATION FairSpec
PROPERTY EventuallyInSync
