CONSTANTS
    Fingerprints = {1, 2}
    Absent = Absent
    SubjectHash <- MCSubjectHash
    ExchangeOutcomes = {"exchanged", "unsupported", "error"}
SPECIFICATION Spec
INVARIANTS TypeOK LiveIsWhole StoreSurvivesFailures DoneIsRendered
PROPERTY ImplementsStore
