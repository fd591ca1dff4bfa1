CONSTANTS
    Fingerprints = {1}
    Absent = Absent
    SubjectHash <- MCSubjectHash
    ExchangeOutcomes = {"unsupported"}
SPECIFICATION Spec
INVARIANT OldStoreSurvives
