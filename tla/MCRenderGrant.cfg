CONSTANTS
    Fingerprints = {1}
    Absent = Absent
    SubjectHash <- MCSubjectHash
    ExchangeOutcomes = {"exchanged"}
SPECIFICATION Spec
INVARIANT LiveKeepsGrant
