CONSTANTS
    Writers = {w1, w2}
    Names = {corp, lab}
    Ders = {d1, d2}
    Purposes = {client}
    Prints = {f1, f2}
    MaxOps = 3
SPECIFICATION Spec
SYMMETRY MCSymmetry
INVARIANTS TypeOK EntriesAreWhole LoadSeesSettled
