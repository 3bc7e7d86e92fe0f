SPECIFICATION Spec
CONSTANTS
    Rows = {r1, r2, r3}
    Loads = {l1, l2, l3}
    Writes = {w1, w2, w3}
    None = None
INVARIANTS
    DialogInv SentForItsRow OneWritePerDialog
SYMMETRY Symmetry
