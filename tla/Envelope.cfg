SPECIFICATION Spec
CONSTANTS
    Key = {k1, k2}
    Label = {dek, master}
    Id = {a, b}
    Date = {p}
    Stamp = {s1, s2}
    Plain = {t1, t2}
    Cek = {c1, c2}
    None = None
SYMMETRY Symmetry
INVARIANTS TypeOK Readable Authentic
CHECK_DEADLOCK FALSE
