CONSTANTS
    None = None
    Absent = Absent
    Empty = Empty
    Replica = {r1, r2}
    r1 = r1
    r2 = r2
    Id = {i0, i1, i2, i3}
    i0 = i0
    i1 = i1
    i2 = i2
    i3 = i3
    Provided = i0
SPECIFICATION Spec
INVARIANTS OneCA
