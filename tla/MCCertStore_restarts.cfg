CONSTANTS
    None = None
    Absent = Absent
    Empty = Empty
    Replica = {r1}
    r1 = r1
    Id = {i0, i1, i2, i3}
    i0 = i0
    i1 = i1
    i2 = i2
    i3 = i3
    Provided = i0
    Host = {h1, h2, h3}
    h1 = h1
    h2 = h2
    h3 = h3
    Handshake = {s1, s2}
    s1 = s1
    s2 = s2
    CertCacheSize = 2
SYMMETRY Symmetry
SPECIFICATION CertSpec
INVARIANTS LeafIsTrusted StoreBounded OwnFilesAccepted
