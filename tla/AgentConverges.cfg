CONSTANTS
    m1 = m1
    m2 = m2
    m2x = m2x
    mbad = mbad
    c1 = c1
    c2 = c2
    a1 = a1
    a2 = a2
    u1 = u1
    u2 = u2
    p1 = p1
    p2 = p2
    None = None
    Procs = {p1}
    Manifests = {m1, m2, m2x, mbad}
    Authentic = {m1, m2}
    Sound = {m1, m2}
    Loadable = {m1, m2}
    Chunks = {c1, c2}
    Artifacts = {a1, a2}
    Urls = {u1}
    MaxDamage = 1
    SeqOf <- MCSeqOf
    ChunksOf <- MCChunksOf
    ArtifactOf <- MCArtifactOf
    OptionsOf <- ServiceOptions
SPECIFICATION FairSpec
PROPERTIES
    Converges
