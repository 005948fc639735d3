\* Two workers, two prepare processes alive at once, two corpora, and two
\* failures or kills: an orphan of the first controller may meet the second.
SPECIFICATION DataSpec
CONSTANTS
    None = None
    Torn = Torn
    Scripts <- BothScripts
    Workers = {w1, w2}
    Procs = {p1, p2}
    Corpora = {c1, c2}
    MaxFaults = 2
SYMMETRY Symmetric
INVARIANTS
    DataTypeOK
    OkReadItsCorpus
    DataIsThere
