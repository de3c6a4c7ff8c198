SPECIFICATION CommandsSpec
CONSTANTS
    None = None
    Missing = Missing
    Broken = Broken
    Commands = {c1, c2}
    Tokens = {core, mine}
    Flags = {}
    Bin = core
    Releases <- MCReleases
SYMMETRY Symmetric
INVARIANTS
    CommandsTypeOK
    AloneRepairs
    TokenKept
    AloneActs
