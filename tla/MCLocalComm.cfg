\* Two tokens for three tasks: draws collide, and a token is registered
\* again after its task has ended.  Two connections interleave.
SPECIFICATION FairSpec
CONSTANTS
    Tokens = {k1, k2}
    Tasks = {t1, t2, t3}
    Connections = {c1, c2}
    NoToken = NoToken
    NoTask = NoTask
    Malformed = Malformed
INVARIANTS
    TypeOK
    RegistryMatchesWorker
    BorrowsEndBeforeAwait
PROPERTIES
    SilentPeerBlocksNobody
    LetInAsTokenHolder
