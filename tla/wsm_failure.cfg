CONSTANT Worlds <- MCRejected
SPECIFICATION FairSpec
INVARIANT NoneOnFailure
