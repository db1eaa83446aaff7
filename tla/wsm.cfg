CONSTANT Worlds <- MCWorlds
SPECIFICATION FairSpec
INVARIANT VerifiedIsGenuine
PROPERTIES Authenticates AuthEnds
