SPECIFICATION FairSpec
INVARIANTS
    TypeOK
    VMCanBeCreated
    RestartIsNeeded
PROPERTY AdviceLeadsToVM
