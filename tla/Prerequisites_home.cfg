SPECIFICATION FairSpec
PROPERTY VirtualBoxLeadsToVM
