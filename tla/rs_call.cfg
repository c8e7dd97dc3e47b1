\* Three peers, every configuration, failures at any point.
SPECIFICATION FairSpec
CONSTANT N = 3
INVARIANTS TypeOK SentOncePacked CompleteOnReturn QuietAtEnd
PROPERTY CallEnds
