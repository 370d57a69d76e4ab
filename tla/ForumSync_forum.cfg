SPECIFICATION FairSpec
CONSTANTS
    Topics = {"a", "b", "c"}
    PageSize = 2
    SeedStamps <- Stamps
    SeedRows = {"a"}
    Clicked = {"a", "b"}
    MaxStamp = 4
    MaxEvents = 1
    None = None
CHECK_DEADLOCK FALSE
INVARIANTS TypeOK OneRunPerTopic SteadyListed ForumCovered
 
