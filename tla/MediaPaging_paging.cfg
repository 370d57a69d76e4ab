SPECIFICATION FairSpec
CONSTANTS
    Items <- SomeItems
    Values = {1, 2}
    Null = Null
    Orders <- AllOrders
    Kinds = {"", "photo"}
    Limits = {1, 2}
    MaxEdits = 1
CHECK_DEADLOCK FALSE
INVARIANTS PagesInOrder  SteadyShown
PROPERTY PagingEnds
