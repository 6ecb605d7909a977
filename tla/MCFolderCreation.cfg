SPECIFICATION Spec
CONSTANTS
    c1 = c1
    c2 = c2
    w1 = w1
    x = x
    y = y
    NoId = NoId
    Creators <- MCCreators
    Walkers <- MCWalkers
    Names <- MCNames
    PathsOf <- MCPathsOf
    MaxPosts = 2
INVARIANTS
    OneRowPerPost
    PostsRecorded
    TreeValidated
PROPERTIES
    SlotFreed
