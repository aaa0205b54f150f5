SPECIFICATION FairSpec
CONSTANTS
    Names = {a, b, c}
    None = None
    MaxCookie = 3
    MaxPage = 2
    MaxVerf = 2
INVARIANTS TypeOK NothingMissed OnceEach
PROPERTIES ImplementsListing ListingEnds
CHECK_DEADLOCK FALSE
