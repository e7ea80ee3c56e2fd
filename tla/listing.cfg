\* Every listing operation, on every folder of up to five entries.
SPECIFICATION FairListing
CONSTANTS
    Listings <- AllListings
    MaxEntries = 5
    PageSize = 2
    MAX_RESULTS = 3
    DefaultPage = 3
    MAX_INDEX = 4
    None = None
CHECK_DEADLOCK FALSE
INVARIANTS
    ListingTypeOK
    ListedOnce
    CompleteUnlessCutShort
PROPERTIES
    PrevLeadsBack
    WalkEnds
