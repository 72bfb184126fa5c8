\* The components around one campaign, each with requests that overlap, fail and stop.
\* Bounds are used up, so the system may stop.
SPECIFICATION WorkSpec
CONSTANTS
    MaxObjects = 2
    Calls = {c1, c2}
    Deliveries = {h1}
    OneCall = {v1}
    Products = {p1, p2}
    NoProduct = NoProduct
    Applicants = {k1}
    Slots = {1}
    MaxAnswers = 2
    MaxDrafts = 2
    MaxFiles = 4
    Events = {e1, e2}
    MaxRevision = 2
    Net = 3
    Facts <- SomeFacts
    Terms <- SomeTerms
    Creators = {k1, k2}
    Shoppers = {s1, s2}
    NoShopper = NoShopper
    Legacy = {k2}
    Conversions = {"listing"}
    MaxGrants = 2
    Providers = {"youtube", "tiktok"}
    Strict = {"youtube"}
    Listings = {l1}
    Unlisted = Unlisted
    MaxEntries = 2
    People = {p3, p4}
    NoPerson = NoPerson
CHECK_DEADLOCK FALSE
SYMMETRY Symmetry
INVARIANTS ChargedAndPaidOnce PaidIsBacked TransferHasRow WorkTypeOK AcceptanceBacked FileKept LedgerExact ReversedStays OneShopper AnsweredWhileLinked DisconnectedStaysOff PipelineConsistent
PROPERTIES ProductLocked SavedIsPublished
