SPECIFICATION FairSpec
CONSTANTS
    p1 = p1
    r1 = r1
    r2 = r2
    None = None
    Page = {p1}
    BootPage = {p1}
    Request = {r1, r2}
    MethodsVary = TRUE
    MaxVersion = 2
INVARIANTS
    TypeOK
    FreshWhenClean
    OneBuilderPerPage
    BuildingHasOwner
    SleeperHasBuilder
    FallbackExists
    RoutedIsRegistered
    PinFindsCurrent
PROPERTIES
    PublishedNeverRegresses
    EveryRequestAnswered
    StaleNeverStaysClean
