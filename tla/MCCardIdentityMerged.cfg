SPECIFICATION IdentitySpec
CONSTANTS
    gold = gold
    special = special
    other = other
    Version = {gold, special, other}
    Face = {"vini90"}
    Side = {"home", "away"}
    FaceOf <- MCFaceOf
    SideOf <- MCSideOf
    Provider = {"futdb", "parse", "coin", "futzip"}
    Official = {"futdb"}
    ByFutbinId = {"parse"}
    Terse = {"parse"}
    Stub = {"futzip"}
    Page <- MCPage
    Ingester = {i1}
    MaxCards = 4
    MaxRuns = 2
CHECK_DEADLOCK FALSE
INVARIANTS
    VersionsKeptApart
