SPECIFICATION BoundarySpec
CONSTANTS
    gold = gold
    special = special
    other = other
    Version = {gold, special, other}
    Face = {"vini90"}
    Side = {"home", "away"}
    FaceOf <- MCFaceOf
    SideOf <- MCSideOf
    Provider = {"futdb", "parse", "coin", "futzip"}
    Official = {"futdb"}
    ByFutbinId = {"parse"}
    Terse = {"parse"}
    Stub = {"futzip"}
    Page <- MCPage
    Ingester = {w1, w2}
    MaxCards = 4
    MaxRuns = 3
    Article = {1, 2, 3}
    UrlOf <- MCUrlOf
    Unstorable = {3}
    Poll = {w1, w2}
    MaxPolls = 2
    MaxHour = 1
    Prediction = {d1, d2, d3}
    Poster = {w1, w2}
    Keep = 2
    MaxPosts = 4
CHECK_DEADLOCK FALSE
SYMMETRY Symmetry
INVARIANTS
    OneCardPerLook
    ArchivedIsWhole
    SuccessCoversIndex
    PostsAccounted
    PersonaRemembers
