\* Any card at any moment, or readable cards exchanged by a patient user.
CONSTANTS
    c1 = c1
    c2 = c2
    bad = bad
    wifi = wifi
    split = split
    NoCard = NoCard
    Cards = {c1, c2, bad, wifi, split}
    BadCards = {bad}
    SdioCards = {wifi}
    SplitCards = {split}
    BootSlots = {NoCard, c1, bad, wifi, split}
    UserModes = {"hectic", "patient"}
    MbSize = 4
    MaxInit = 2
    MainDelay = 5
SPECIFICATION FairSpec
INVARIANTS TypeOK TakeTurns NoDanglingMount WaitsForMount
PROPERTIES MountFollowsSlot DetectReturns
