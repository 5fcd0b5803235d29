\* Power-up without a card.
CONSTANTS
    c1 = c1
    c2 = c2
    bad = bad
    wifi = wifi
    split = split
    NoCard = NoCard
    Cards = {c1}
    BadCards = {}
    SdioCards = {}
    SplitCards = {}
    BootSlots = {NoCard}
    UserModes = {"calm"}
    MbSize = 4
    MaxInit = 2
    MainDelay = 5
SPECIFICATION FairSpec
PROPERTY CardServed
