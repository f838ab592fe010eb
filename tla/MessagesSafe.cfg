SPECIFICATION Spec
CONSTANTS
    alice = alice  bob = bob  charlie = charlie
    p1 = p1  p2 = p2  p3 = p3  h1 = h1  h2 = h2
    Keys = {alice, bob}
    Conversations <- OneWayAndSelf
    Posts = {h1, h2}
    Pulls = {p2, p3}
    Asks <- AskBobTwice
    PullLimit = 1
    MaxPerTick = 2
    Lifetime = 1
    MaxTime = 4
    MaxMessages = 2
    MaxFaults = 1
INVARIANTS NothingSkipped SenderSeesFirst SentListed
SYMMETRY Symmetry
CHECK_DEADLOCK FALSE
