SPECIFICATION Spec
CONSTANTS
    alice = alice  bob = bob  charlie = charlie
    p1 = p1  p2 = p2  p3 = p3  h1 = h1  h2 = h2
    Keys = {alice, bob, charlie}
    Conversations <- TwoToOne
    Posts = {h1}
    Pulls = {p1, p2}
    Asks <- AskBothRecipients
    PullLimit = 2
    MaxPerTick = 1
    Lifetime = 4
    MaxTime = 3
    MaxMessages = 2
    MaxFaults = 0
INVARIANT NothingSkipped
CHECK_DEADLOCK FALSE
