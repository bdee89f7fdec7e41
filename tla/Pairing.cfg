SPECIFICATION FairSpec
CONSTANTS
    Devices = {a, b}
    Nobody = Nobody
    MaxOffers = 2
    MaxRequests = 3
    MaxRestarts = 1
INVARIANTS ShownPinWorks CompletionTrue CompletionKept AcceptedKept
PROPERTIES PinsRefine CompletionShown
CHECK_DEADLOCK FALSE
