CONSTANTS
    MaxMessages = 3
    Costs = {1, 2}
    Available <- TheAvailable
    MaxDepth = 4
    Words = {"w", "v"}
    Books <- TheBooks
    MaxLine = 2
    MaxBytes = 5
    MaxRead = 2
SPECIFICATION RequestSpec
INVARIANT MessagesComeBack
CHECK_DEADLOCK FALSE
