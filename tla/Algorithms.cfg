SPECIFICATION Spec
CHECK_DEADLOCK FALSE
CONSTANTS
    None = None
    Pad = Pad
    Shapes <- SmallShapes
    BlockSizes = {1, 2, 3}
    CodesPerWord = {3, 4}
    GroupSizes = {2, 4}
    Lanes = 4
    Blocks <- MCBlocks
    NotCalled = NotCalled
    AttentionCalls <- MCCalls
INVARIANTS
    ReadsExact
    KernelIsWHT
    AttendsToTheRightKeys
