SPECIFICATION Spec
CONSTANTS
    MaxOrder = 2
    Blocks = 2
    Sizes = {1, 2, 3, 4}
CONSTRAINT BeforeRelink
INVARIANTS TreeTellsHeldPages FreeListsSound EmptyBlocksWhole
PROPERTY ServesPages
