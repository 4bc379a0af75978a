SPECIFICATION Spec
CONSTANTS
    MaxOrder = 2
    Blocks = 2
    Sizes = {1, 2}
INVARIANT BlocksDisjoint
