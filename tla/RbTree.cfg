\* All sequences of insertions and removals of eight keys.
CONSTANTS
    Keys <- MCKeys
    Nodes <- MCNodes
SPECIFICATION Spec
INVARIANTS RedBlack PointersMatch
PROPERTY ImplementsKeySet
VIEW TreeView
