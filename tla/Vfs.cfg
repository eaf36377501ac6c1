\* All calls on three names, and the self-test.
CONSTANTS
    Hash <- MCHash
    Key = {1, 2, 3}
    Content = {"Hello World"}
    MaxEntry = 10
    MaxFs = 2
    FreeNames <- MCFreeNames
    TypeOf <- MCTypeOf
    FreeFiles = 3
SPECIFICATION Spec
INVARIANTS CacheExact BacktraceLeadsBack SelfTestPasses
PROPERTY ImplementsFileTree
VIEW View
