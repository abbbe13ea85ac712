\* The registry: two agents, two goroutines and four operations.  The task
\* board: the same agents and goroutines, three publications, a subscriber and
\* a listener.  Merge: lists of up to two items with three ids and two times.
CONSTANTS
    Agents = {a1, a2}
    Caps = {k1, k2}
    Threads = {t1, t2}
    MaxOps = 4
    NoAgent = NoAgent
    Lists = {l1, l2}
    Subscribers = {s1}
    Listeners = {e1}
    MaxPublishes = 3
    NoList = NoList
    Ids = {i1, i2, i3}
    NoId = NoId
    MaxTime = 2
SPECIFICATION MCSpec
SYMMETRY ServiceSymmetry
INVARIANTS
    TypesOK
    IndexMatchesStore
    LookupsMatch
    StoredAgentsAreWatched
    BoardSubscribersInStep
    BoardLeavesGoneAlone
    MergeKeepsNewest
    MergeIsSorted
PROPERTIES
    NoErrorMeansMarked
\* Nothing is left to do when the operations are used up.
CHECK_DEADLOCK FALSE
