CONSTANTS
    f1 = f1
    f2 = f2
    t1 = t1
    t2 = t2
    Filters = {f1, f2}
    Callbacks = {c1, c2}
    Topics = {t1, t2}
    Matches <- MCMatches
    MaxSubscriptions = 3
    Empty = Empty
SPECIFICATION Spec
INVARIANT TypeOK
INVARIANT NoDuplicates
INVARIANT FirstAvailable
PROPERTY ImplementsSubscriptions
