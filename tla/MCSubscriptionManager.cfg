\* Three elements for six possible subscriptions: the list fills up and is
\* left with free elements in the middle.
CONSTANTS
    exact1 = exact1
    exact2 = exact2
    wildcard = wildcard
    topic1 = topic1
    topic2 = topic2
    Filters = {exact1, exact2, wildcard}
    Receivers = {r1, r2}
    Topics = {topic1, topic2}
    Matches <- MCMatches
    MaxSubscriptions = 3
    Free = Free
SPECIFICATION Spec
INVARIANTS NoDuplicates
PROPERTY ImplementsSet
