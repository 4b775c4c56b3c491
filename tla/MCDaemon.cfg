SPECIFICATION FairSpec
CONSTANTS
    c1 = c1
    a1 = a1
    a2 = a2
    a3 = a3
    o1 = o1
    o2 = o2
    NoProject = NoProject
    s1 = s1
    s2 = s2
    d1 = d1
    d2 = d2
    d3 = d3
    p1 = p1
    p2 = p2
    p3 = p3
    None = None
    k1 = k1
    k2 = k2
    k3 = k3
PROPERTIES
    Answered
    EditsGetIndexed
    WaitEnds
CHECK_DEADLOCK FALSE
