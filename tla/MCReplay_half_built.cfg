SPECIFICATION Spec
CONSTANTS
    s1 = s1
    s2 = s2
    o1 = o1
    o2 = o2
    k1 = k1
    p1 = p1
    v1 = v1
    v2 = v2
    None = None
    Stores = {s1}
    Writers = {s1}
    Objects = {o1, o2}
    Relations = {k1}
    Patches = {p1}
    Contents = {v1, v2}
    Events <- OneEvent
    DirectWrites <- Ghosts
    LogBound = 1
PROPERTIES
    ReadsFailClosed
