SPECIFICATION Spec
CONSTANTS
    k1 = k1  k2 = k2  k3 = k3
    i1 = i1  i2 = i2  i3 = i3
    t1 = t1  t2 = t2
    Keys = {k1, k2, k3}
    Items = {i1, i2, i3}
    Users = {t1, t2}
    GC = GC
    NULL = NULL
    Max = 3
PROPERTIES ListsAreSets IdlePeerFreed
