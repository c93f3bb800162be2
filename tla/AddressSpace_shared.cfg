\* Two states whose objects, a stack object and errno, share the process's memory.
CONSTANTS
    s1 = s1  s2 = s2  s3 = s3  e1 = e1
    heap1 = heap1  stack1 = stack1  errno = errno  ctype = ctype
    States = {s1, s2}
    MOs = {stack1, errno}
    OSs = {o1, o2, o3, o4}
    Globals = {errno}
    Locals = {stack1}
    ReadOnly = {}
    Errno = errno
    Values = {v0, v1}
    Exprs = {e1}
    Concrete = Concrete
    Free = Free
    Unbound = Unbound
    NoState = NoState
    Read = Read
    MaxKey = 3
SYMMETRY Symmetry
SPECIFICATION Spec
INVARIANTS
    TypeOK
    OwnersNotInTheFuture
    SharedIsNotOwned
    CopyInOnlyTouched
PROPERTIES
    Isolation
CHECK_DEADLOCK FALSE
