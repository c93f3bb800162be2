\* Two states; a heap object, errno and a read-only external object.
CONSTANTS
    s1 = s1  s2 = s2  s3 = s3  e1 = e1
    heap1 = heap1  stack1 = stack1  errno = errno  ctype = ctype
    States = {s1, s2}
    MOs = {heap1, errno, ctype}
    OSs = {o1, o2, o3, o4}
    Globals = {errno, ctype}
    Locals = {}
    ReadOnly = {ctype}
    Errno = errno
    Values = {v0, v1}
    Exprs = {e1}
    Concrete = Concrete
    Free = Free
    Unbound = Unbound
    NoState = NoState
    Read = Read
    MaxKey = 2
SYMMETRY Symmetry
SPECIFICATION Spec
CONSTRAINT FewContents
INVARIANTS
    ReadOnlyNeverCopied
    ResolutionFresh
PROPERTIES
    PrivateSpec
CHECK_DEADLOCK FALSE
