\* One golden execution, all handlers, a demo reset at any statement.
SPECIFICATION Spec
CONSTANTS
    e = e
    c = c
    b = b
    w = w
    f = f
    EventPosts = {e}
    CapsulePosts = {c}
    BaselinePosts = {b}
    WhatIfPosts = {w}
    DiffPosts = {f}
    Packs = {"checkout", "none"}
    MaxEvents = 3
    MaxResets = 1
INVARIANTS StoreOK ResetIsAtomic IncidentIsSound BaselineRemains AlreadyCompiledIsReturned
    SomebodyMoves
PROPERTIES ImplementsLifecycle
