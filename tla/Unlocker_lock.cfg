SPECIFICATION FairSpec
CONSTANTS
    Pids = {p1, p2}
    NoPid = NoPid
    NoAttempt = NoAttempt
    a = a
    u1 = u1
    u2 = u2
    Bytes <- MCBytes
    Keys <- MCKeys
    Password <- MCPassword
    BufferSize = 3
    PendingSlots = 1
    MaxSeq = 2
    BlankTimeouts = {5}
    Faults = {"pipe", "fork", "source", "helper"}
INVARIANT ScreenSound
INVARIANT AwaitedAttempt
INVARIANT HonestChannel
INVARIANT LimitsKept
INVARIANT MessageOfLastAttempt
PROPERTY ChildrenKept
PROPERTY Implements
PROPERTY AttemptDecided
PROPERTY ChildrenCollected
