SPECIFICATION FairSpec
CONSTANTS
    f1 = f1
    s1 = s1
    s2 = s2
    None = None
    Frontends = {f1}
    Streams = {s1, s2}
    Owner <- OneOwner
    MaxEpoch <- Epochs
    MaxChunks <- ChunkBound
    DaemonMayDie = TRUE
CHECK_DEADLOCK FALSE
INVARIANTS
    CurrentTicketKept
    TableTracksHandlers
PROPERTIES
    CancelHitsItsOwn
    CancelledWorkerEnds
