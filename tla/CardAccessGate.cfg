SPECIFICATION FairSpec
CONSTANTS
    Ops = {p1, p2}
    Openers = {b1, b2, b3}
    Watchers = {w1}
    MaxTickets = 4
INVARIANTS TypeOK MutualExclusion TicketLedger NoLostWakeup
PROPERTIES RefinesQuietWindow WaitersResume
