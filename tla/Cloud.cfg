CONSTANTS
    Lists = {l1}
    Me = me
    Worker = w
    Interval = 1
    MaxAsked = 1
    MaxSubs = 1
    MaxLag = 0
    Fan = 1
SPECIFICATION Spec
INVARIANTS
    TypeOK
    OffWhenSilent
    HeldFollowed
    RepliesIntact
PROPERTIES
    ModeRecovers
    SilentCloud
