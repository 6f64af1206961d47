CONSTANTS
    s1 = s1
    s2 = s2
    NSteps = 3
    SwitchOf <- MCSwitchOf
    Covers <- MCApart
    Checked <- MCChecked
    Reversible <- MCReversible
    Timed <- MCTimed
    DecisionTime = 2
    MaxRound = 2
    MaxClock = 2
    MaxChanges = 1
    MaxCancels = 1
SPECIFICATION Spec
INVARIANTS
    InOrder
    ReportsHold
    RecoveryVerified
PROPERTIES
    RevocationFinal
CHECK_DEADLOCK FALSE
