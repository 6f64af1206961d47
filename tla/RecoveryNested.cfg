CONSTANTS
    s1 = s1
    s2 = s2
    NSteps = 3
    SwitchOf <- MCSwitchOf
    Covers <- MCNested
    Checked <- MCChecked
    Reversible <- MCReversible
    Timed <- MCTimed
    DecisionTime = 2
    MaxRound = 2
    MaxClock = 2
    MaxChanges = 1
    MaxCancels = 1
SPECIFICATION Spec
INVARIANT
    PartialEffectsStay
CHECK_DEADLOCK FALSE
