-------------------------- MODULE MCBoundedRecovery --------------------------
(* Three steps on two switches, two decisions.                             *)
EXTENDS BoundedRecovery, TLC

CONSTANTS s1, s2

MCSwitchOf == <<s1, s2, s1>>
MCApart == <<{1}, {2}, {3}>>
MCNested == <<{1}, {2}, {1, 3}>>
MCChecked == {2, 3}
MCReversible == {3}
MCTimed == {}
=============================================================================
