------------------------- MODULE ConflictArbitration -------------------------
(***************************************************************************)
(* The arithmetic of action conflicts (coordination/arbitration.py).       *)
(*                                                                         *)
(* A proposed action is reduced to what decides whether it may run beside  *)
(* another one: the target it changes and the effects its capability       *)
(* declares.  Two policies differ in what they do with a conflict inside   *)
(* one response: "reject" keeps the first action of every conflict, the    *)
(* other two keep all of them and leave the order to admission.            *)
(***************************************************************************)
EXTENDS Integers, Sequences

ArbitrationPolicy == {"reject", "serialize", "priority"}

(* The effect of a capability nothing is known about.                      *)
AnyEffect == "*"

(* Only observations are read-only; a trusted mutation has the effects it  *)
(* declares; everything else may change anything.                          *)
EffectsOf(provider, declared) ==
    IF provider = "substrate.observation" THEN {}
    ELSE IF provider \in {"substrate.action", "fake.openflow"} /\ declared # {}
         THEN declared
         ELSE {AnyEffect}

ConflictKeys(c) == {c.target} \X c.effects

Conflicts(left, right) ==
    /\ left.effects # {}
    /\ right.effects # {}
    /\ \/ AnyEffect \in left.effects \cup right.effects
       \/ ConflictKeys(left) \cap ConflictKeys(right) # {}

(* The positions of  actions  that arbitration keeps.  Under "reject" a    *)
(* position is kept exactly when no kept earlier position conflicts with   *)
(* it; for a finite sequence there is one such set.                        *)
Keeps(policy, actions, kept) ==
    \A n \in DOMAIN actions :
        n \in kept <=> \/ policy # "reject"
                       \/ \A m \in kept : m < n => ~Conflicts(actions[m], actions[n])
=============================================================================
