----------------------------- MODULE MCOrganism -----------------------------
(***************************************************************************)
(* Small instances of Organism: one run in restless surroundings, and      *)
(* three runs that compete for run keys and effects in quiet ones.         *)
(***************************************************************************)
EXTENDS Organism, TLC

TwoAdapters == [observer |-> "a", analyst |-> "b"]

Act(expires, exact) == [exact |-> exact, expires |-> expires]
NoActivation == {}
MCRegistries == {NoActivation, {Act(3, FALSE)}, {Act(2, TRUE)}, {Act(1, TRUE), Act(3, TRUE)}}
Rotations == {{Act(2, TRUE)}, {Act(1, TRUE), Act(3, TRUE)}}
Revocation == {NoActivation, {Act(2, TRUE)}}
Steady == {{Act(3, TRUE)}}

MCUsages == {[input |-> 1, output |-> 1], [input |-> 3, output |-> 2], [input |-> 0, output |-> 3]}
OneUsage == {[input |-> 1, output |-> 1]}

\* One run whose context carries no label.
One == 1 :> "key"
OneIssued == 1 :> 0
OneExpires == 1 :> 3
OnePreflight == 1 :> {None, "ACTION_POLICY_INCOMPATIBLE"}

\* A run, the same run again, and one of another root.
Three == 1 :> "key" @@ 2 :> "key" @@ 3 :> "other"
ThreeIssued == 1 :> 0 @@ 2 :> 0 @@ 3 :> 0
ThreeExpires == 1 :> 2 @@ 2 :> 2 @@ 3 :> 2
ThreePreflight == 1 :> {None} @@ 2 :> {None} @@ 3 :> {None}

=============================================================================
