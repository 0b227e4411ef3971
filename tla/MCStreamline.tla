---------------------------- MODULE MCStreamline ----------------------------
EXTENDS Streamline

Config(mode, choice, freeze) == [mode |-> mode, choice |-> choice, freeze |-> freeze]

(* An engine that freezes streams on demotion and one that destroys them. *)
BothConfigs == {Config("round_robin", TRUE, TRUE), Config("sponsor_stream", FALSE, FALSE)}
FreezingConfig == {Config("sponsor_stream", FALSE, TRUE)}

Symmetry == Permutations(Users)

=============================================================================
