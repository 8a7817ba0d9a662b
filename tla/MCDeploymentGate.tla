------------------------- MODULE MCDeploymentGate -------------------------
EXTENDS DeploymentGate, TLC

Symmetry == Permutations(Targets) \cup Permutations(Deployers) \cup Permutations(Publishers)
=============================================================================
