SPECIFICATION Spec
CONSTANT Sizes <- MCSizes
INVARIANT SearchAgrees
INVARIANT BestFit
INVARIANT SevenProbes
