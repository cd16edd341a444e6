------------------------- MODULE MCBundlePromotion -------------------------
(* Small releases for TLC: one bundle of one or of two components.         *)
EXTENDS BundleRefinement

CONSTANTS backend, frontend, bundle1

MCOneStep == [b \in {bundle1} |-> <<backend>>]
MCTwoSteps == [b \in {bundle1} |-> <<backend, frontend>>]
\* Every component is promoted once, or the last one twice.
MCOnce == [d \in Dep |-> 1]
MCRetryFrontend == [d \in Dep |-> IF d = frontend THEN 2 ELSE 1]

MCOwnSlots == [d \in Dep |-> d]
=============================================================================
