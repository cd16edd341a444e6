----------------------------- MODULE MCPublish -----------------------------
(* A release of two components and a deployment of its own, for TLC.  The  *)
(* backend and the hotfix tag the same repository, on different commits.   *)
EXTENDS Publish

CONSTANTS backend, frontend, hotfix, bundle1, sha1, sha2, sha3

MCOneStep == [b \in {bundle1} |-> <<backend>>]
MCTwoSteps == [b \in {bundle1} |-> <<backend, frontend>>]
MCTagSpace == [d \in Dep |-> IF d = hotfix THEN backend ELSE d]
MCCommitOf == [d \in Dep |-> CASE d = backend -> sha1 [] d = frontend -> sha2 [] OTHER -> sha3]
=============================================================================
