-------------------------- MODULE BundleRefinement --------------------------
(***************************************************************************)
(* BundlePromotion implements PromotionLedger: every behaviour of the      *)
(* sessions, the rows, the wire and Drone is one of the ledger, once the   *)
(* rows are read as what they claim and Drone as what it accepted.         *)
(***************************************************************************)
EXTENDS BundlePromotion

AcceptedDeps == {d \in Dep : Accepted(d)}
DoneDeps == {d \in Dep : row[d].status = "SUCCESS"}
Written == [b \in Bundle |-> CASE bundle[b] = "SUCCESS"         -> "released"
                               [] bundle[b] = "PARTIAL_FAILURE" -> "partly"
                               [] OTHER                         -> "open"]

Ledger == INSTANCE PromotionLedger WITH
  attempt <- attempts, asked <- log, accepted <- AcceptedDeps,
  done <- DoneDeps, verdict <- Written

\* The release process promises the ledger and keeps it: whatever sessions,
\* late answers and crashes do, each step is a true entry, a request that was
\* never made before, an acceptance by Drone, or nothing at all.
ImplementsLedger == Ledger!Spec
=============================================================================
