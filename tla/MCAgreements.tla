----------------------------- MODULE MCAgreements -----------------------------
(* Small instances of the agreements for TLC: one buyer with one deal room,  *)
(* and a buyer with two deal rooms beside another buyer.                     *)
EXTENDS AgreementChains

OneRoom == [r \in {"r1"} |-> "b1"]

TwoBuyers == [r \in {"r1", "r2", "r3"} |-> IF r = "r3" THEN "b2" ELSE "b1"]
=============================================================================
