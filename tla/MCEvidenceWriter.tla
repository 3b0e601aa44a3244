-------------------------- MODULE MCEvidenceWriter --------------------------
(***************************************************************************)
(* Small instances of EvidenceWriter: two writers on one journal with a    *)
(* queue and a batch of one record each, or one writer whose batch of two  *)
(* returns to a queue of one.                                              *)
(***************************************************************************)
EXTENDS EvidenceWriter, TLC

CONSTANTS w1, w2, r1, r2, r3, r4

Symmetry == Permutations(Writers) \cup Permutations(Receipts)

AllFaults == {"append", "persist", "rewrite", "crash", "torn"}
WholeLines == AllFaults \ {"torn"}
TornOnly == {"crash", "torn"}
StoreFails == {"persist"}
=============================================================================
