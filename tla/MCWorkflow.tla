----------------------------- MODULE MCWorkflow -----------------------------
(* Instances of Workflow for TLC: every graph over two nodes with at most  *)
(* MaxEdges edges.                                                         *)
EXTENDS Workflow
=============================================================================
