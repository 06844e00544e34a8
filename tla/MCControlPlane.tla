--------------------------- MODULE MCControlPlane ---------------------------
(***************************************************************************)
(* A small instance of the control plane for TLC.                          *)
(***************************************************************************)
EXTENDS ControlPlaneParts, TLC

\* Sets that no module tells apart have the same model values, which keeps the
\* group small.
Symmetry == UNION {Permutations(X) : X \in {Requests, Visitors, Boxes}}
=============================================================================
