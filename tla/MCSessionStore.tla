--------------------------- MODULE MCSessionStore ---------------------------
(***************************************************************************)
(* SessionStore on a small instance: one mutation that costs no            *)
(* provisioning credit and one that costs all there is.                    *)
(***************************************************************************)
EXTENDS SessionStore, TLC

CONSTANTS command, candidate

MCPayloads == {command, candidate}

MCCharge == [p \in MCPayloads |-> IF p = candidate THEN 1 ELSE 0]

\* Connections are interchangeable, and so are outcomes.
Symmetry == Permutations(Connections) \cup Permutations(Outcomes)

=============================================================================
