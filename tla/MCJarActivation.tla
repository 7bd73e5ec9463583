-------------------------- MODULE MCJarActivation --------------------------
(* JarActivation with two interchangeable activations. *)
EXTENDS JarActivation, TLC
CONSTANTS x1, x2
Activations == Permutations(Activation)
=============================================================================
