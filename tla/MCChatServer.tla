---------------------------- MODULE MCChatServer ----------------------------
(* Symmetry sets for the instances of ChatServer.  Descriptors are ordered *)
(* (the kernel hands out the lowest free one), and users can be exchanged  *)
(* only if all or none of them have an account.                            *)
EXTENDS ChatServer, TLC

SymmetryOfConnections == Permutations(Conns) \cup Permutations(Workers)

Symmetry == SymmetryOfConnections \cup Permutations(Users)

=============================================================================
