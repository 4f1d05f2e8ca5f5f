---------------------------- MODULE MCTcpServer ----------------------------
(* Model values for TcpServer: connections and users are interchangeable.  *)
EXTENDS TcpServer, TLC

Symmetry == Permutations(Conns) \cup Permutations(Users)
=============================================================================
