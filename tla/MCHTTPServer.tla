---------------------------- MODULE MCHTTPServer ----------------------------
(* Instances of HTTPServer for TLC. *)
EXTENDS HTTPServer, TLC

\* Connections are interchangeable: CHOOSE is applied to none of them.
ConnSymmetry == Permutations(Conns)
=============================================================================
