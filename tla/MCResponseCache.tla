-------------------------- MODULE MCResponseCache --------------------------
EXTENDS ResponseCache, TLC

\* Servers are interchangeable, and so are requests.
Symmetry == Permutations(Server) \cup Permutations(Request)
=============================================================================
