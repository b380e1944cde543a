---------------------------- MODULE MCMembership ----------------------------
\* Model checking of Membership: the requests are interchangeable, and so are
\* the users other than the founder.
EXTENDS Membership, TLC

Symmetry == Permutations(Requests) \cup Permutations(Users \ {Founder})
=============================================================================
