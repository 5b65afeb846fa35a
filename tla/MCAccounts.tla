------------------------------ MODULE MCAccounts ------------------------------
\* An instance of Accounts for TLC: a root and an admin who are signed in, and one user to come.
EXTENDS Accounts, TLC
CONSTANTS r, a, n, s1, s2, x, y, z

InitialDef == [u \in User |->
    CASE u = r -> [email |-> x, role |-> "root", on |-> TRUE]
      [] u = a -> [email |-> y, role |-> "admin", on |-> TRUE]
      [] OTHER -> NoUser]
SignedInDef == <<<<s1, r>>, <<s2, a>>>>
Symmetry == Permutations(Handler) \cup Permutations(Session \ {s1, s2})
=============================================================================
