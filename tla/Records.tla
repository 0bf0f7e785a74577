------------------------------ MODULE Records ------------------------------
\* The record of the fields of e, and of those of f that e does not have.
e ++ f == [x \in DOMAIN e \cup DOMAIN f |-> IF x \in DOMAIN e THEN e[x] ELSE f[x]]
=============================================================================
