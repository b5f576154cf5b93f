---- MODULE MCWriterLock ----
(* Instances of WriterLock for TLC. *)
EXTENDS WriterLock, TLC

CONSTANTS p1, p2, p3, h1, h2

OneHost == [p \in Process |-> h1]
\* p1 is alone in its container, the others share a second one.
TwoHosts == [p \in Process |-> IF p = p1 THEN h1 ELSE h2]
AllContainers == Process
\* Jobs started from a checkout on the host itself.
NoContainer == {}
\* Only p1's container is deployed under /app.
OnlyP1 == {p1}

\* The processes of one container are interchangeable.
Symm == Permutations({p2, p3})
=====
