----------------------------- MODULE MCBackend -----------------------------
(* Backend with two connections, and two users of whom one has signed up. *)
EXTENDS Backend, TLC

CONSTANTS c1, c2, ann, bob, secret, hero, blob

MCConn == {c1, c2}

MCHashOf(password) == <<"bcrypt", password>>

MCHash == {MCHashOf(secret)}

MCInitialUsers == {[id |-> 1, name |-> ann, password |-> MCHashOf(secret)]}

\* No two bytes are alike, and every number fits into TLC's integers.
MCStats == {[i \in 0..55 |-> i + 1], [i \in 0..55 |-> 56 + i]}

\* The lobby's side of the sessions is left to the other run.
AccountsOnly ==
    \A c \in Conn : session[c].ws # "closed" /\ session[c].observer = "none"

Symmetry == Permutations(MCConn)
=============================================================================
