----------------------------- MODULE MCSignCmd -----------------------------
EXTENDS SignCmd, TLC

CONSTANTS p1, p2, n1, n2, s, t, u, k1, k2, k3, m1

\* Signatures of the three keys, and bytes that verify for none.
AllBytes == {"b1", "b2", "b3", "old"}
ValidBytes == {<<k1, m1, "b1">>, <<k2, m1, "b2">>, <<k3, m1, "b3">>}

\* From upstream, and signed before the path was rebuilt, twice (as a proxy with
\* this key leaves it).
Stale    == [print |-> m1, sigs |-> <<SigLine(s, "old"), SigLine(u, "b3"), SigLine(s, "b1")>>,
             sig_pqc |-> <<SigLine(s, "old"), SigLine(u, "old")>>]
FreshStale == {Stale}
FreshOrBad == {Stale, Malformed}

\* What is in the cache to begin with, and all that signing makes of it.
SignedOnce(docs) == docs \cup {DualSigned(d, x.name, x.key) :
                                 d \in docs \ {Malformed}, x \in Signers}
AllContents == SignedOnce(SignedOnce(SignedOnce(SignedOnce(Fresh))))

\* Two names; and one of them with a second key.
TwoSigners   == {[name |-> s, key |-> k1], [name |-> t, key |-> k2]}
ThreeSigners == TwoSigners \cup {[name |-> s, key |-> k2]}

Interchange == Permutations({p1, p2}) \cup Permutations({n1, n2})
=============================================================================
