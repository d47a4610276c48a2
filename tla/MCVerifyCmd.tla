----------------------------- MODULE MCVerifyCmd -----------------------------
EXTENDS TestVectors

CONSTANTS n, o, k1, k2, m

AllBytes == {"s1", "s2", "x", "y"}
ValidBytes == {t \in {<<k1, m, "s1">>, <<k2, m, "s2">>} : t[1] \in Keys}

Line(name, form, sig) == [name |-> name, form |-> form, sig |-> sig]

\* The right line, two decoys of the right name, the right bytes under another
\* name, and lines that do not decode.
SigLines == {Line(n, "good", "s1"), Line(n, "good", "x"), Line(n, "good", "y"),
             Line(o, "good", "s1")}
PqcLines == {Line(n, "good", "s1"), Line(n, "good", "x"), Line(n, "good", "y"),
             Line(n, "unknown_tag", "s1"), Line(o, "good", "s1")}
UpTo(S, max) == UNION {[1..len -> S] : len \in 0..max}

AllInputs == [print : {m}, sigs : UpTo(SigLines, 3), sig_pqc : UpTo(PqcLines, 3)]
             \cup {Malformed}

\* Every form of undecodable line next to the right one.
OddSig == {Line(n, f, "s1") : f \in {"not_base64", "empty", "wrong_length", "good"}}
          \cup {Line(NoName, "no_colon", "x")}
OddPqc == {Line(n, f, "s1") : f \in Forms \ {"no_colon"}} \cup {Line(NoName, "no_colon", "x")}
OddInputs == [print : {m}, sigs : UpTo(OddSig, 2), sig_pqc : UpTo(OddPqc, 2)]

\* A line of another name with the right bytes, and one nobody can read.
AllNoise == {<<>>, <<Line(o, "good", "s1")>>, <<Line(n, "unknown_tag", "s1")>>}

TableInputs == AllInputs \cup OddInputs \cup {v.info : v \in Cases}
=============================================================================
