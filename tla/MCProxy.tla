------------------------------- MODULE MCProxy -------------------------------
EXTENDS Proxy

CONSTANTS u, s, ku, ks, kx, m

AllBytes == {"bu", "bs", "bx", "y"}
ValidBytes == {<<ku, m, "bu">>, <<ks, m, "bs">>, <<kx, m, "bx">>}

Narinfo(sigs, pqc) == [print |-> m, sigs |-> sigs, sig_pqc |-> pqc]

\* The narinfo cut between two lines, which may be after the last line that
\* these views show.
CutBefore(doc) ==
  {Narinfo(SubSeq(doc.sigs, 1, n), <<>>) : n \in 0..Len(doc.sigs)} \cup
  {Narinfo(doc.sigs, SubSeq(doc.sig_pqc, 1, n)) : n \in 0..Len(doc.sig_pqc)}

\* Signed by another key in the upstream's name; passed through this proxy
\* before; with decoys of the proxy's name up to the cap; and what is left of
\* these when they are cut, above all the upstream's line alone.
AllDocs == UNION {CutBefore(d) : d \in
  {Narinfo(<<SigLine(u, "bx")>>, <<>>),
   Narinfo(<<SigLine(u, "bu"), SigLine(s, "bs")>>, <<SigLine(s, "bs")>>),
   Narinfo(<<SigLine(u, "bu"), SigLine(s, "y")>>, <<SigLine(s, "y"), SigLine(s, "bx")>>)}}

\* A cut in the middle of a line or of a character leaves no narinfo; one
\* before the fault of a body that is none may leave one.
AllCuts == [b \in AllDocs \cup {NotUtf8, Malformed} |->
  {NotUtf8, Malformed} \cup (IF b \in AllDocs THEN CutBefore(b) ELSE AllDocs)]
=============================================================================
