--------------------------- MODULE PipelineProofs ---------------------------
(***************************************************************************)
(* Proofs about Pipeline.  PipeInv is inductive: every line says something *)
(* that an original or an edit said, and every signature in the text was   *)
(* made by its signer.  So Pipeline implements Provenance, its types hold, *)
(* what is believed is as signed, and another layout changes nothing below *)
(* the cap on candidates; a hop loses nothing that it does not replace.    *)
(***************************************************************************)
EXTENDS Pipeline, NarInfoTextProofs

\* Whom the lines of a document prove to have signed it, as a question of which
\* lines there are, and not of their number or order.
EdBy(s, print, L) ==
  \E l \in L : l.name = s.name /\ DecodesSig(l) /\ <<s.key, print, l.sig>> \in EdValid
MlBy(s, print, L) ==
  \E l \in L : l.name = s.name /\ DecodesSigPqc(l) /\ <<s.key, print, l.sig>> \in MlValid
BeliefIn(print, L, M) ==
  {b \in Everyone \X {"classical", "hybrid"} :
     EdBy(b[1], print, L) /\ (b[2] = "hybrid" => MlBy(b[1], print, M))}

\* The different candidates of a name among lines, and their number.
EdSigs(L, name) == {l.sig : l \in {x \in L : x.name = name /\ DecodesSig(x)}}
MlSigs(L, name) == {l.sig : l \in {x \in L : x.name = name /\ DecodesSigPqc(x)}}
CandidatesAmong(L, M, name) ==
  LET ed == Cardinality(EdSigs(L, name))
      ml == Cardinality(MlSigs(M, name))
  IN  IF ed < ml THEN ml ELSE ed

\* What a text's lines say is finite, and what the candidates are counted among.
LEMMA CandidatesOfText ==
  ASSUME NEW t, IsText(t)
  PROVE  /\ \A k : IsFiniteSet(Sayings(t, k))
         /\ Candidates(t) =
              [n \in Names |-> CandidatesAmong(Sayings(t, "Sig"), Sayings(t, "Sig-PQC"), n)]
<1>1. Len(t) \in Nat /\ DOMAIN t = 1 .. Len(t)
  BY DEF IsText
<1>2. ASSUME NEW k PROVE IsFiniteSet(Sayings(t, k)) /\ SaysOf(t, k) = Sayings(t, k)
  <2> DEFINE I == {j \in 1 .. Len(t) : SaysKey(t[j], k)}
             f == [i \in I |-> t[i].value]
  <2>1. IsFiniteSet(I)
    <3>1. IsFiniteSet(1 .. Len(t)) /\ I \in SUBSET (1 .. Len(t))
      BY <1>1, FS_Interval
    <3> HIDE DEF I
    <3> QED
      BY <3>1, FS_Subset
  <2>2. f \in Surjection(I, Sayings(t, k))
    BY DEF Surjection, Sayings
  <2>3. IsFiniteSet(Sayings(t, k))
    BY <2>1, <2>2, FS_Surjection
  <2> QED
    BY <1>1, <2>3 DEF SaysOf, Sayings, SaysKey
<1>3. /\ \A n : EdSigs(Sayings(t, "Sig"), n) =
                  {l.sig : l \in {x \in SaysOf(t, "Sig") : x.name = n /\ DecodesSig(x)}}
      /\ \A n : MlSigs(Sayings(t, "Sig-PQC"), n) =
                  {l.sig : l \in {x \in SaysOf(t, "Sig-PQC") : x.name = n /\ DecodesSigPqc(x)}}
  BY <1>2 DEF EdSigs, MlSigs
<1>4. Candidates(t) = [n \in Names |-> CandidatesAmong(Sayings(t, "Sig"), Sayings(t, "Sig-PQC"), n)]
  BY <1>3 DEF Candidates, CandidatesAmong
<1> QED
  BY <1>2, <1>4

\* A line less is at most one candidate less, and a line of one name more is at
\* most one candidate of that name more.
LEMMA CandidatesCount ==
  ASSUME NEW L, NEW M, IsFiniteSet(L), IsFiniteSet(M), NEW name
  PROVE  /\ IsFiniteSet(EdSigs(L, name)) /\ IsFiniteSet(MlSigs(M, name))
         /\ Cardinality(EdSigs(L, name)) \in Nat /\ Cardinality(MlSigs(M, name)) \in Nat
         /\ CandidatesAmong(L, M, name) \in Nat
         /\ Cardinality(EdSigs(L, name)) =< CandidatesAmong(L, M, name)
         /\ Cardinality(MlSigs(M, name)) =< CandidatesAmong(L, M, name)
         /\ \A K \in SUBSET L, N \in SUBSET M :
              CandidatesAmong(K, N, name) =< CandidatesAmong(L, M, name)
<1>1. ASSUME NEW K, IsFiniteSet(K)
      PROVE  /\ IsFiniteSet(EdSigs(K, name)) /\ Cardinality(EdSigs(K, name)) \in Nat
             /\ IsFiniteSet(MlSigs(K, name)) /\ Cardinality(MlSigs(K, name)) \in Nat
  <2> DEFINE A == {x \in K : x.name = name /\ DecodesSig(x)}
             B == {x \in K : x.name = name /\ DecodesSigPqc(x)}
  <2>1. IsFiniteSet(A) /\ IsFiniteSet(B)
    BY <1>1, FS_Subset
  <2>2. /\ [x \in A |-> x.sig] \in Surjection(A, EdSigs(K, name))
        /\ [x \in B |-> x.sig] \in Surjection(B, MlSigs(K, name))
    BY DEF Surjection, EdSigs, MlSigs
  <2>3. IsFiniteSet(EdSigs(K, name)) /\ IsFiniteSet(MlSigs(K, name))
    BY <2>1, <2>2, FS_Surjection
  <2> QED
    BY <2>3, FS_CardinalityType
<1>2. ASSUME NEW K \in SUBSET L, NEW N \in SUBSET M
      PROVE  /\ Cardinality(EdSigs(K, name)) =< Cardinality(EdSigs(L, name))
             /\ Cardinality(MlSigs(N, name)) =< Cardinality(MlSigs(M, name))
             /\ Cardinality(EdSigs(K, name)) \in Nat /\ Cardinality(MlSigs(N, name)) \in Nat
  <2>1. EdSigs(K, name) \in SUBSET EdSigs(L, name) /\ MlSigs(N, name) \in SUBSET MlSigs(M, name)
    BY DEF EdSigs, MlSigs
  <2>2. IsFiniteSet(K) /\ IsFiniteSet(N)
    BY FS_Subset
  <2> QED
    BY <1>1, <2>1, <2>2, FS_Subset
<1> QED
  BY <1>1, <1>2 DEF CandidatesAmong

LEMMA CandidatesOfHop ==
  ASSUME NEW L, NEW M, IsFiniteSet(L), IsFiniteSet(M), NEW ed, NEW ml, ed.name = ml.name,
         DecodesSig(ed), DecodesSigPqc(ml), NEW name
  PROVE  LET new == CandidatesAmong({l \in L : l.name # ed.name} \cup {ed},
                                    {l \in M : l.name # ed.name} \cup {ml}, name)
             more == CandidatesAmong(L \cup {ed}, M \cup {ml}, name)
             old == CandidatesAmong(L, M, name)
         IN  /\ name # ed.name => new = old /\ more = old
             /\ name = ed.name => new = 1 /\ more \in {old, old + 1}
<1> DEFINE L2 == {l \in L : l.name # ed.name} \cup {ed}
           M2 == {l \in M : l.name # ed.name} \cup {ml}
<1>1. CASE name # ed.name
  <2>1. /\ EdSigs(L2, name) = EdSigs(L, name) /\ EdSigs(L \cup {ed}, name) = EdSigs(L, name)
        /\ MlSigs(M2, name) = MlSigs(M, name) /\ MlSigs(M \cup {ml}, name) = MlSigs(M, name)
    BY <1>1 DEF EdSigs, MlSigs
  <2> QED
    BY <1>1, <2>1 DEF CandidatesAmong
<1>2. CASE name = ed.name
  <2>1. /\ EdSigs(L2, name) = {ed.sig} /\ EdSigs(L \cup {ed}, name) = EdSigs(L, name) \cup {ed.sig}
        /\ MlSigs(M2, name) = {ml.sig} /\ MlSigs(M \cup {ml}, name) = MlSigs(M, name) \cup {ml.sig}
    BY <1>2 DEF EdSigs, MlSigs
  <2> HIDE DEF L2, M2
  <2>2. Cardinality({ed.sig}) = 1 /\ Cardinality({ml.sig}) = 1
    BY FS_Singleton
  <2>3. CandidatesAmong(L2, M2, name) = 1
    BY <2>1, <2>2 DEF CandidatesAmong
  <2>4. /\ Cardinality(EdSigs(L, name)) \in Nat /\ Cardinality(MlSigs(M, name)) \in Nat
        /\ IsFiniteSet(EdSigs(L, name)) /\ IsFiniteSet(MlSigs(M, name))
    BY CandidatesCount
  <2> DEFINE e == Cardinality(EdSigs(L, name))
             m == Cardinality(MlSigs(M, name))
             f == Cardinality(EdSigs(L \cup {ed}, name))
             n == Cardinality(MlSigs(M \cup {ml}, name))
  <2>5. e \in Nat /\ m \in Nat /\ f \in {e, e + 1} /\ n \in {m, m + 1}
    BY <2>1, <2>4, FS_AddElement
  <2>6. /\ CandidatesAmong(L \cup {ed}, M \cup {ml}, name) = IF f < n THEN n ELSE f
        /\ CandidatesAmong(L, M, name) = IF e < m THEN m ELSE e
    BY DEF CandidatesAmong
  <2> HIDE DEF e, m, f, n
  <2>7. (IF f < n THEN n ELSE f) \in {IF e < m THEN m ELSE e, (IF e < m THEN m ELSE e) + 1}
    BY <2>5
  <2> QED
    BY <1>2, <2>3, <2>6, <2>7 DEF L2, M2
<1> QED
  BY <1>1, <1>2

\* The candidates of verify_hybrid are those of the lines.
LEMMA CandidatesAsSets ==
  ASSUME NEW v, IsList(v.sigs), IsList(v.sig_pqc), NEW name
  PROVE  /\ Payloads(v.sigs, SigCandidates(v.sigs, name)) = EdSigs(ToSet(v.sigs), name)
         /\ Payloads(v.sig_pqc, PqcCandidates(v.sig_pqc, name)) = MlSigs(ToSet(v.sig_pqc), name)
         /\ IsFiniteSet(ToSet(v.sigs)) /\ IsFiniteSet(ToSet(v.sig_pqc))
<1>1. ASSUME NEW l, IsList(l) PROVE IsFiniteSet(ToSet(l))
  <2>1. Len(l) \in Nat /\ DOMAIN l = 1 .. Len(l)
    BY <1>1 DEF IsList
  <2>2. [i \in 1 .. Len(l) |-> l[i]] \in Surjection(1 .. Len(l), ToSet(l))
    BY <2>1 DEF Surjection, ToSet
  <2> QED
    BY <2>1, <2>2, FS_Interval, FS_Surjection
<1>2. Payloads(v.sigs, SigCandidates(v.sigs, name)) = EdSigs(ToSet(v.sigs), name)
  BY DEF Payloads, SigCandidates, EdSigs, ToSet
<1>3. Payloads(v.sig_pqc, PqcCandidates(v.sig_pqc, name)) = MlSigs(ToSet(v.sig_pqc), name)
  BY DEF Payloads, PqcCandidates, MlSigs, ToSet
<1> QED
  BY <1>1, <1>2, <1>3

\* verify believes nobody but those whose lines are there: by the classical
\* algorithm all of them, and by both those of the names that are below the cap.
LEMMA BeliefIs ==
  ASSUME NEW v, IsList(v.sigs), IsList(v.sig_pqc)
  PROVE  LET L == ToSet(v.sigs)
             M == ToSet(v.sig_pqc)
         IN  /\ Accepted(v) \subseteq BeliefIn(v.print, L, M)
             /\ \A s \in Everyone :
                  /\ <<s, "classical">> \in Accepted(v) <=> EdBy(s, v.print, L)
                  /\ <<s, "hybrid">> \in Accepted(v) <=> VerifyHybrid(v, s.name, s.key)
                  /\ CandidatesAmong(L, M, s.name) =< MaxSigCandidates =>
                       (<<s, "hybrid">> \in Accepted(v) <=> <<s, "hybrid">> \in BeliefIn(v.print, L, M))
<1> DEFINE L == ToSet(v.sigs)
           M == ToSet(v.sig_pqc)
<1>1. MaxSigCandidates \in Nat /\ NoName \notin Names
  BY SignaturesOK
<1>2. ASSUME NEW s \in Everyone
      PROVE  ClassicalOk(v, s.name, s.key) <=> EdBy(s, v.print, L)
  <2>1. s.name # NoName
    BY <1>1, PipelineOK DEF Everyone
  <2> QED
    BY <2>1 DEF ClassicalOk, VerifyEd25519Sig, EdBy, ToSet, DecodesSig
<1>3. ASSUME NEW s \in Everyone
      PROVE  AnyPairing(v, s.name, s.key) <=> EdBy(s, v.print, L) /\ MlBy(s, v.print, M)
  BY DEF AnyPairing, PairVerifies, EdBy, MlBy, ToSet
<1>4. ASSUME NEW s \in Everyone, CandidatesAmong(L, M, s.name) =< MaxSigCandidates
      PROVE  UnderCap(v, s.name)
  <2>1. /\ Cardinality(EdSigs(L, s.name)) \in Nat /\ Cardinality(MlSigs(M, s.name)) \in Nat
        /\ CandidatesAmong(L, M, s.name) \in Nat
        /\ Cardinality(EdSigs(L, s.name)) =< CandidatesAmong(L, M, s.name)
        /\ Cardinality(MlSigs(M, s.name)) =< CandidatesAmong(L, M, s.name)
    BY CandidatesAsSets, CandidatesCount
  <2>2. /\ Cardinality(EdSigs(L, s.name)) =< MaxSigCandidates
        /\ Cardinality(MlSigs(M, s.name)) =< MaxSigCandidates
    BY <1>1, <1>4, <2>1
  <2> QED
    BY <2>2, CandidatesAsSets DEF UnderCap
<1>5. ASSUME NEW s \in Everyone
      PROVE  /\ VerifyHybrid(v, s.name, s.key) => AnyPairing(v, s.name, s.key)
             /\ UnderCap(v, s.name) /\ AnyPairing(v, s.name, s.key) => VerifyHybrid(v, s.name, s.key)
  <2> DEFINE S == Entries(v.sigs) \cup Entries(v.sig_pqc)
  <2>1. v.sigs \in Seq(S) /\ v.sig_pqc \in Seq(S)
    BY ListIsSeq, SeqMonotonic
  <2> HIDE DEF S
  <2> QED
    BY <2>1, HalvesMakeAPair, PairIsFoundAmong
<1> HIDE DEF L, M
<1>6. ASSUME NEW s \in Everyone
      PROVE  /\ <<s, "classical">> \in Accepted(v) <=> EdBy(s, v.print, L)
             /\ <<s, "hybrid">> \in Accepted(v) <=> VerifyHybrid(v, s.name, s.key)
  BY <1>2 DEF Accepted
<1>7. ASSUME NEW s \in Everyone
      PROVE  /\ <<s, "classical">> \in BeliefIn(v.print, L, M) <=> EdBy(s, v.print, L)
             /\ <<s, "hybrid">> \in BeliefIn(v.print, L, M) <=>
                  EdBy(s, v.print, L) /\ MlBy(s, v.print, M)
  BY DEF BeliefIn
<1>8. \A b \in Accepted(v) : \E s \in Everyone : b \in {<<s, "classical">>, <<s, "hybrid">>}
  BY DEF Accepted
<1>9. Accepted(v) \subseteq BeliefIn(v.print, L, M)
  BY <1>3, <1>5, <1>6, <1>7, <1>8
<1>10. ASSUME NEW s \in Everyone, CandidatesAmong(L, M, s.name) =< MaxSigCandidates
       PROVE  <<s, "hybrid">> \in Accepted(v) <=> <<s, "hybrid">> \in BeliefIn(v.print, L, M)
  BY <1>3, <1>4, <1>5, <1>6, <1>7, <1>10
<1> QED
  BY <1>6, <1>9, <1>10 DEF L, M
-----------------------------------------------------------------------------
\* What a line may say after any number of edits: what some line said of its
\* key at the start, what an edit makes of it, or what to_text writes for none.
CanBe(k) == Said(k) \cup {Default(k)}
Orders == {InOrder(SplitReferences(v)) : v \in Said("References") \cup {Empty}}
RefsOK(v) == v = Empty \/ (v \in Seq(Nat) \ {<<>>} /\ InOrder(v) \in Orders)

FieldOK(l) ==
  /\ l.key \in {"StorePath", "NarHash", "NarSize"} => l.value \in CanBe(l.key)
  /\ l.key = "References" => RefsOK(l.value)
LineOK(l) ==
  /\ FieldOK(l)
  /\ l.layout \in Layouts
  /\ l.key \in {"Sig", "Sig-PQC"} => l.value \in Lines
FieldsOK(t) == IsText(t) /\ \A i \in 1 .. Len(t) : FieldOK(t[i])
TextOK(t) == IsText(t) /\ \A i \in 1 .. Len(t) : LineOK(t[i])

\* The part that does not look at signatures.
LEMMA TextSays == ASSUME NEW t, TextOK(t) PROVE FieldsOK(t)
BY DEF TextOK, FieldsOK, LineOK

\* What an original or an edit says in place of the references is in order.
LEMMA SaidReferences == ASSUME NEW v \in Said("References") PROVE RefsOK(v)
BY PipelineOK DEF RefsOK, Orders, SplitReferences

\* What such a text means is sayable.
LEMMA MeansSayable ==
  ASSUME NEW t, FieldsOK(t)
  PROVE  /\ \A k \in {"StorePath", "NarHash", "NarSize"} : Means(t, k) \in CanBe(k)
         /\ RefsOK(Means(t, "References"))
<1>1. IsText(t) /\ \A i \in 1 .. Len(t) : FieldOK(t[i])
  BY DEF FieldsOK
<1>2. ASSUME NEW k
      PROVE  \/ Means(t, k) = DefaultOf(k)
             \/ \E i \in 1 .. Len(t) : t[i].key = k /\ Means(t, k) = t[i].value
  BY <1>1, LastWritten DEF LastSaid, SaysKey, Means
<1>3. \A k \in {"StorePath", "NarHash", "NarSize"} : DefaultOf(k) = Default(k)
  BY DEF DefaultOf
<1>4. DefaultOf("References") = Empty
  BY DEF DefaultOf
<1> QED
  BY <1>1, <1>2, <1>3, <1>4 DEF FieldOK, CanBe, RefsOK

\* So every text that verify or sign get to see says one of the documents.
LEMMA PrintSayable ==
  ASSUME NEW t, FieldsOK(t), Usable(Parse(t))
  PROVE  LET info == Parse(t)
         IN  /\ Doc(info) \in Docs
             /\ Fingerprint(info) = SignedText(Doc(info)) /\ Fingerprint(info) \in Prints
             /\ \A k \in {"StorePath", "NarHash", "NarSize"} : info.field[k] \in CanBe(k)
             /\ info.references \in Seq(Nat) /\ InOrder(info.references) \in Orders
<1> DEFINE info == Parse(t)
<1>1. IsText(t) /\ info # Malformed /\ info.field["StorePath"] \in DOMAIN StoreDir
  BY DEF FieldsOK, Usable, HasStoreDir
<1>2. /\ \A k \in Always \cup Optional : info.field[k] = Means(t, k)
      /\ info.references = SplitReferences(Means(t, "References"))
  BY <1>1, ParseSays
<1>3. Parsed(info)
  BY <1>1, ParseGives
<1> HIDE DEF info
<1>4. {"StorePath", "NarHash", "NarSize"} \subseteq Always \cup Optional
  BY DEF Always
<1>5. \A k \in {"StorePath", "NarHash", "NarSize"} : info.field[k] \in CanBe(k)
  BY <1>2, <1>4, MeansSayable
<1>6. /\ info.field["NarSize"] \in Nat
      /\ info.field["StorePath"] # Empty /\ info.field["NarHash"] # Empty
  BY <1>3 DEF Parsed
<1>7. /\ info.field["StorePath"] \in Said("StorePath") \cap DOMAIN StoreDir
      /\ info.field["NarHash"] \in Said("NarHash") \ {Empty}
      /\ info.field["NarSize"] \in {n \in Said("NarSize") : n \in Nat} \cup {0}
  <2>1. /\ Default("StorePath") = Empty /\ Default("NarHash") = Empty /\ Default("NarSize") = 0
    BY DEF Default, Always
  <2> QED
    BY <1>1, <1>5, <1>6, <2>1 DEF CanBe
<1>8. info.references \in Seq(Nat) /\ InOrder(info.references) \in Orders
  <2>1. SplitReferences(Empty) = <<>> /\ <<>> \in Seq(Nat)
    BY DEF SplitReferences
  <2>2. InOrder(SplitReferences(Empty)) \in Orders
    BY DEF Orders
  <2>3. RefsOK(Means(t, "References"))
    BY MeansSayable
  <2> QED
    BY <1>2, <2>1, <2>2, <2>3 DEF RefsOK, SplitReferences
<1>9. Doc(info) \in Docs
  BY <1>7, <1>8 DEF Doc, Docs, Orders
<1>10. Fingerprint(info) = SignedText(Doc(info)) /\ Fingerprint(info) \in Prints
  BY <1>9, PipelineOK DEF Fingerprint, PrintOf
<1> QED
  BY <1>5, <1>8, <1>9, <1>10 DEF info

\* s has signed, at this level, a document with this fingerprint.
Signed(signed, s, level, print) ==
  \E d \in Docs : <<s, level, d>> \in signed /\ SignedText(d) = print

\* Every entry that verifies for a signer is one that signer made, for a document
\* with that fingerprint.
Behind(L, M, signed) ==
  /\ \A l \in L, s \in Everyone, m \in Prints :
       l.name = s.name /\ <<s.key, m, l.sig>> \in EdValid => Signed(signed, s, "classical", m)
  /\ \A l \in M, s \in Everyone, m \in Prints :
       l.name = s.name /\ <<s.key, m, l.sig>> \in MlValid => Signed(signed, s, "hybrid", m)

\* So whoever is believed of a fingerprint has signed a document that has it.
LEMMA BelievedIsBehind ==
  ASSUME NEW L, NEW M, NEW signed, Behind(L, M, signed), NEW print \in Prints,
         NEW b \in BeliefIn(print, L, M)
  PROVE  Signed(signed, b[1], b[2], print)
<1>1. /\ b[1] \in Everyone /\ b[2] \in {"classical", "hybrid"} /\ EdBy(b[1], print, L)
      /\ b[2] = "hybrid" => MlBy(b[1], print, M)
  BY DEF BeliefIn
<1>2. CASE b[2] = "classical"
  BY <1>1, <1>2 DEF EdBy, Behind
<1>3. CASE b[2] = "hybrid"
  BY <1>1, <1>3 DEF MlBy, Behind
<1> QED
  BY <1>1, <1>2, <1>3

\* What verify believes of a text, from its lines.
LEMMA BelievedIs ==
  ASSUME NEW t, IsText(t), Usable(Parse(t))
  PROVE  LET print == Fingerprint(Parse(t))
             L == Sayings(t, "Sig")
             M == Sayings(t, "Sig-PQC")
         IN  /\ Believed(t) \subseteq BeliefIn(print, L, M)
             /\ \A s \in Everyone :
                  /\ <<s, "classical">> \in Believed(t) <=> EdBy(s, print, L)
                  /\ Candidates(t)[s.name] =< MaxSigCandidates =>
                       (<<s, "hybrid">> \in Believed(t) <=> <<s, "hybrid">> \in BeliefIn(print, L, M))
<1> DEFINE info == Parse(t)
           L == Sayings(t, "Sig")
           M == Sayings(t, "Sig-PQC")
<1>1. /\ info # Malformed /\ Believed(t) = Accepted(View(info))
      /\ Candidates(t) = [n \in Names |-> CandidatesAmong(L, M, n)]
  BY CandidatesOfText DEF Usable, Believed
<1>2. ToSet(info.sigs) = L /\ ToSet(info.sig_pqc) = M /\ IsList(info.sigs) /\ IsList(info.sig_pqc)
  BY <1>1, ParseSays, ParseGives DEF Parsed
<1> DEFINE v == View(info)
<1>3. v.sigs = info.sigs /\ v.sig_pqc = info.sig_pqc /\ v.print = Fingerprint(info)
  BY DEF View
<1> HIDE DEF info, v, L, M
<1>4. ToSet(v.sigs) = L /\ ToSet(v.sig_pqc) = M /\ IsList(v.sigs) /\ IsList(v.sig_pqc)
  BY <1>2, <1>3
<1>5. Accepted(v) \subseteq BeliefIn(v.print, ToSet(v.sigs), ToSet(v.sig_pqc))
  BY <1>4, BeliefIs
<1>6. ASSUME NEW s \in Everyone
      PROVE  /\ <<s, "classical">> \in Accepted(v) <=> EdBy(s, v.print, L)
             /\ Candidates(t)[s.name] =< MaxSigCandidates =>
                  (<<s, "hybrid">> \in Accepted(v) <=> <<s, "hybrid">> \in BeliefIn(v.print, L, M))
  <2>1. <<s, "classical">> \in Accepted(v) <=> EdBy(s, v.print, ToSet(v.sigs))
    BY <1>4, BeliefIs
  <2>2. CandidatesAmong(ToSet(v.sigs), ToSet(v.sig_pqc), s.name) =< MaxSigCandidates =>
          (<<s, "hybrid">> \in Accepted(v) <=>
             <<s, "hybrid">> \in BeliefIn(v.print, ToSet(v.sigs), ToSet(v.sig_pqc)))
    BY <1>4, BeliefIs
  <2>3. s.name \in Names
    BY PipelineOK DEF Everyone
  <2>4. Candidates(t)[s.name] = CandidatesAmong(L, M, s.name)
    BY <1>1, <2>3
  <2> QED
    BY <1>4, <2>1, <2>2, <2>4
<1>7. /\ Believed(t) \subseteq BeliefIn(Fingerprint(info), L, M)
      /\ \A s \in Everyone :
           /\ <<s, "classical">> \in Believed(t) <=> EdBy(s, Fingerprint(info), L)
           /\ Candidates(t)[s.name] =< MaxSigCandidates =>
                (<<s, "hybrid">> \in Believed(t) <=>
                   <<s, "hybrid">> \in BeliefIn(Fingerprint(info), L, M))
  BY <1>1, <1>3, <1>4, <1>5, <1>6 DEF v
<1> QED
  BY <1>7 DEF info, L, M
-----------------------------------------------------------------------------
\* A signer's own lines verify for that signer and that fingerprint only.
LEMMA OwnLines ==
  ASSUME NEW s \in Everyone, NEW print \in Prints
  PROVE  LET ed == SigLine(s.name, EdSign(s.key, print))
             ml == SigLine(s.name, MlSign(s.key, print))
         IN  /\ ed \in Lines /\ ed.name = s.name /\ DecodesSig(ed)
             /\ <<s.key, print, ed.sig>> \in EdValid
             /\ ml \in Lines /\ ml.name = s.name /\ DecodesSigPqc(ml)
             /\ <<s.key, print, ml.sig>> \in MlValid
             /\ \A m : \A x \in Everyone : ed.name = x.name /\ <<x.key, m, ed.sig>> \in EdValid =>
                  x = s /\ m = print
             /\ \A m : \A x \in Everyone : ml.name = x.name /\ <<x.key, m, ml.sig>> \in MlValid =>
                  x = s /\ m = print
<1> DEFINE ed == SigLine(s.name, EdSign(s.key, print))
           ml == SigLine(s.name, MlSign(s.key, print))
<1>1. \A x \in Everyone : /\ x = [name |-> x.name, key |-> x.key]
                          /\ x.name \in Names /\ x.key \in Keys
  BY PipelineOK DEF Everyone
<1>2. /\ <<s.key, print, EdSign(s.key, print)>> \in EdValid /\ ed \in Lines
      /\ <<s.key, print, MlSign(s.key, print)>> \in MlValid /\ ml \in Lines
  BY <1>1, OwnSignatures
<1>3. /\ ed.name = s.name /\ ed.sig = EdSign(s.key, print) /\ ed.form = "good"
      /\ ml.name = s.name /\ ml.sig = MlSign(s.key, print) /\ ml.form = "good"
  BY DEF SigLine
<1> HIDE DEF ed, ml
<1>4. DecodesSig(ed) /\ DecodesSigPqc(ml)
  BY <1>3 DEF DecodesSig, DecodesSigPqc, ParsesSigEntry, KnownTag
<1>5. ASSUME NEW Valid, Unforgeable(Valid), NEW sig, <<s.key, print, sig>> \in Valid,
             NEW x \in Everyone, x.name = s.name, NEW m, <<x.key, m, sig>> \in Valid
      PROVE  x = s /\ m = print
  <2>1. <<x.key, m, sig>> = <<s.key, print, sig>>
    BY <1>5 DEF Unforgeable
  <2>2. x.key = s.key /\ m = print
    BY <2>1
  <2> QED
    BY <1>1, <1>5, <2>2
<1>6. Unforgeable(EdValid) /\ Unforgeable(MlValid)
  BY PipelineOK
<1> QED
  BY <1>2, <1>3, <1>4, <1>5, <1>6 DEF ed, ml

\* Whom a document is believed of when s has signed it, in place of the lines
\* of its name or after them.
Both(s) == {<<s, "classical">>, <<s, "hybrid">>}

\* The lines as sets.
LEMMA LinesAsSets ==
  ASSUME NEW l, IsList(l), NEW e
  PROVE  /\ IsList(Append(l, e)) /\ ToSet(Append(l, e)) = ToSet(l) \cup {e}
         /\ IsList(Append(Others(l, e.name), e))
         /\ ToSet(Append(Others(l, e.name), e)) = {x \in ToSet(l) : x.name # e.name} \cup {e}
<1> DEFINE S == Entries(l) \cup {e}
           o == Others(l, e.name)
<1>1. l \in Seq(S) /\ e \in S
  BY ListIsSeq, SeqMonotonic
<1> HIDE DEF S
<1>2. ASSUME NEW k \in Seq(S)
      PROVE  IsList(Append(k, e)) /\ ToSet(Append(k, e)) = ToSet(k) \cup {e}
  <2>1. /\ Append(k, e) \in Seq(S) /\ Len(Append(k, e)) = Len(k) + 1
        /\ \A i \in 1 .. Len(k) : Append(k, e)[i] = k[i]
        /\ Append(k, e)[Len(k) + 1] = e
    BY <1>1, AppendProperties
  <2>2. /\ Len(k) \in Nat /\ DOMAIN k = 1 .. Len(k)
        /\ DOMAIN Append(k, e) = 1 .. Len(k) + 1
    BY <2>1, LenProperties
  <2>3. 1 .. Len(k) + 1 = (1 .. Len(k)) \cup {Len(k) + 1}
    BY <2>2
  <2>4. IsList(Append(k, e))
    BY <2>1, SeqIsList
  <2> DEFINE a == Append(k, e)
  <2> HIDE DEF a
  <2>5. ToSet(a) = ToSet(k) \cup {e}
    <3>1. DOMAIN a = (1 .. Len(k)) \cup {Len(k) + 1} /\ (\A i \in 1 .. Len(k) : a[i] = k[i])
          /\ a[Len(k) + 1] = e
      BY <2>1, <2>2, <2>3 DEF a
    <3> QED
      BY <2>2, <3>1 DEF ToSet
  <2> QED
    BY <2>4, <2>5 DEF a
<1>3. /\ o \in Seq(S)
      /\ \A i \in DOMAIN o : o[i].name # e.name /\ \E j \in DOMAIN l : l[j] = o[i]
      /\ \A j \in DOMAIN l : l[j].name # e.name => \E i \in DOMAIN o : o[i] = l[j]
  BY <1>1, OthersKeeps
<1> HIDE DEF o
<1>4. ToSet(o) = {x \in ToSet(l) : x.name # e.name}
  BY <1>3 DEF ToSet
<1> QED
  BY <1>1, <1>2, <1>3, <1>4 DEF o

\* Whom a client believes by both algorithms when s has signed, in place of the
\* lines of its name or after them.
LEMMA HybridOfHop ==
  ASSUME NEW v, IsList(v.sigs), IsList(v.sig_pqc), v.print \in Prints,
         NEW s \in Everyone, NEW u \in Everyone
  PROVE  LET w == DualSigned(v, s.name, s.key)
             x == Vouched(v, s.name, s.key)
         IN  /\ VerifyHybrid(w, u.name, u.key) <=>
                  u = s \/ (u.name # s.name /\ VerifyHybrid(v, u.name, u.key))
             /\ VerifyHybrid(v, u.name, u.key) => VerifyHybrid(x, u.name, u.key)
             /\ u # s => (VerifyHybrid(x, u.name, u.key) <=> VerifyHybrid(v, u.name, u.key))
             /\ u = s /\ CandidatesAmong(ToSet(v.sigs), ToSet(v.sig_pqc), s.name) < MaxSigCandidates
                  => VerifyHybrid(x, u.name, u.key)
<1> DEFINE w == DualSigned(v, s.name, s.key)
           x == Vouched(v, s.name, s.key)
           ed == SigLine(s.name, EdSign(s.key, v.print))
           ml == SigLine(s.name, MlSign(s.key, v.print))
           T == Entries(v.sigs) \cup Entries(v.sig_pqc) \cup {ed, ml}
           D == {e \in T : DecodesSig(e)}
           P == {e \in T : DecodesSigPqc(e)}
<1>1. /\ ed.name = s.name /\ DecodesSig(ed) /\ <<s.key, v.print, ed.sig>> \in EdValid
      /\ ml.name = s.name /\ DecodesSigPqc(ml) /\ <<s.key, v.print, ml.sig>> \in MlValid
      /\ u.name = s.name /\ <<u.key, v.print, ed.sig>> \in EdValid => u = s
      /\ u.name = s.name /\ <<u.key, v.print, ml.sig>> \in MlValid => u = s
  BY OwnLines
<1>2. ed \in T /\ ml \in T /\ ed \in D /\ ml \in P /\ v.sigs \in Seq(T) /\ v.sig_pqc \in Seq(T)
  BY <1>1, ListIsSeq, SeqMonotonic
<1>3. /\ w.print = v.print /\ x.print = v.print
      /\ w.sigs = Append(Others(v.sigs, s.name), ed)
      /\ w.sig_pqc = Append(Others(v.sig_pqc, s.name), ml)
      /\ x.sigs = Append(v.sigs, ed) /\ x.sig_pqc = Append(v.sig_pqc, ml)
  BY DEF DualSigned, Vouched
<1>4. ASSUME NEW y, y.sigs \in Seq(T), y.sig_pqc \in Seq(T)
      PROVE  VerifyHybrid(y, s.name, u.key) <=>
               /\ \E b \in TriedIn(y.sigs, s.name, D) : <<u.key, y.print, b>> \in EdValid
               /\ \E b \in TriedIn(y.sig_pqc, s.name, P) : <<u.key, y.print, b>> \in MlValid
  <2> HIDE DEF T
  <2> QED
    BY <1>4, HybridTries
<1>5. /\ SigCandidates(v.sigs, s.name) = CandidatesIn(v.sigs, s.name, D)
      /\ PqcCandidates(v.sig_pqc, s.name) = CandidatesIn(v.sig_pqc, s.name, P)
  <2> HIDE DEF T
  <2> QED
    BY <1>2, HybridTries
<1>6. CASE u.name # s.name
  <2>1. /\ VerifyHybrid(w, u.name, u.key) <=> VerifyHybrid(v, u.name, u.key)
        /\ VerifyHybrid(x, u.name, u.key) <=> VerifyHybrid(v, u.name, u.key)
    <3> HIDE DEF T
    <3> QED
      BY <1>2, <1>6, HybridSurvives
  <2> QED
    BY <1>6, <2>1
<1> HIDE DEF ed, ml, T, D, P, w, x
<1>7. CASE u.name = s.name
  <2>1. /\ w.sigs \in Seq(T) /\ w.sig_pqc \in Seq(T) /\ x.sigs \in Seq(T) /\ x.sig_pqc \in Seq(T)
    BY <1>2, <1>3, OthersKeeps, AppendProperties
  <2>2. /\ TriedIn(w.sigs, s.name, D) = {ed.sig}
        /\ TriedIn(v.sigs, s.name, D) \subseteq TriedIn(x.sigs, s.name, D)
        /\ TriedIn(x.sigs, s.name, D) \subseteq TriedIn(v.sigs, s.name, D) \cup {ed.sig}
        /\ Cardinality(Payloads(v.sigs, CandidatesIn(v.sigs, s.name, D))) < MaxSigCandidates =>
             ed.sig \in TriedIn(x.sigs, s.name, D)
    <3>1. v.sigs \in Seq(T) /\ ed \in T /\ ed \in D /\ s.name = ed.name
      BY <1>1, <1>2
    <3>2. w.sigs = Append(Others(v.sigs, ed.name), ed) /\ x.sigs = Append(v.sigs, ed)
      BY <1>3, <3>1
    <3>3. TriesAfter(Append(Others(v.sigs, ed.name), ed), Append(v.sigs, ed), v.sigs, ed, D)
      BY <3>1, AddedIsTried
    <3>4. TriesAfter(w.sigs, x.sigs, v.sigs, ed, D)
      BY <3>2, <3>3
    <3> QED
      BY <3>1, <3>4 DEF TriesAfter
  <2>3. /\ TriedIn(w.sig_pqc, s.name, P) = {ml.sig}
        /\ TriedIn(v.sig_pqc, s.name, P) \subseteq TriedIn(x.sig_pqc, s.name, P)
        /\ TriedIn(x.sig_pqc, s.name, P) \subseteq TriedIn(v.sig_pqc, s.name, P) \cup {ml.sig}
        /\ Cardinality(Payloads(v.sig_pqc, CandidatesIn(v.sig_pqc, s.name, P))) < MaxSigCandidates =>
             ml.sig \in TriedIn(x.sig_pqc, s.name, P)
    <3>1. v.sig_pqc \in Seq(T) /\ ml \in T /\ ml \in P /\ s.name = ml.name
      BY <1>1, <1>2
    <3>2. w.sig_pqc = Append(Others(v.sig_pqc, ml.name), ml) /\ x.sig_pqc = Append(v.sig_pqc, ml)
      BY <1>3, <3>1
    <3>3. TriesAfter(Append(Others(v.sig_pqc, ml.name), ml), Append(v.sig_pqc, ml), v.sig_pqc, ml, P)
      BY <3>1, AddedIsTried
    <3>4. TriesAfter(w.sig_pqc, x.sig_pqc, v.sig_pqc, ml, P)
      BY <3>2, <3>3
    <3> QED
      BY <3>1, <3>4 DEF TriesAfter
  <2>4. VerifyHybrid(w, u.name, u.key) <=> u = s
    BY <1>1, <1>3, <1>4, <1>7, <2>1, <2>2, <2>3
  <2>5. VerifyHybrid(v, u.name, u.key) => VerifyHybrid(x, u.name, u.key)
    BY <1>2, <1>3, <1>4, <1>7, <2>1, <2>2, <2>3
  <2>6. u # s /\ VerifyHybrid(x, u.name, u.key) => VerifyHybrid(v, u.name, u.key)
    BY <1>1, <1>2, <1>3, <1>4, <1>7, <2>1, <2>2, <2>3
  <2>7. ASSUME u = s, CandidatesAmong(ToSet(v.sigs), ToSet(v.sig_pqc), s.name) < MaxSigCandidates
        PROVE  VerifyHybrid(x, u.name, u.key)
    <3> DEFINE e == Cardinality(EdSigs(ToSet(v.sigs), s.name))
               m == Cardinality(MlSigs(ToSet(v.sig_pqc), s.name))
    <3>1. /\ e \in Nat /\ m \in Nat
          /\ e =< CandidatesAmong(ToSet(v.sigs), ToSet(v.sig_pqc), s.name)
          /\ m =< CandidatesAmong(ToSet(v.sigs), ToSet(v.sig_pqc), s.name)
          /\ CandidatesAmong(ToSet(v.sigs), ToSet(v.sig_pqc), s.name) \in Nat
      BY CandidatesAsSets, CandidatesCount
    <3>2. /\ e = Cardinality(Payloads(v.sigs, CandidatesIn(v.sigs, s.name, D)))
          /\ m = Cardinality(Payloads(v.sig_pqc, CandidatesIn(v.sig_pqc, s.name, P)))
      BY <1>5, CandidatesAsSets
    <3> HIDE DEF e, m
    <3>3. e < MaxSigCandidates /\ m < MaxSigCandidates
      BY <2>7, <3>1, SignaturesOK
    <3>4. ed.sig \in TriedIn(x.sigs, s.name, D) /\ ml.sig \in TriedIn(x.sig_pqc, s.name, P)
      BY <2>2, <2>3, <3>2, <3>3
    <3> QED
      BY <1>1, <1>3, <1>4, <1>7, <2>1, <2>7, <3>4
  <2> QED
    BY <1>7, <2>4, <2>5, <2>6, <2>7 DEF w, x
<1> QED
  BY <1>6, <1>7

\* A line of s makes nobody else believed, leaving out the lines of its name
\* takes belief from no other name, and s itself is believed but where its name
\* has reached the cap.
LEMMA HopBelief ==
  ASSUME NEW v, IsList(v.sigs), IsList(v.sig_pqc), v.print \in Prints, NEW s \in Everyone
  PROVE  LET w == DualSigned(v, s.name, s.key)
             x == Vouched(v, s.name, s.key)
         IN  /\ Accepted(w) = {b \in Accepted(v) : b[1].name # s.name} \cup Both(s)
             /\ \/ Accepted(x) = Accepted(v) \cup Both(s)
                \/ /\ CandidatesAmong(ToSet(v.sigs), ToSet(v.sig_pqc), s.name) >= MaxSigCandidates
                   /\ Accepted(x) = Accepted(v) \cup {<<s, "classical">>}
<1> DEFINE w == DualSigned(v, s.name, s.key)
           x == Vouched(v, s.name, s.key)
           ed == SigLine(s.name, EdSign(s.key, v.print))
           ml == SigLine(s.name, MlSign(s.key, v.print))
           L == ToSet(v.sigs)
           full == CandidatesAmong(ToSet(v.sigs), ToSet(v.sig_pqc), s.name) >= MaxSigCandidates
<1>1. /\ ed.name = s.name /\ DecodesSig(ed) /\ <<s.key, v.print, ed.sig>> \in EdValid
      /\ ml.name = s.name
  BY OwnLines
<1>2. ASSUME NEW y \in Everyone, s.name = y.name, <<y.key, v.print, ed.sig>> \in EdValid
      PROVE  y = s
  <2>1. ed.name = y.name
    BY <1>1, <1>2
  <2>2. \A m : \A z \in Everyone : ed.name = z.name /\ <<z.key, m, ed.sig>> \in EdValid =>
          z = s /\ m = v.print
    BY OwnLines
  <2> QED
    BY <1>2, <2>1, <2>2
<1>3. /\ w.print = v.print /\ x.print = v.print
      /\ w.sigs = Append(Others(v.sigs, s.name), ed)
      /\ w.sig_pqc = Append(Others(v.sig_pqc, s.name), ml)
      /\ x.sigs = Append(v.sigs, ed) /\ x.sig_pqc = Append(v.sig_pqc, ml)
  BY DEF DualSigned, Vouched
<1> HIDE DEF ed, ml
<1>4. /\ IsList(w.sigs) /\ ToSet(w.sigs) = {l \in L : l.name # s.name} \cup {ed}
      /\ IsList(x.sigs) /\ ToSet(x.sigs) = L \cup {ed}
      /\ IsList(w.sig_pqc) /\ IsList(x.sig_pqc)
  <2> HIDE DEF w, x
  <2>1. ASSUME NEW l, IsList(l), NEW e, e.name = s.name
        PROVE  /\ IsList(Append(l, e)) /\ ToSet(Append(l, e)) = ToSet(l) \cup {e}
               /\ IsList(Append(Others(l, s.name), e))
               /\ ToSet(Append(Others(l, s.name), e)) = {y \in ToSet(l) : y.name # s.name} \cup {e}
    <3>1. /\ IsList(Append(l, e)) /\ ToSet(Append(l, e)) = ToSet(l) \cup {e}
          /\ IsList(Append(Others(l, e.name), e))
          /\ ToSet(Append(Others(l, e.name), e)) = {y \in ToSet(l) : y.name # e.name} \cup {e}
      BY <2>1, LinesAsSets
    <3> QED
      BY <2>1, <3>1
  <2>2. /\ IsList(Append(Others(v.sigs, s.name), ed)) /\ IsList(Append(v.sigs, ed))
        /\ ToSet(Append(Others(v.sigs, s.name), ed)) = {l \in L : l.name # s.name} \cup {ed}
        /\ ToSet(Append(v.sigs, ed)) = L \cup {ed}
    BY <1>1, <2>1
  <2>3. IsList(Append(Others(v.sig_pqc, s.name), ml)) /\ IsList(Append(v.sig_pqc, ml))
    BY <1>1, <2>1
  <2> HIDE DEF L
  <2> QED
    BY <1>3, <2>2, <2>3
<1>5. ASSUME NEW u \in Everyone
      PROVE  /\ EdBy(u, v.print, ToSet(w.sigs)) <=> u = s \/ (u.name # s.name /\ EdBy(u, v.print, L))
             /\ EdBy(u, v.print, ToSet(x.sigs)) <=> u = s \/ EdBy(u, v.print, L)
  <2> DEFINE K == {l \in L : l.name # s.name}
  <2>1. ToSet(w.sigs) = K \cup {ed} /\ ToSet(x.sigs) = L \cup {ed}
    BY <1>4
  <2>2. EdBy(u, v.print, K) <=> u.name # s.name /\ EdBy(u, v.print, L)
    BY DEF EdBy
  <2> HIDE DEF K, L, w, x
  <2>3. ASSUME NEW A PROVE EdBy(u, v.print, A \cup {ed}) <=> u = s \/ EdBy(u, v.print, A)
    BY <1>1, <1>2 DEF EdBy
  <2> QED
    BY <2>1, <2>2, <2>3
<1>6. ASSUME NEW u \in Everyone
      PROVE  /\ VerifyHybrid(w, u.name, u.key) <=>
                  u = s \/ (u.name # s.name /\ VerifyHybrid(v, u.name, u.key))
             /\ VerifyHybrid(v, u.name, u.key) => VerifyHybrid(x, u.name, u.key)
             /\ u # s => (VerifyHybrid(x, u.name, u.key) <=> VerifyHybrid(v, u.name, u.key))
             /\ u = s /\ ~full => VerifyHybrid(x, u.name, u.key)
  <2>1. ~full => CandidatesAmong(ToSet(v.sigs), ToSet(v.sig_pqc), s.name) < MaxSigCandidates
    BY CandidatesAsSets, CandidatesCount, SignaturesOK
  <2> HIDE DEF full
  <2> QED
    BY <2>1, HybridOfHop
<1> HIDE DEF L, w, x, full
<1>7. ASSUME NEW y, IsList(y.sigs), IsList(y.sig_pqc), NEW u \in Everyone
      PROVE  /\ <<u, "classical">> \in Accepted(y) <=> EdBy(u, y.print, ToSet(y.sigs))
             /\ <<u, "hybrid">> \in Accepted(y) <=> VerifyHybrid(y, u.name, u.key)
  BY <1>7, BeliefIs
<1>8. ASSUME NEW u \in Everyone
      PROVE  /\ <<u, "classical">> \in Accepted(w) <=>
                  u = s \/ (u.name # s.name /\ <<u, "classical">> \in Accepted(v))
             /\ <<u, "hybrid">> \in Accepted(w) <=>
                  u = s \/ (u.name # s.name /\ <<u, "hybrid">> \in Accepted(v))
             /\ <<u, "classical">> \in Accepted(x) <=> u = s \/ <<u, "classical">> \in Accepted(v)
             /\ u # s => (<<u, "hybrid">> \in Accepted(x) <=> <<u, "hybrid">> \in Accepted(v))
             /\ <<u, "hybrid">> \in Accepted(v) => <<u, "hybrid">> \in Accepted(x)
             /\ u = s /\ ~full => <<u, "hybrid">> \in Accepted(x)
  <2>1. w.print = v.print /\ x.print = v.print
    BY <1>3
  <2> QED
    BY <1>4, <1>5, <1>6, <1>7, <2>1 DEF L
<1>9. \A y : Accepted(y) \subseteq Everyone \X {"classical", "hybrid"}
  BY DEF Accepted
<1>10. Both(s) \subseteq Everyone \X {"classical", "hybrid"}
  BY DEF Both
<1>11. Accepted(w) = {b \in Accepted(v) : b[1].name # s.name} \cup Both(s)
  <2>1. ASSUME NEW b \in Everyone \X {"classical", "hybrid"}
        PROVE  b \in Accepted(w) <=> b \in {c \in Accepted(v) : c[1].name # s.name} \cup Both(s)
    <3>1. PICK u \in Everyone : b \in {<<u, "classical">>, <<u, "hybrid">>} /\ b[1] = u
      OBVIOUS
    <3>2. b \in Both(s) <=> u = s
      BY <3>1 DEF Both
    <3> QED
      BY <1>8, <3>1, <3>2
  <2> QED
    BY <1>9, <1>10, <2>1
<1>12. ASSUME <<s, "hybrid">> \in Accepted(x)
       PROVE  Accepted(x) = Accepted(v) \cup Both(s)
  <2>1. ASSUME NEW b \in Everyone \X {"classical", "hybrid"}
        PROVE  b \in Accepted(x) <=> b \in Accepted(v) \cup Both(s)
    <3>1. PICK u \in Everyone : b \in {<<u, "classical">>, <<u, "hybrid">>}
      OBVIOUS
    <3>2. b \in Both(s) <=> u = s
      BY <3>1 DEF Both
    <3> QED
      BY <1>8, <1>12, <3>1, <3>2
  <2> QED
    BY <1>9, <1>10, <2>1
<1>13. ASSUME <<s, "hybrid">> \notin Accepted(x)
       PROVE  full /\ Accepted(x) = Accepted(v) \cup {<<s, "classical">>}
  <2>1. full /\ <<s, "hybrid">> \notin Accepted(v)
    BY <1>8, <1>13
  <2>2. ASSUME NEW b \in Everyone \X {"classical", "hybrid"}
        PROVE  b \in Accepted(x) <=> b \in Accepted(v) \cup {<<s, "classical">>}
    <3>1. PICK u \in Everyone : b \in {<<u, "classical">>, <<u, "hybrid">>}
      OBVIOUS
    <3> QED
      BY <1>8, <1>13, <2>1, <3>1
  <2>3. <<s, "classical">> \in Everyone \X {"classical", "hybrid"}
    OBVIOUS
  <2> QED
    BY <1>9, <2>1, <2>2, <2>3
<1> QED
  BY <1>11, <1>12, <1>13 DEF w, x, full

\* How many candidates there are when a signer's lines have come, after those of
\* its name or in their place.
LEMMA HopCandidates ==
  ASSUME NEW t, IsText(t), NEW u, IsText(u), NEW ed, NEW ml, ed.name \in Names,
         ml.name = ed.name, DecodesSig(ed), DecodesSigPqc(ml)
  PROVE  LET L == Sayings(t, "Sig")
             M == Sayings(t, "Sig-PQC")
         IN  /\ Sayings(u, "Sig") = L \cup {ed} /\ Sayings(u, "Sig-PQC") = M \cup {ml} =>
                  \E more \in {0, 1} : Candidates(u) = [Candidates(t) EXCEPT ![ed.name] = @ + more]
             /\ /\ Sayings(u, "Sig") = {l \in L : l.name # ed.name} \cup {ed}
                /\ Sayings(u, "Sig-PQC") = {l \in M : l.name # ed.name} \cup {ml}
                => Candidates(u) = [Candidates(t) EXCEPT ![ed.name] = 1]
<1> DEFINE L == Sayings(t, "Sig")
           M == Sayings(t, "Sig-PQC")
           L2 == Sayings(u, "Sig")
           M2 == Sayings(u, "Sig-PQC")
           Old(n) == CandidatesAmong(L, M, n)
           New(n) == CandidatesAmong({l \in L : l.name # ed.name} \cup {ed},
                                     {l \in M : l.name # ed.name} \cup {ml}, n)
           More(n) == CandidatesAmong(L \cup {ed}, M \cup {ml}, n)
<1>1. IsFiniteSet(L) /\ IsFiniteSet(M)
  BY CandidatesOfText
<1>2. /\ Candidates(t) = [n \in Names |-> Old(n)]
      /\ Candidates(u) = [n \in Names |-> CandidatesAmong(L2, M2, n)]
  BY CandidatesOfText
<1>3. Old(ed.name) \in Nat
  BY <1>1, CandidatesCount
<1>4. ASSUME NEW n
      PROVE  /\ n # ed.name => New(n) = Old(n) /\ More(n) = Old(n)
             /\ n = ed.name => New(n) = 1 /\ More(n) \in {Old(n), Old(n) + 1}
  <2> HIDE DEF L, M
  <2> QED
    BY <1>1, CandidatesOfHop
<1>5. ASSUME L2 = L \cup {ed}, M2 = M \cup {ml}
      PROVE  \E more \in {0, 1} : Candidates(u) = [Candidates(t) EXCEPT ![ed.name] = @ + more]
  <2>1. Candidates(u) = [n \in Names |-> More(n)]
    BY <1>2, <1>5
  <2> HIDE DEF L, M, L2, M2, Old, New, More
  <2>2. PICK more \in {0, 1} : More(ed.name) = Old(ed.name) + more
    BY <1>3, <1>4
  <2>3. Candidates(u) = [Candidates(t) EXCEPT ![ed.name] = @ + more]
    BY <1>2, <1>4, <2>1, <2>2
  <2> QED
    BY <2>3
<1>6. ASSUME L2 = {l \in L : l.name # ed.name} \cup {ed}, M2 = {l \in M : l.name # ed.name} \cup {ml}
      PROVE  Candidates(u) = [Candidates(t) EXCEPT ![ed.name] = 1]
  <2>1. Candidates(u) = [n \in Names |-> New(n)]
    BY <1>2, <1>6
  <2> HIDE DEF L, M, L2, M2, Old, New, More
  <2> QED
    BY <1>2, <1>4, <2>1
<1> QED
  BY <1>5, <1>6

\* What a hop writes says what was said, with the signer's lines as well.
LEMMA HopText ==
  ASSUME NEW t, TextOK(t), Usable(Parse(t)), NEW s \in Everyone, NEW view,
         view \in {DualSigned(View(Parse(t)), s.name, s.key), Vouched(View(Parse(t)), s.name, s.key)}
  PROVE  LET print == Fingerprint(Parse(t))
             u == ToText(WithLines(Parse(t), view))
             ed == SigLine(s.name, EdSign(s.key, print))
             ml == SigLine(s.name, MlSign(s.key, print))
             L == Sayings(t, "Sig")
             M == Sayings(t, "Sig-PQC")
         IN  /\ TextOK(u) /\ Usable(Parse(u)) /\ View(Parse(u)) = view
             /\ Fingerprint(Parse(u)) = print /\ Doc(Parse(u)) = Doc(Parse(t))
             /\ view = Vouched(View(Parse(t)), s.name, s.key) =>
                  Sayings(u, "Sig") = L \cup {ed} /\ Sayings(u, "Sig-PQC") = M \cup {ml}
             /\ view = DualSigned(View(Parse(t)), s.name, s.key) =>
                  /\ Sayings(u, "Sig") = {l \in L : l.name # s.name} \cup {ed}
                  /\ Sayings(u, "Sig-PQC") = {l \in M : l.name # s.name} \cup {ml}
<1> DEFINE info == Parse(t)
           print == Fingerprint(info)
           new == WithLines(info, view)
           u == ToText(new)
           ed == SigLine(s.name, EdSign(s.key, print))
           ml == SigLine(s.name, MlSign(s.key, print))
           L == Sayings(t, "Sig")
           M == Sayings(t, "Sig-PQC")
<1>1. IsText(t) /\ info # Malformed /\ (\A i \in 1 .. Len(t) : LineOK(t[i]))
  BY DEF TextOK, Usable
<1>2. Parsed(info) /\ ToSet(info.sigs) = L /\ ToSet(info.sig_pqc) = M
  BY <1>1, ParseGives, ParseSays
<1>3. /\ print \in Prints
      /\ \A k \in {"StorePath", "NarHash", "NarSize"} : info.field[k] \in CanBe(k)
      /\ info.references \in Seq(Nat) /\ InOrder(info.references) \in Orders
  BY TextSays, PrintSayable
<1>4. info.field["StorePath"] \in DOMAIN StoreDir
  BY DEF Usable, HasStoreDir
<1>5. /\ View(info).print = print
      /\ View(info).sigs = info.sigs /\ View(info).sig_pqc = info.sig_pqc
  BY DEF View
<1>6. view = [print |-> print, sigs |-> view.sigs, sig_pqc |-> view.sig_pqc]
  BY <1>5 DEF DualSigned, Vouched
<1> HIDE DEF info, print
<1>7. ed \in Lines /\ ed.name = s.name /\ ml \in Lines /\ ml.name = s.name
  BY <1>3, OwnLines
<1>8. /\ view = Vouched(View(info), s.name, s.key) =>
           view.sigs = Append(info.sigs, ed) /\ view.sig_pqc = Append(info.sig_pqc, ml)
      /\ view = DualSigned(View(info), s.name, s.key) =>
           /\ view.sigs = Append(Others(info.sigs, s.name), ed)
           /\ view.sig_pqc = Append(Others(info.sig_pqc, s.name), ml)
  BY <1>5 DEF DualSigned, Vouched
<1> HIDE DEF ed, ml
<1>9. \/ view.sigs = Append(info.sigs, ed) /\ view.sig_pqc = Append(info.sig_pqc, ml)
      \/ /\ view.sigs = Append(Others(info.sigs, s.name), ed)
         /\ view.sig_pqc = Append(Others(info.sig_pqc, s.name), ml)
  BY <1>8 DEF info
<1>10. IsList(info.sigs) /\ IsList(info.sig_pqc)
  BY <1>2 DEF Parsed
<1>11. /\ IsList(Append(info.sigs, ed)) /\ ToSet(Append(info.sigs, ed)) = L \cup {ed}
       /\ IsList(Append(Others(info.sigs, s.name), ed))
       /\ ToSet(Append(Others(info.sigs, s.name), ed)) = {x \in L : x.name # s.name} \cup {ed}
  <2>1. /\ IsList(Append(info.sigs, ed)) /\ ToSet(Append(info.sigs, ed)) = ToSet(info.sigs) \cup {ed}
        /\ IsList(Append(Others(info.sigs, ed.name), ed))
        /\ ToSet(Append(Others(info.sigs, ed.name), ed)) =
             {x \in ToSet(info.sigs) : x.name # ed.name} \cup {ed}
    BY <1>10, LinesAsSets
  <2> QED
    BY <1>2, <1>7, <2>1
<1>12. /\ IsList(Append(info.sig_pqc, ml)) /\ ToSet(Append(info.sig_pqc, ml)) = M \cup {ml}
       /\ IsList(Append(Others(info.sig_pqc, s.name), ml))
       /\ ToSet(Append(Others(info.sig_pqc, s.name), ml)) = {x \in M : x.name # s.name} \cup {ml}
  <2>1. /\ IsList(Append(info.sig_pqc, ml)) /\ ToSet(Append(info.sig_pqc, ml)) = ToSet(info.sig_pqc) \cup {ml}
        /\ IsList(Append(Others(info.sig_pqc, ml.name), ml))
        /\ ToSet(Append(Others(info.sig_pqc, ml.name), ml)) =
             {x \in ToSet(info.sig_pqc) : x.name # ml.name} \cup {ml}
    BY <1>10, LinesAsSets
  <2> QED
    BY <1>2, <1>7, <2>1
<1>13. IsList(view.sigs) /\ IsList(view.sig_pqc)
  BY <1>9, <1>11, <1>12
<1>14. /\ IsText(u) /\ Parsed(new) /\ Parse(u) = new /\ new # Malformed
       /\ new.field = info.field /\ new.references = info.references
       /\ new.sigs = view.sigs /\ new.sig_pqc = view.sig_pqc
  BY <1>2, <1>13, HopWrites
<1> HIDE DEF new, u
<1>15. /\ Usable(Parse(u)) /\ Fingerprint(Parse(u)) = print /\ Doc(Parse(u)) = Doc(info)
  BY <1>4, <1>14 DEF Usable, HasStoreDir, Fingerprint, Doc, print
<1>16. /\ Sayings(u, "Sig") = ToSet(view.sigs)
       /\ Sayings(u, "Sig-PQC") = ToSet(view.sig_pqc)
  BY <1>14, ParseSays
<1>17. /\ ToSet(view.sigs) \subseteq L \cup {ed} /\ ToSet(view.sig_pqc) \subseteq M \cup {ml}
  BY <1>9, <1>11, <1>12
<1>18. L \subseteq Lines /\ M \subseteq Lines
  BY <1>1 DEF Sayings, SaysKey, LineOK
<1>19. ASSUME NEW i \in 1 .. Len(u) PROVE LineOK(u[i])
  <2>1. /\ u[i].layout = "pair"
        /\ \/ u[i].key \in FieldKeys /\ u[i].value = ValueIn(new, u[i].key)
           \/ u[i].key \notin Known
           \/ u[i].key = "Sig" /\ u[i].value \in ToSet(new.sigs)
           \/ u[i].key = "Sig-PQC" /\ u[i].value \in ToSet(new.sig_pqc)
    BY <1>14, WrittenLines DEF u
  <2>2. u[i].layout \in Layouts
    BY <2>1 DEF Layouts
  <2>3. CASE u[i].key \in FieldKeys /\ u[i].value = ValueIn(new, u[i].key)
    <3>1. u[i].key \notin {"Sig", "Sig-PQC"}
      BY <2>3 DEF FieldKeys, Always, Optional
    <3>2. u[i].key \in {"StorePath", "NarHash", "NarSize"} => u[i].value \in CanBe(u[i].key)
      BY <1>3, <1>14, <2>3 DEF ValueIn
    <3>3. RefsOK(JoinReferences(info.references))
      BY <1>3 DEF RefsOK, JoinReferences
    <3>4. u[i].key = "References" => RefsOK(u[i].value)
      BY <1>14, <2>3, <3>3 DEF ValueIn
    <3> QED
      BY <2>2, <3>1, <3>2, <3>4 DEF LineOK, FieldOK
  <2>4. CASE u[i].key \notin Known
    BY <2>2, <2>4 DEF LineOK, FieldOK, Known, Always
  <2>5. CASE u[i].key \in {"Sig", "Sig-PQC"} /\ u[i].value \in ToSet(new.sigs) \cup ToSet(new.sig_pqc)
    <3>1. u[i].value \in Lines
      BY <1>7, <1>14, <1>17, <1>18, <2>5
    <3> QED
      BY <2>2, <2>5, <3>1 DEF LineOK, FieldOK
  <2> QED
    BY <2>1, <2>3, <2>4, <2>5
<1>20. TextOK(u)
  BY <1>14, <1>19 DEF TextOK
<1>21. View(Parse(u)) = view
  BY <1>6, <1>14, <1>15 DEF View
<1> QED
  BY <1>8, <1>11, <1>12, <1>15, <1>16, <1>20, <1>21 DEF info, print, new, u, ed, ml, L, M

-----------------------------------------------------------------------------
\* The inductive invariant: every line says what it may, and every entry was made
\* by its signer.
PipeInv ==
  /\ TextOK(text)
  /\ doc = DocOf(text) /\ believed = Believed(text)
  /\ Behind(Sayings(text, "Sig"), Sayings(text, "Sig-PQC"), vouched)
  /\ vouched \subseteq Everyone \X {"classical", "hybrid"} \X Docs
  /\ hops \in 0 .. MaxHops /\ changes \in 0 .. MaxChanges /\ layouts \in 0 .. MaxLayouts

\* What is believed has a fingerprint that was signed.
LEMMA BelievedFrom ==
  ASSUME NEW t, TextOK(t), NEW signed,
         Behind(Sayings(t, "Sig"), Sayings(t, "Sig-PQC"), signed)
  PROVE  /\ Usable(Parse(t)) => /\ DocOf(t) = Doc(Parse(t)) /\ DocOf(t) \in Docs
                                /\ DocOf(t) # NoDoc
                                /\ Fingerprint(Parse(t)) = SignedText(DocOf(t))
                                /\ Fingerprint(Parse(t)) \in Prints
         /\ ~Usable(Parse(t)) => DocOf(t) = NoDoc
         /\ \A b \in Believed(t) : /\ b \in Everyone \X {"classical", "hybrid"}
                                   /\ DocOf(t) \in Docs
                                   /\ Signed(signed, b[1], b[2], SignedText(DocOf(t)))
<1> DEFINE info == Parse(t)
           print == Fingerprint(info)
<1>1. /\ Usable(info) => Believed(t) \subseteq BeliefIn(print, Sayings(t, "Sig"), Sayings(t, "Sig-PQC"))
      /\ ~Usable(info) => Believed(t) = {}
  BY BelievedIs DEF TextOK, Believed
<1>2. DocOf(t) = IF Usable(info) THEN Doc(info) ELSE NoDoc
  BY DEF DocOf
<1>3. ASSUME Usable(info)
      PROVE  print \in Prints /\ print = SignedText(Doc(info)) /\ Doc(info) \in Docs
  BY <1>3, TextSays, PrintSayable
<1>4. NoDoc \notin Docs
  BY PipelineOK
<1> HIDE DEF info, print
<1>5. ASSUME NEW b \in Believed(t)
      PROVE  /\ b \in Everyone \X {"classical", "hybrid"} /\ DocOf(t) \in Docs
             /\ Signed(signed, b[1], b[2], SignedText(DocOf(t)))
  <2>1. Usable(info) /\ b \in BeliefIn(print, Sayings(t, "Sig"), Sayings(t, "Sig-PQC"))
    BY <1>1
  <2>2. Signed(signed, b[1], b[2], print)
    BY <1>3, <2>1, BelievedIsBehind
  <2> QED
    BY <1>2, <1>3, <2>1, <2>2 DEF BeliefIn
<1> QED
  BY <1>2, <1>3, <1>4, <1>5 DEF info, print

\* A hop: what it adds to what was signed, to what is believed and to the entries.
LEMMA HopStep ==
  ASSUME PipeInv, NEW s \in Everyone, NEW view, Hop(s, Parse(text), view),
         view \in {DualSigned(View(Parse(text)), s.name, s.key),
                   Vouched(View(Parse(text)), s.name, s.key)}
  PROVE  /\ PipeInv'
         /\ doc # NoDoc /\ doc' = doc
         /\ vouched' = vouched \cup {<<s, l, doc>> : l \in {"classical", "hybrid"}}
         /\ view = Vouched(View(Parse(text)), s.name, s.key) =>
              /\ \/ believed' = believed \cup Both(s)
                 \/ /\ Candidates(text)[s.name] >= MaxSigCandidates
                    /\ believed' = believed \cup {<<s, "classical">>}
              /\ \E more \in {0, 1} :
                   Candidates(text') = [Candidates(text) EXCEPT ![s.name] = @ + more]
         /\ view = DualSigned(View(Parse(text)), s.name, s.key) =>
              /\ believed' = {b \in believed : b[1].name # s.name} \cup Both(s)
              /\ Candidates(text') = [Candidates(text) EXCEPT ![s.name] = 1]
<1> DEFINE info == Parse(text)
           print == Fingerprint(info)
           ed == SigLine(s.name, EdSign(s.key, print))
           ml == SigLine(s.name, MlSign(s.key, print))
           L == Sayings(text, "Sig")
           M == Sayings(text, "Sig-PQC")
           L2 == Sayings(text', "Sig")
           M2 == Sayings(text', "Sig-PQC")
<1>1. /\ Usable(info) /\ hops < MaxHops /\ hops' = hops + 1
      /\ text' = ToText(WithLines(info, view))
      /\ doc' = DocOf(text') /\ believed' = Believed(text')
      /\ vouched' = vouched \cup {<<s, l, doc>> : l \in {"classical", "hybrid"}}
      /\ UNCHANGED <<changes, layouts>>
  BY DEF Hop, Shows
<1>2. /\ TextOK(text)
      /\ Behind(L, M, vouched)
      /\ vouched \subseteq Everyone \X {"classical", "hybrid"} \X Docs
      /\ hops \in Nat /\ hops + 1 \in 0 .. MaxHops
      /\ changes \in 0 .. MaxChanges /\ layouts \in 0 .. MaxLayouts
  BY <1>1, PipelineOK DEF PipeInv
<1>3. /\ TextOK(text') /\ Usable(Parse(text')) /\ View(Parse(text')) = view
      /\ Fingerprint(Parse(text')) = print /\ Doc(Parse(text')) = Doc(info)
      /\ view = Vouched(View(info), s.name, s.key) => L2 = L \cup {ed} /\ M2 = M \cup {ml}
      /\ view = DualSigned(View(info), s.name, s.key) =>
           /\ L2 = {l \in L : l.name # s.name} \cup {ed}
           /\ M2 = {l \in M : l.name # s.name} \cup {ml}
  BY <1>1, <1>2, HopText
<1>4. /\ believed = Accepted(View(info)) /\ print = SignedText(doc) /\ doc = Doc(info)
      /\ doc \in Docs /\ doc # NoDoc /\ print \in Prints
  <2>1. doc = DocOf(text) /\ believed = Believed(text)
    BY DEF PipeInv
  <2> QED
    BY <1>1, <1>2, <2>1, BelievedFrom DEF DocOf, Believed
<1>5. doc' = doc
  BY <1>1, <1>3, <1>4 DEF DocOf
<1>6. /\ \A m : \A x \in Everyone : ed.name = x.name /\ <<x.key, m, ed.sig>> \in EdValid =>
           x = s /\ m = print
      /\ \A m : \A x \in Everyone : ml.name = x.name /\ <<x.key, m, ml.sig>> \in MlValid =>
           x = s /\ m = print
  BY <1>4, OwnLines
<1> HIDE DEF info, print, ed, ml, L, M, L2, M2
<1>7. L2 \subseteq L \cup {ed} /\ M2 \subseteq M \cup {ml}
  BY <1>3 DEF info
<1>8. Behind(L2, M2, vouched')
  <2>1. /\ Signed(vouched', s, "classical", print) /\ Signed(vouched', s, "hybrid", print)
        /\ \A x, l, m : Signed(vouched, x, l, m) => Signed(vouched', x, l, m)
    BY <1>1, <1>4 DEF Signed
  <2>2. ASSUME NEW l \in L2, NEW x \in Everyone, NEW m \in Prints,
               l.name = x.name, <<x.key, m, l.sig>> \in EdValid
        PROVE  Signed(vouched', x, "classical", m)
    BY <1>2, <1>6, <1>7, <2>1, <2>2 DEF Behind
  <2>3. ASSUME NEW l \in M2, NEW x \in Everyone, NEW m \in Prints,
               l.name = x.name, <<x.key, m, l.sig>> \in MlValid
        PROVE  Signed(vouched', x, "hybrid", m)
    BY <1>2, <1>6, <1>7, <2>1, <2>3 DEF Behind
  <2> QED
    BY <2>2, <2>3 DEF Behind
<1>9. vouched' \subseteq Everyone \X {"classical", "hybrid"} \X Docs
  BY <1>1, <1>2, <1>4
<1>10. PipeInv'
  BY <1>1, <1>2, <1>3, <1>8, <1>9 DEF PipeInv, L2, M2
<1>11. believed' = Accepted(view)
  BY <1>1, <1>3 DEF Believed
<1> DEFINE v == View(info)
           full == Candidates(text)[s.name] >= MaxSigCandidates
<1>12. v.print = print /\ v.sigs = info.sigs /\ v.sig_pqc = info.sig_pqc
  BY DEF View, print
<1>13. /\ IsText(text) /\ IsText(text') /\ info # Malformed /\ s.name \in Names
       /\ ToSet(info.sigs) = L /\ ToSet(info.sig_pqc) = M
       /\ IsList(info.sigs) /\ IsList(info.sig_pqc)
  <2>1. IsText(text) /\ IsText(text') /\ info # Malformed /\ s.name \in Names
    BY <1>1, <1>2, <1>3, PipelineOK DEF TextOK, Usable, Everyone
  <2> QED
    BY <2>1, ParseSays, ParseGives DEF Parsed, info, L, M
<1> HIDE DEF v
<1>14. Candidates(text)[s.name] = CandidatesAmong(ToSet(v.sigs), ToSet(v.sig_pqc), s.name)
  BY <1>12, <1>13, CandidatesOfText DEF L, M
<1>15. /\ Accepted(DualSigned(v, s.name, s.key)) = {b \in Accepted(v) : b[1].name # s.name} \cup Both(s)
       /\ \/ Accepted(Vouched(v, s.name, s.key)) = Accepted(v) \cup Both(s)
          \/ /\ CandidatesAmong(ToSet(v.sigs), ToSet(v.sig_pqc), s.name) >= MaxSigCandidates
             /\ Accepted(Vouched(v, s.name, s.key)) = Accepted(v) \cup {<<s, "classical">>}
  <2>1. IsList(v.sigs) /\ IsList(v.sig_pqc) /\ v.print \in Prints
    BY <1>4, <1>12, <1>13
  <2> QED
    BY <2>1, HopBelief
<1>16. /\ view = Vouched(v, s.name, s.key) =>
            \/ believed' = believed \cup Both(s)
            \/ full /\ believed' = believed \cup {<<s, "classical">>}
       /\ view = DualSigned(v, s.name, s.key) =>
            believed' = {b \in believed : b[1].name # s.name} \cup Both(s)
  BY <1>4, <1>11, <1>14, <1>15 DEF v
<1>17. /\ ed.name = s.name /\ DecodesSig(ed) /\ ml.name = s.name /\ DecodesSigPqc(ml)
  BY <1>4, OwnLines DEF ed, ml
<1>18. /\ view = Vouched(v, s.name, s.key) =>
            \E more \in {0, 1} : Candidates(text') = [Candidates(text) EXCEPT ![s.name] = @ + more]
       /\ view = DualSigned(v, s.name, s.key) =>
            Candidates(text') = [Candidates(text) EXCEPT ![s.name] = 1]
  <2>1. /\ L2 = L \cup {ed} /\ M2 = M \cup {ml} =>
             \E more \in {0, 1} : Candidates(text') = [Candidates(text) EXCEPT ![ed.name] = @ + more]
        /\ L2 = {l \in L : l.name # ed.name} \cup {ed} /\ M2 = {l \in M : l.name # ed.name} \cup {ml}
             => Candidates(text') = [Candidates(text) EXCEPT ![ed.name] = 1]
    BY <1>13, <1>17, HopCandidates DEF L, M, L2, M2
  <2> QED
    BY <1>3, <1>17, <2>1 DEF v
<1> QED
  BY <1>1, <1>4, <1>5, <1>10, <1>16, <1>18 DEF info, v, full

-----------------------------------------------------------------------------
\* Where a line comes from that neither sign nor a proxy wrote.
LineFrom(l, t) ==
  \/ \E j \in 1 .. Len(t) : l = t[j]
  \/ l.key = "" /\ l.layout \in Layouts
  \/ l.key \in DOMAIN OtherValues /\ l.value \in OtherValues[l.key] /\ l.layout \in Layouts
  \/ \E j \in 1 .. Len(t) : /\ l.key = t[j].key /\ l.value = t[j].value
                            /\ t[j].layout = "pair" /\ l.layout = "bare"
  \/ \E j \in 1 .. Len(t) : /\ l.key = "References" /\ t[j].key = "References"
                            /\ t[j].value # Empty /\ l.value = Reverse(t[j].value)
                            /\ l.layout = t[j].layout
TextFrom(u, t) == IsText(u) /\ \A i \in 1 .. Len(u) : LineFrom(u[i], t)

\* Such a line says what it may, and nothing new as a signature.
LEMMA FromIsOK ==
  ASSUME NEW t, TextOK(t), NEW u, TextFrom(u, t)
  PROVE  TextOK(u) /\ \A k \in {"Sig", "Sig-PQC"} : Sayings(u, k) \subseteq Sayings(t, k)
<1>1. IsText(t) /\ \A i \in 1 .. Len(t) : LineOK(t[i])
  BY DEF TextOK
<1>2. ASSUME NEW l, LineFrom(l, t)
      PROVE  LineOK(l) /\ \A k \in {"Sig", "Sig-PQC"} : SaysKey(l, k) => l.value \in Sayings(t, k)
  <2>1. CASE \E j \in 1 .. Len(t) : l = t[j]
    BY <1>1, <2>1 DEF Sayings
  <2>2. CASE l.key = "" /\ l.layout \in Layouts
    BY <2>2 DEF LineOK, FieldOK, SaysKey
  <2>3. CASE l.key \in DOMAIN OtherValues /\ l.value \in OtherValues[l.key] /\ l.layout \in Layouts
    <3>1. l.key \notin {"Sig", "Sig-PQC"}
      BY <2>3, PipelineOK
    <3>2. l.value \in Said(l.key)
      BY <2>3 DEF Said, Changed
    <3>3. l.key = "References" => RefsOK(l.value)
      BY <3>2, SaidReferences
    <3> QED
      BY <2>3, <3>1, <3>2, <3>3 DEF LineOK, FieldOK, SaysKey, CanBe
  <2>4. CASE \E j \in 1 .. Len(t) : /\ l.key = t[j].key /\ l.value = t[j].value
                                    /\ t[j].layout = "pair" /\ l.layout = "bare"
    BY <1>1, <2>4 DEF LineOK, FieldOK, SaysKey, Sayings, Layouts
  <2>5. CASE \E j \in 1 .. Len(t) : /\ l.key = "References" /\ t[j].key = "References"
                                    /\ t[j].value # Empty /\ l.value = Reverse(t[j].value)
                                    /\ l.layout = t[j].layout
    <3>1. PICK j \in 1 .. Len(t) : /\ l.key = "References" /\ t[j].key = "References"
                                   /\ t[j].value # Empty /\ l.value = Reverse(t[j].value)
                                   /\ l.layout = t[j].layout
      BY <2>5
    <3>2. t[j].value \in Seq(Nat) \ {<<>>} /\ InOrder(t[j].value) \in Orders /\ l.layout \in Layouts
      BY <1>1, <3>1 DEF LineOK, FieldOK, RefsOK
    <3>3. l.value \in Seq(Nat) \ {<<>>} /\ InOrder(l.value) \in Orders
      <4>1. /\ l.value \in Seq(Nat) /\ Len(l.value) = Len(t[j].value)
            /\ InOrder(l.value) = InOrder(t[j].value)
        BY <3>1, <3>2, OrderOfReverse
      <4> QED
        BY <3>2, <4>1, EmptySeq
    <3> QED
      BY <3>1, <3>2, <3>3 DEF LineOK, FieldOK, RefsOK, SaysKey
  <2> QED
    BY <1>2, <2>1, <2>2, <2>3, <2>4, <2>5 DEF LineFrom
<1>3. TextOK(u)
  BY <1>2 DEF TextFrom, TextOK
<1>4. ASSUME NEW k \in {"Sig", "Sig-PQC"} PROVE Sayings(u, k) \subseteq Sayings(t, k)
  <2>1. \A i \in 1 .. Len(u) : SaysKey(u[i], k) => u[i].value \in Sayings(t, k)
    BY <1>2 DEF TextFrom
  <2> QED
    BY <2>1 DEF Sayings
<1> QED
  BY <1>3, <1>4

\* The text itself is from the text, and a line after it keeps it so.
LEMMA OneMoreFrom ==
  ASSUME NEW t, IsText(t)
  PROVE  /\ TextFrom(t, t)
         /\ \A u, l : TextFrom(u, t) /\ IsLine(l) /\ LineFrom(l, t) => TextFrom(Append(u, l), t)
<1>1. TextFrom(t, t)
  BY DEF TextFrom, LineFrom
<1>2. ASSUME NEW u, NEW l, TextFrom(u, t), IsLine(l), LineFrom(l, t) PROVE TextFrom(Append(u, l), t)
  <2>1. /\ IsText(Append(u, l)) /\ Len(Append(u, l)) = Len(u) + 1 /\ Len(u) \in Nat
        /\ \A i \in 1 .. Len(u) : Append(u, l)[i] = u[i]
        /\ Append(u, l)[Len(u) + 1] = l
    BY <1>2, OneMore DEF TextFrom, IsText
  <2>2. \A i \in 1 .. Len(u) + 1 : i \in 1 .. Len(u) \/ i = Len(u) + 1
    BY <2>1
  <2> QED
    BY <1>2, <2>1, <2>2 DEF TextFrom
<1> QED
  BY <1>1, <1>2

\* Another layout takes every line from the text ...
LEMMA RelayoutLines == ASSUME IsText(text), Relayout PROVE TextFrom(text', text)
<1> DEFINE n == Len(text)
<1>1. n \in Nat /\ DOMAIN text = 1 .. n /\ \A i \in 1 .. n : IsLine(text[i])
  BY DEF IsText
<1>2. ASSUME text' = Reordered(text) PROVE TextFrom(text', text)
  <2>1. Reordered(text) = [i \in 1 .. n |-> text[(n - i) + 1]]
    BY DEF Reordered, Reverse
  <2> HIDE DEF n
  <2>2. \A i \in 1 .. n : (n - i) + 1 \in 1 .. n
    BY <1>1
  <2>3. IsText(text') /\ Len(text') = n
    BY <1>1, <1>2, <2>1, <2>2, TableIsText
  <2> QED
    BY <1>2, <2>1, <2>2, <2>3 DEF TextFrom, LineFrom, n
<1>3. ASSUME text' = Shuffled(text) PROVE TextFrom(text', text)
  <2> DEFINE f == [i \in 1 .. n |-> IF text[i].key = "References" /\ text[i].value # Empty
                                    THEN [text[i] EXCEPT !.value = Reverse(@)] ELSE text[i]]
  <2>1. text' = f
    BY <1>1, <1>3 DEF Shuffled
  <2>2. ASSUME NEW i \in 1 .. n PROVE IsLine(f[i]) /\ LineFrom(f[i], text)
    <3>1. IsLine(text[i])
      BY <1>1
    <3> QED
      BY <3>1 DEF IsLine, LineFrom
  <2>3. IsText(text') /\ Len(text') = n
    BY <1>1, <2>1, <2>2, TableIsText
  <2> QED
    BY <2>1, <2>2, <2>3 DEF TextFrom
<1>4. ASSUME text' = Spaced(text) PROVE TextFrom(text', text)
  <2> DEFINE l == [key |-> "", layout |-> "blank", value |-> Empty]
  <2>1. IsLine(l) /\ l.key = "" /\ l.layout \in Layouts
    BY DEF IsLine, Layouts
  <2>2. text' = Append(text, l)
    BY <1>4 DEF Spaced
  <2> HIDE DEF l
  <2> QED
    BY <2>1, <2>2, OneMoreFrom DEF LineFrom
<1>5. ASSUME text' = Trimmed(text) PROVE TextFrom(text', text)
  <2> DEFINE f == [i \in 1 .. n |-> IF text[i].value = Empty /\ text[i].layout = "pair"
                                    THEN [text[i] EXCEPT !.layout = "bare"] ELSE text[i]]
  <2>1. text' = f
    BY <1>1, <1>5 DEF Trimmed
  <2>2. ASSUME NEW i \in 1 .. n PROVE IsLine(f[i]) /\ LineFrom(f[i], text)
    <3>1. IsLine(text[i])
      BY <1>1
    <3> QED
      BY <3>1 DEF IsLine, LineFrom
  <2>3. IsText(text') /\ Len(text') = n
    BY <1>1, <2>1, <2>2, TableIsText
  <2> QED
    BY <2>1, <2>2, <2>3 DEF TextFrom
<1> QED
  BY <1>2, <1>3, <1>4, <1>5 DEF Relayout, Lossless, Shows

\* ... and so does what loses something.
LEMMA LossyLines ==
  ASSUME IsText(text), Edit \/ Truncate \/ DropPqc, \A i \in 1 .. Len(text) : text[i].layout \in Layouts
  PROVE  TextFrom(text', text)
<1> DEFINE n == Len(text)
<1>1. n \in Nat /\ DOMAIN text = 1 .. n /\ \A i \in 1 .. n : IsLine(text[i])
  BY DEF IsText
<1>2. CASE Edit
  <2>1. PICK i \in 1 .. n : /\ text[i].key \in DOMAIN OtherValues
                            /\ \E v \in OtherValues[text[i].key] :
                                 \/ text' = [text EXCEPT ![i].value = v]
                                 \/ text' = Append(text, Pair(text[i].key, v))
    BY <1>1, <1>2 DEF Edit, Lossy, Shows
  <2> PICK v \in OtherValues[text[i].key] : \/ text' = [text EXCEPT ![i].value = v]
                                           \/ text' = Append(text, Pair(text[i].key, v))
    BY <2>1
  <2>2. CASE text' = [text EXCEPT ![i].value = v]
    <3> DEFINE f == [j \in 1 .. n |-> IF j = i THEN [text[j] EXCEPT !.value = v] ELSE text[j]]
    <3>1. text' = f
      BY <1>1, <2>2 DEF IsText
    <3>2. \A j \in 1 .. n : IsLine(f[j])
      BY <1>1 DEF IsLine
    <3>3. LineFrom(f[i], text)
      <4>1. f[i].key = text[i].key /\ f[i].layout = text[i].layout /\ f[i].value = v
        BY <1>1 DEF IsLine
      <4> HIDE DEF f
      <4> QED
        BY <2>1, <4>1 DEF LineFrom
    <3>4. \A j \in 1 .. n : j # i => LineFrom(f[j], text)
      BY DEF LineFrom
    <3>5. f = [j \in 1 .. n |-> f[j]]
      OBVIOUS
    <3> HIDE DEF f
    <3>6. IsText(text') /\ Len(text') = n
      BY <1>1, <3>1, <3>2, <3>5, TableIsText
    <3> QED
      BY <3>1, <3>3, <3>4, <3>6 DEF TextFrom
  <2>3. CASE text' = Append(text, Pair(text[i].key, v))
    <3> DEFINE l == Pair(text[i].key, v)
    <3>1. IsLine(l) /\ LineFrom(l, text)
      BY <2>1 DEF Pair, IsLine, LineFrom, Layouts
    <3> HIDE DEF l
    <3>2. text' = Append(text, l)
      BY <2>3 DEF l
    <3> QED
      BY <3>1, <3>2, OneMoreFrom
  <2> QED
    BY <2>1, <2>2, <2>3
<1>3. CASE Truncate
  <2> DEFINE l == [key |-> "", layout |-> "junk", value |-> Empty]
  <2>1. PICK m \in 0 .. n - 1 : text' = SubSeq(text, 1, m) \/ text' = Append(SubSeq(text, 1, m), l)
    BY <1>3 DEF Truncate, Lossy, Shows
  <2> DEFINE part == SubSeq(text, 1, m)
  <2>2. /\ IsText(part) /\ Len(part) = m /\ m \in Nat
        /\ \A i \in 1 .. m : part[i] = text[i] /\ i \in 1 .. n
    BY PartIsText
  <2>3. IsLine(l) /\ LineFrom(l, text)
    BY DEF IsLine, LineFrom, Layouts
  <2> HIDE DEF part, l
  <2>4. TextFrom(part, text)
    BY <2>2 DEF TextFrom, LineFrom, n
  <2>5. TextFrom(Append(part, l), text)
    BY <2>3, <2>4, OneMoreFrom
  <2> QED
    BY <2>1, <2>4, <2>5 DEF part
<1>4. CASE DropPqc
  <2> DEFINE I == {i \in DOMAIN text : text[i].key # "Sig-PQC"}
             S == Entries(text)
  <2>1. text' = Kept(text, I)
    BY <1>4 DEF DropPqc, Lossy, Shows
  <2>2. text \in Seq(S) /\ \A l \in S : IsLine(l) /\ LineFrom(l, text)
    BY <1>1, ListIsSeq, TextIsList DEF Entries, LineFrom
  <2> HIDE DEF I, S
  <2>3. text' \in Seq(S)
    BY <2>1, <2>2, KeptKeeps
  <2>4. \A i \in 1 .. Len(text') : text'[i] \in S
    BY <2>3, ElementOfSeq
  <2> QED
    BY <2>2, <2>3, <2>4, SeqIsList, TextIsList DEF TextFrom
<1> QED
  BY <1>2, <1>3, <1>4
-----------------------------------------------------------------------------
\* What Nix publishes is believed of Nix alone.
LEMMA InitInv == ASSUME Init
                 PROVE  /\ PipeInv /\ doc \in Docs
                        /\ vouched = {<<Nix, "classical", doc>>}
                        /\ believed = {<<Nix, "classical">>}
                        /\ Candidates(text) = [n \in Names |-> IF n = Nix.name THEN 1 ELSE 0]
<1> PICK o \in Originals : /\ text = o.text /\ doc = DocOf(o.text) /\ believed = Believed(o.text)
                           /\ vouched = {<<Nix, "classical", o.doc>>}
  BY DEF Init
<1> DEFINE info == Parse(text)
           print == Fingerprint(info)
           ed == SigLine(Nix.name, EdSign(Nix.key, print))
           L == Sayings(text, "Sig")
           M == Sayings(text, "Sig-PQC")
<1>1. /\ IsText(text) /\ DOMAIN text = 1 .. Len(text)
      /\ \A i \in 1 .. Len(text) : text[i].layout = "pair"
      /\ Usable(info) /\ info # Malformed
      /\ o.doc = Doc(info)
      /\ ToSet(info.sigs) = {ed}
      /\ info.sig_pqc = <<>>
  BY PipelineOK DEF Published, IsText, Usable
<1>2. hops = 0 /\ changes = 0 /\ layouts = 0 /\ MaxHops \in Nat /\ MaxChanges \in Nat /\ MaxLayouts \in Nat
  BY PipelineOK DEF Init
<1>3. FieldsOK(text)
  <2>1. ASSUME NEW i \in 1 .. Len(text) PROVE text[i].value \in Said(text[i].key)
    BY <1>1 DEF Said, SaysOf
  <2> QED
    BY <1>1, <2>1, SaidReferences DEF FieldsOK, FieldOK, CanBe
<1>4. L = {ed} /\ M = {}
  <2>1. ToSet(info.sig_pqc) = {}
    BY <1>1 DEF ToSet
  <2> QED
    BY <1>1, <2>1, ParseSays
<1>5. print \in Prints /\ print = SignedText(Doc(info)) /\ Doc(info) \in Docs
  BY <1>1, <1>3, PrintSayable
<1>6. Nix \in Everyone
  BY DEF Everyone
<1>7. /\ ed \in Lines /\ ed.name = Nix.name /\ DecodesSig(ed)
      /\ <<Nix.key, print, ed.sig>> \in EdValid
      /\ \A m : \A x \in Everyone : ed.name = x.name /\ <<x.key, m, ed.sig>> \in EdValid =>
           x = Nix /\ m = print
  BY <1>5, <1>6, OwnLines
<1>8. doc = Doc(info) /\ doc \in Docs /\ vouched = {<<Nix, "classical", doc>>}
  BY <1>1, <1>5 DEF DocOf
<1>9. print = SignedText(doc)
  BY <1>5, <1>8
<1> HIDE DEF info, print, ed
<1>10. TextOK(text)
  <2>1. \A i \in 1 .. Len(text) : text[i].key \in {"Sig", "Sig-PQC"} => text[i].value \in Lines
    <3>1. \A i \in 1 .. Len(text) : /\ text[i].key = "Sig" => text[i].value \in L
                                    /\ text[i].key = "Sig-PQC" => text[i].value \in M
      BY <1>1 DEF Sayings, SaysKey
    <3> QED
      BY <1>4, <1>7, <3>1
  <2> QED
    BY <1>1, <1>3, <2>1 DEF TextOK, FieldsOK, LineOK, Layouts
<1>11. Behind(L, M, vouched)
  <2>1. Signed(vouched, Nix, "classical", print)
    BY <1>8, <1>9 DEF Signed
  <2> QED
    BY <1>4, <1>7, <2>1 DEF Behind
<1>12. PipeInv
  BY <1>2, <1>6, <1>8, <1>10, <1>11 DEF PipeInv
<1>13. believed = {<<Nix, "classical">>}
  <2>1. \A x \in Everyone : EdBy(x, print, L) <=> x = Nix
    BY <1>4, <1>6, <1>7 DEF EdBy
  <2>2. \A x : ~MlBy(x, print, M)
    BY <1>4 DEF MlBy
  <2>3. Believed(text) \subseteq BeliefIn(print, L, M)
    BY <1>1, BelievedIs DEF info, print
  <2>4. ASSUME NEW s \in Everyone PROVE <<s, "classical">> \in Believed(text) <=> EdBy(s, print, L)
    BY <1>1, BelievedIs DEF info, print
  <2> HIDE DEF L, M
  <2>5. BeliefIn(print, L, M) \subseteq {<<Nix, "classical">>}
    BY <2>1, <2>2 DEF BeliefIn
  <2>6. <<Nix, "classical">> \in Believed(text)
    BY <1>6, <2>1, <2>4
  <2> QED
    BY <2>3, <2>5, <2>6
<1>14. Candidates(text) = [n \in Names |-> IF n = Nix.name THEN 1 ELSE 0]
  <2>1. Candidates(text) = [n \in Names |-> CandidatesAmong(L, M, n)]
    BY <1>1, CandidatesOfText
  <2>2. Cardinality({}) = 0 /\ Cardinality({ed.sig}) = 1
    BY FS_EmptySet, FS_Singleton
  <2> HIDE DEF L, M
  <2>3. ASSUME NEW n PROVE CandidatesAmong(L, M, n) = IF n = Nix.name THEN 1 ELSE 0
    <3>1. EdSigs(L, n) = IF n = Nix.name THEN {ed.sig} ELSE {}
      BY <1>4, <1>7 DEF EdSigs
    <3>2. MlSigs(M, n) = {}
      BY <1>4 DEF MlSigs
    <3> QED
      BY <2>2, <3>1, <3>2 DEF CandidatesAmong
  <2> QED
    BY <2>1, <2>3
<1> QED
  BY <1>8, <1>12, <1>13, <1>14

\* What happens on the way leaves the invariant, and what was signed, as it is.
LEMMA OtherSteps ==
  ASSUME PipeInv, Relayout \/ Edit \/ Truncate \/ DropPqc
  PROVE  /\ PipeInv' /\ vouched' = vouched
         /\ Candidates(text') \in [Names -> Nat]
         /\ \A n \in Names : Candidates(text')[n] =< Candidates(text)[n]
<1>1. /\ doc' = DocOf(text') /\ believed' = Believed(text')
      /\ UNCHANGED <<vouched, hops>>
      /\ changes' \in 0 .. MaxChanges /\ layouts' \in 0 .. MaxLayouts
  <2>1. changes \in 0 .. MaxChanges /\ layouts \in 0 .. MaxLayouts /\ MaxChanges \in Nat /\ MaxLayouts \in Nat
    BY PipelineOK DEF PipeInv
  <2>2. ASSUME NEW t, Lossless(t) \/ Lossy(t)
        PROVE  /\ doc' = DocOf(text') /\ believed' = Believed(text')
               /\ UNCHANGED <<vouched, hops>>
               /\ changes' \in 0 .. MaxChanges /\ layouts' \in 0 .. MaxLayouts
    BY <2>1, <2>2 DEF Lossless, Lossy, Shows
  <2>3. \E t : Lossless(t) \/ Lossy(t)
    BY DEF Relayout, Edit, Truncate, DropPqc
  <2> QED
    BY <2>2, <2>3
<1>2. TextFrom(text', text)
  BY RelayoutLines, LossyLines DEF PipeInv, TextOK, LineOK
<1>3. TextOK(text') /\ \A k \in {"Sig", "Sig-PQC"} : Sayings(text', k) \subseteq Sayings(text, k)
  BY <1>2, FromIsOK DEF PipeInv
<1>4. /\ Candidates(text') \in [Names -> Nat]
      /\ \A n \in Names : Candidates(text')[n] =< Candidates(text)[n]
  <2> DEFINE L == Sayings(text, "Sig")
             M == Sayings(text, "Sig-PQC")
             K == Sayings(text', "Sig")
             N == Sayings(text', "Sig-PQC")
  <2>1. IsText(text) /\ IsText(text') /\ K \in SUBSET L /\ N \in SUBSET M
    BY <1>3 DEF PipeInv, TextOK
  <2>2. /\ IsFiniteSet(L) /\ IsFiniteSet(M) /\ IsFiniteSet(K) /\ IsFiniteSet(N)
        /\ Candidates(text) = [n \in Names |-> CandidatesAmong(L, M, n)]
        /\ Candidates(text') = [n \in Names |-> CandidatesAmong(K, N, n)]
    BY <2>1, CandidatesOfText
  <2> HIDE DEF L, M, K, N
  <2>3. ASSUME NEW n
        PROVE  CandidatesAmong(K, N, n) \in Nat /\ CandidatesAmong(K, N, n) =< CandidatesAmong(L, M, n)
    BY <2>1, <2>2, CandidatesCount
  <2> QED
    BY <2>2, <2>3
<1>5. Behind(Sayings(text', "Sig"), Sayings(text', "Sig-PQC"), vouched)
  BY <1>3 DEF PipeInv, Behind
<1> QED
  BY <1>1, <1>3, <1>4, <1>5 DEF PipeInv

\* Whatever is done to a document, every entry in it was made by the signer it
\* verifies for, and nothing in it says what was never said.
THEOREM PipeInvariant == Spec => []PipeInv
<1>1. Init => PipeInv
  BY InitInv
<1>2. PipeInv /\ [Next]_pipelineVars => PipeInv'
  <2> SUFFICES ASSUME PipeInv, [Next]_pipelineVars PROVE PipeInv'
    OBVIOUS
  <2>1. CASE UNCHANGED pipelineVars
    BY <2>1 DEF pipelineVars, PipeInv
  <2>2. ASSUME NEW s \in Signers, SignHop(s) PROVE PipeInv'
    BY <2>2, HopStep DEF SignHop, Everyone
  <2>3. ASSUME NEW s \in Proxies, NEW u \in Everyone, ProxyHop(s, u) PROVE PipeInv'
    BY <2>3, HopStep DEF ProxyHop, Everyone
  <2> QED
    BY <2>1, <2>2, <2>3, OtherSteps DEF Next
<1> QED
  BY <1>1, <1>2, PTL DEF Spec

\* Lines that carry a signature hold one, and what is believed, said and signed
\* is of the signers and documents there are, with the counters in their bounds.
THEOREM PipelineTypeTheorem == Spec => []PipelineTypeOK
<1>1. PipeInv => PipelineTypeOK
  <2> SUFFICES ASSUME PipeInv PROVE PipelineTypeOK
    OBVIOUS
  <2>1. DOMAIN text = 1 .. Len(text) /\ \A i \in 1 .. Len(text) : LineOK(text[i])
    BY DEF PipeInv, TextOK, IsText
  <2>2. doc \in Docs \cup {NoDoc} /\ believed \subseteq Everyone \X {"classical", "hybrid"}
    BY BelievedFrom DEF PipeInv
  <2> QED
    BY <2>1, <2>2 DEF PipeInv, PipelineTypeOK, LineOK
<1> QED
  BY <1>1, PipeInvariant, PTL
-----------------------------------------------------------------------------
\* The signatures that a client believes are the ones that were made.
LEMMA InitRefines == Init => Claims!Init
BY InitInv DEF Claims!Init

\* A hop is a signature, with or without what was believed before, and all else
\* an alteration that makes nobody believed of what differs, in its fingerprint,
\* from all that they have signed.
LEMMA StepRefines ==
  ASSUME PipeInv, [Next]_pipelineVars
  PROVE  [Claims!Next]_(Claims!vars)
<1>1. CASE UNCHANGED pipelineVars
  BY <1>1 DEF pipelineVars, Claims!vars
<1>2. \A s : Claims!Both(s) = Both(s) /\ {<<s, l, doc>> : l \in Claims!Levels} =
               {<<s, l, doc>> : l \in {"classical", "hybrid"}}
  BY DEF Claims!Both, Claims!Levels, Both
<1>3. ASSUME NEW s \in Signers, SignHop(s) PROVE Claims!Next
  <2>1. s \in Everyone
    BY DEF Everyone
  <2>2. Claims!Sign(s)
    BY <1>2, <1>3, <2>1, HopStep DEF SignHop, Claims!Sign, Claims!Vouch
  <2> QED
    BY <2>2 DEF Claims!Next
<1>4. ASSUME NEW s \in Proxies, NEW u \in Everyone, ProxyHop(s, u) PROVE Claims!Next
  <2>1. s \in Everyone
    BY DEF Everyone
  <2>2. believed # {}
    <3>1. Usable(Parse(text)) /\ ClassicalOk(View(Parse(text)), u.name, u.key)
      BY <1>4 DEF ProxyHop, Hop
    <3>2. <<u, "classical">> \in Accepted(View(Parse(text)))
      BY <3>1 DEF Accepted
    <3> QED
      BY <3>1, <3>2 DEF PipeInv, Believed
  <2>3. Claims!Countersign(s)
    BY <1>2, <1>4, <2>1, <2>2, HopStep DEF ProxyHop, Claims!Countersign, Claims!Vouch
  <2> QED
    BY <2>3 DEF Claims!Next
<1>5. CASE Relayout \/ Edit \/ Truncate \/ DropPqc
  <2>1. /\ PipeInv' /\ vouched' = vouched
        /\ Candidates(text') \in [Names -> Nat]
        /\ \A n \in Names : Candidates(text')[n] =< Candidates(text)[n]
    BY <1>5, OtherSteps
  <2>2. /\ TextOK(text') /\ doc' = DocOf(text') /\ believed' = Believed(text')
        /\ Behind(Sayings(text', "Sig"), Sayings(text', "Sig-PQC"), vouched')
    BY <2>1 DEF PipeInv
  <2>3. doc' \in Docs \cup {NoDoc}
    BY <2>2, BelievedFrom
  <2>4. ASSUME NEW b \in believed'
        PROVE  /\ doc' \in Docs
               /\ \E d \in Docs : <<b[1], b[2], d>> \in vouched /\ PrintOf[d] = PrintOf[doc']
    <3>1. doc' \in Docs /\ Signed(vouched, b[1], b[2], SignedText(doc'))
      BY <2>1, <2>2, BelievedFrom
    <3> QED
      BY <3>1 DEF Signed, PrintOf
  <2> QED
    BY <2>1, <2>3, <2>4 DEF Claims!Next, Claims!Alter
<1> QED
  BY <1>1, <1>3, <1>4, <1>5 DEF Next

\* For any keys, documents and originals, however many hops and changes and
\* however many signatures of a name: a client believes each signer for exactly
\* what has the fingerprint of something that signer has signed, signing or
\* passing a document on takes no belief from signers of other names, and a proxy
\* is believed by both algorithms unless its name had as many candidates in the
\* text as verify_hybrid tries.
THEOREM Refinement == Spec => ImplementsProvenance
<1>1. PipeInv /\ [Next]_pipelineVars => [Claims!Next]_(Claims!vars)
  BY StepRefines
<1> QED
  BY <1>1, InitRefines, PipeInvariant, PTL DEF Spec, ImplementsProvenance, Claims!Spec
-----------------------------------------------------------------------------
\* What a text can say is a document of a path with a store directory.
LEMMA DocsAreDocs == ASSUME NEW d \in Docs PROVE IsDoc(d)
<1>1. PICK v \in Said("References") \cup {Empty} : d.refs = InOrder(SplitReferences(v))
  BY DEF Docs
<1>2. SplitReferences(v) \in Seq(Nat)
  <2>1. <<>> \in Seq(Nat)
    OBVIOUS
  <2> QED
    BY <1>1, <2>1, PipelineOK DEF SplitReferences
<1>3. d.refs \in Seq(Nat)
  BY <1>1, <1>2, OrderSorts
<1> QED
  BY <1>3 DEF IsDoc, Docs

\* Whatever the documents, keys and originals, and whatever is done to the text:
\* of a signer that signed no value with a separator in it a client believes no
\* path, hash or size that the signer did not sign together, and no other
\* references in a document without such values, although the fingerprint joins
\* its parts without escaping them.
THEOREM ExactTheorem == Spec => []BelievedAsSigned
<1>1. ASSUME PipeInv PROVE BelievedAsSigned
  <2> SUFFICES ASSUME NEW b \in believed,
                      \A d \in {v[3] : v \in {x \in vouched : x[1] = b[1] /\ x[2] = b[2]}} : Plain(d)
               PROVE  \E d \in {v[3] : v \in {x \in vouched : x[1] = b[1] /\ x[2] = b[2]}} :
                        /\ doc.path = d.path /\ doc.hash = d.hash /\ doc.size = d.size
                        /\ Plain(doc) => doc = d
    BY DEF BelievedAsSigned
  <2>1. doc \in Docs /\ Signed(vouched, b[1], b[2], SignedText(doc))
    BY <1>1, BelievedFrom DEF PipeInv
  <2>2. PICK d \in Docs : <<b[1], b[2], d>> \in vouched /\ SignedText(d) = SignedText(doc)
    BY <2>1 DEF Signed
  <2>3. d \in {v[3] : v \in {x \in vouched : x[1] = b[1] /\ x[2] = b[2]}}
    BY <2>2
  <2>4. Plain(d) /\ IsDoc(d) /\ IsDoc(doc)
    BY <2>1, <2>3, DocsAreDocs
  <2>5. /\ doc.path = d.path /\ doc.hash = d.hash /\ doc.size = d.size
        /\ Plain(doc) => doc.refs = d.refs
    BY <2>2, <2>4, PlainPrint
  <2>6. (doc.path = d.path /\ doc.hash = d.hash /\ doc.size = d.size /\ doc.refs = d.refs) => doc = d
    BY <2>1 DEF Docs
  <2> QED
    BY <2>3, <2>5, <2>6
<1> QED
  BY <1>1, PipeInvariant, PTL
-----------------------------------------------------------------------------
\* u has the lines of t, the i-th at p[i]; some without their space, some with
\* their references the other way round, and empty ones between them.
Rearranged(t, u, p) ==
  /\ p \in [1 .. Len(t) -> 1 .. Len(u)]
  /\ \A i \in 1 .. Len(t) :
       /\ u[p[i]].key = t[i].key
       /\ \/ u[p[i]].layout = t[i].layout
          \/ t[i].layout = "pair" /\ u[p[i]].layout = "bare"
       /\ \/ u[p[i]].value = t[i].value
          \/ /\ t[i].key = "References" /\ t[i].value # Empty
             /\ u[p[i]].value = Reverse(t[i].value)
  /\ \A j \in 1 .. Len(u) : \/ \E i \in 1 .. Len(t) : j = p[i]
                            \/ u[j].key = "" /\ u[j].layout = "blank"
  /\ \A i, j \in 1 .. Len(t) :
       t[i].key = t[j].key /\ t[i].key \in FieldKeys /\ i =< j => p[i] =< p[j]

\* The lines that say something are the same ones ...
LEMMA RearrangedSays ==
  ASSUME NEW t, IsText(t), NEW u, IsText(u), NEW p, Rearranged(t, u, p), NEW k \in Known
  PROVE  /\ \A i \in 1 .. Len(t) : SaysKey(t[i], k) <=> SaysKey(u[p[i]], k)
         /\ \A j \in 1 .. Len(u) : SaysKey(u[j], k) => \E i \in 1 .. Len(t) : j = p[i]
BY DEF Rearranged, SaysKey, Known, Always, Optional

\* ... and the last of those that say k is the same one.
LEMMA RearrangedMeans ==
  ASSUME NEW t, IsText(t), NEW u, IsText(u), NEW p, Rearranged(t, u, p), NEW k \in FieldKeys
  PROVE  \/ Means(t, k) = DefaultOf(k) /\ Means(u, k) = DefaultOf(k)
         \/ \E i \in 1 .. Len(t) : /\ t[i].key = k
                                   /\ Means(t, k) = t[i].value /\ Means(u, k) = u[p[i]].value
<1>1. /\ Len(t) \in Nat /\ Len(u) \in Nat
      /\ \A i \in 1 .. Len(t) : p[i] \in 1 .. Len(u)
      /\ \A i, j \in 1 .. Len(t) : t[i].key = k /\ t[j].key = k /\ i =< j => p[i] =< p[j]
  <2>1. Len(t) \in Nat /\ Len(u) \in Nat
    BY DEF IsText
  <2>2. \A i \in 1 .. Len(t) : p[i] \in 1 .. Len(u)
    BY DEF Rearranged
  <2>3. ASSUME NEW i \in 1 .. Len(t), NEW j \in 1 .. Len(t), t[i].key = k, t[j].key = k, i =< j
        PROVE  p[i] =< p[j]
    <3>1. \A m, l \in 1 .. Len(t) :
            t[m].key = t[l].key /\ t[m].key \in FieldKeys /\ m =< l => p[m] =< p[l]
      BY DEF Rearranged
    <3>2. t[i].key = t[j].key /\ t[i].key \in FieldKeys
      BY <2>3
    <3> QED
      BY <2>3, <3>1, <3>2
  <2> QED
    BY <2>1, <2>2, <2>3
<1>2. k \in Known
  BY DEF FieldKeys, Known
<1>3. /\ \A i \in 1 .. Len(t) : SaysKey(t[i], k) <=> SaysKey(u[p[i]], k)
      /\ \A j \in 1 .. Len(u) : SaysKey(u[j], k) => \E i \in 1 .. Len(t) : j = p[i]
  BY <1>2, RearrangedSays
<1>4. /\ LastSaid(t, Len(t), k, DefaultOf(k), Means(t, k))
      /\ LastSaid(u, Len(u), k, DefaultOf(k), Means(u, k))
  BY LastWritten DEF Means
<1>5. CASE \A i \in 1 .. Len(t) : ~SaysKey(t[i], k)
  <2>1. \A j \in 1 .. Len(u) : ~SaysKey(u[j], k)
    BY <1>3, <1>5
  <2> QED
    BY <1>4, <1>5, <2>1 DEF LastSaid
<1>6. CASE \E i \in 1 .. Len(t) : SaysKey(t[i], k)
  <2>1. PICK i \in 1 .. Len(t) : /\ SaysKey(t[i], k) /\ Means(t, k) = t[i].value
                                 /\ \A j \in 1 .. Len(t) : SaysKey(t[j], k) => j =< i
    BY <1>4, <1>6 DEF LastSaid
  <2>2. p[i] \in 1 .. Len(u) /\ SaysKey(u[p[i]], k)
    BY <1>1, <1>3, <2>1
  <2>3. PICK j \in 1 .. Len(u) : /\ SaysKey(u[j], k) /\ Means(u, k) = u[j].value
                                 /\ \A m \in 1 .. Len(u) : SaysKey(u[m], k) => m =< j
    BY <1>4, <2>2 DEF LastSaid
  <2>4. PICK m \in 1 .. Len(t) : j = p[m]
    BY <1>3, <2>3
  <2>5. SaysKey(t[m], k) /\ m =< i
    BY <1>3, <2>1, <2>3, <2>4
  <2>6. j =< p[i] /\ p[i] =< j
    BY <1>1, <2>1, <2>2, <2>3, <2>4, <2>5 DEF SaysKey
  <2>7. j = p[i]
    BY <2>2, <2>6
  <2> QED
    BY <2>1, <2>3, <2>7 DEF SaysKey
<1> QED
  BY <1>5, <1>6

\* So the text says the same.
LEMMA RearrangedIsSame ==
  ASSUME NEW t, TextOK(t), NEW u, TextOK(u), NEW p, Rearranged(t, u, p)
  PROVE  SameText(t, u)
<1>1. /\ IsText(t) /\ IsText(u) /\ Len(t) \in Nat /\ Len(u) \in Nat
      /\ \A i \in 1 .. Len(t) : LineOK(t[i]) /\ p[i] \in 1 .. Len(u)
  BY DEF TextOK, IsText, Rearranged
<1>2. (\A i \in 1 .. Len(t) : ParsesLine(t[i])) <=> (\A j \in 1 .. Len(u) : ParsesLine(u[j]))
  <2>1. \A i \in 1 .. Len(t) : ParsesLine(t[i]) <=> ParsesLine(u[p[i]])
    BY DEF ParsesLine, Rearranged, Numbers
  <2>2. \A j \in 1 .. Len(u) : (\E i \in 1 .. Len(t) : j = p[i]) \/ ParsesLine(u[j])
    BY DEF ParsesLine, Rearranged, Numbers
  <2> QED
    BY <1>1, <2>1, <2>2
<1>3. ASSUME NEW k \in Always \cup Optional PROVE Means(t, k) = Means(u, k)
  <2>1. k \in FieldKeys /\ k # "References"
    BY DEF FieldKeys, Always, Optional
  <2>2. \A i \in 1 .. Len(t) : t[i].key = k => u[p[i]].value = t[i].value
    BY <2>1 DEF Rearranged
  <2> QED
    BY <1>1, <2>1, <2>2, RearrangedMeans
<1>4. LET r == SplitReferences(Means(t, "References"))
          q == SplitReferences(Means(u, "References"))
      IN  ToSet(r) = ToSet(q) /\ InOrder(r) = InOrder(q)
  <2>1. CASE Means(t, "References") = Means(u, "References")
    BY <2>1
  <2>2. ASSUME Means(t, "References") # Means(u, "References")
        PROVE  \E i \in 1 .. Len(t) : /\ t[i].key = "References" /\ t[i].value # Empty
                                      /\ Means(t, "References") = t[i].value
                                      /\ Means(u, "References") = Reverse(t[i].value)
    <3>1. "References" \in FieldKeys
      BY DEF FieldKeys
    <3>2. PICK i \in 1 .. Len(t) : /\ t[i].key = "References"
                                   /\ Means(t, "References") = t[i].value
                                   /\ Means(u, "References") = u[p[i]].value
      BY <1>1, <2>2, <3>1, RearrangedMeans
    <3>3. \/ u[p[i]].value = t[i].value
          \/ t[i].value # Empty /\ u[p[i]].value = Reverse(t[i].value)
      BY DEF Rearranged
    <3> QED
      BY <2>2, <3>2, <3>3
  <2>3. ASSUME NEW v, RefsOK(v), v # Empty
        PROVE  /\ SplitReferences(v) = v /\ SplitReferences(Reverse(v)) = Reverse(v)
               /\ ToSet(v) = ToSet(Reverse(v)) /\ InOrder(v) = InOrder(Reverse(v))
    <3>1. v \in Seq(Nat) /\ Empty \notin Seq(Nat)
      BY <2>3, PipelineOK DEF RefsOK
    <3>2. Reverse(v) \in Seq(Nat) /\ ToSet(Reverse(v)) = ToSet(v) /\ InOrder(Reverse(v)) = InOrder(v)
      BY <3>1, OrderOfReverse
    <3> QED
      BY <2>3, <3>1, <3>2 DEF SplitReferences
  <2>4. ASSUME Means(t, "References") # Means(u, "References")
        PROVE  RefsOK(Means(t, "References")) /\ Means(t, "References") # Empty
    BY <1>1, <2>2, <2>4 DEF LineOK, FieldOK
  <2> QED
    BY <2>1, <2>2, <2>3, <2>4
<1>5. ASSUME NEW k \in {"Sig", "Sig-PQC"} PROVE Sayings(t, k) = Sayings(u, k)
  <2>1. k \in Known /\ k # "References"
    BY DEF Known
  <2>2. /\ \A i \in 1 .. Len(t) : SaysKey(t[i], k) <=> SaysKey(u[p[i]], k)
        /\ \A j \in 1 .. Len(u) : SaysKey(u[j], k) => \E i \in 1 .. Len(t) : j = p[i]
    BY <1>1, <2>1, RearrangedSays
  <2>3. \A i \in 1 .. Len(t) : SaysKey(t[i], k) => u[p[i]].value = t[i].value
    BY <2>1 DEF Rearranged, SaysKey
  <2>4. Sayings(t, k) \subseteq Sayings(u, k)
    BY <1>1, <2>2, <2>3 DEF Sayings
  <2>5. Sayings(u, k) \subseteq Sayings(t, k)
    BY <1>1, <2>2, <2>3 DEF Sayings
  <2> QED
    BY <2>4, <2>5
<1> QED
  BY <1>2, <1>3, <1>4, <1>5 DEF SameText

\* Every other layout is such a text.
LEMMA RelayoutRearranges ==
  ASSUME IsText(text), Relayout
  PROVE  \E p : Rearranged(text, text', p)
<1> DEFINE n == Len(text)
           same == [i \in 1 .. n |-> i]
<1>1. n \in Nat /\ DOMAIN text = 1 .. n /\ \A i \in 1 .. n : IsLine(text[i])
  BY DEF IsText
<1>2. ASSUME text' = Reordered(text), NothingTwice PROVE \E p : Rearranged(text, text', p)
  <2> DEFINE p == [i \in 1 .. n |-> (n - i) + 1]
  <2>1. text' = [i \in 1 .. n |-> text[(n - i) + 1]]
    BY <1>2 DEF Reordered, Reverse
  <2> HIDE DEF n
  <2>2. /\ Len(text') = n
        /\ \A i \in 1 .. n : /\ p[i] \in 1 .. n /\ p[i] = (n - i) + 1 /\ (n - p[i]) + 1 = i
                             /\ text'[i] = text[p[i]]
    BY <1>1, <2>1
  <2>3. p \in [1 .. n -> 1 .. n]
    BY <2>2
  <2>4. \A i, j \in 1 .. n : text[i].key = text[j].key /\ text[i].key \in FieldKeys => i = j
    <3>1. FieldKeys \subseteq Known \ {"Sig", "Sig-PQC"}
      BY DEF FieldKeys, Known, Always, Optional
    <3> QED
      BY <1>1, <1>2, <3>1 DEF NothingTwice
  <2>5. \A i \in 1 .. n : p[p[i]] = i
    BY <2>2
  <2> HIDE DEF p
  <2>6. \A i \in 1 .. n : text'[p[i]] = text[i]
    BY <2>2, <2>5
  <2>7. Rearranged(text, text', p)
    <3>1. \A i, j \in 1 .. n : text[i].key = text[j].key /\ text[i].key \in FieldKeys => p[i] =< p[j]
      BY <1>1, <2>2, <2>4
    <3> QED
      BY <2>2, <2>3, <2>5, <2>6, <3>1 DEF Rearranged, n
  <2> QED
    BY <2>7
<1>3. ASSUME NEW f, text' = f, IsText(f), Len(f) = n,
             \A i \in 1 .. n :
               /\ f[i].key = text[i].key
               /\ \/ f[i].layout = text[i].layout
                  \/ text[i].layout = "pair" /\ f[i].layout = "bare"
               /\ \/ f[i].value = text[i].value
                  \/ /\ text[i].key = "References" /\ text[i].value # Empty
                     /\ f[i].value = Reverse(text[i].value)
      PROVE  Rearranged(text, text', same)
  BY <1>1, <1>3 DEF Rearranged
<1>4. ASSUME text' = Shuffled(text) PROVE \E p : Rearranged(text, text', p)
  <2> DEFINE f == [i \in 1 .. n |-> IF text[i].key = "References" /\ text[i].value # Empty
                                    THEN [text[i] EXCEPT !.value = Reverse(@)] ELSE text[i]]
  <2>1. text' = f
    BY <1>1, <1>4 DEF Shuffled
  <2>2. \A i \in 1 .. n : /\ IsLine(f[i])
                          /\ f[i].key = text[i].key /\ f[i].layout = text[i].layout
                          /\ \/ f[i].value = text[i].value
                             \/ /\ text[i].key = "References" /\ text[i].value # Empty
                                /\ f[i].value = Reverse(text[i].value)
    BY <1>1 DEF IsLine
  <2>3. f = [i \in 1 .. n |-> f[i]]
    OBVIOUS
  <2> HIDE DEF f
  <2>4. IsText(f) /\ Len(f) = n
    BY <1>1, <2>2, <2>3, TableIsText
  <2> HIDE DEF same, n
  <2> QED
    BY <1>3, <2>1, <2>2, <2>4
<1>5. ASSUME text' = Trimmed(text) PROVE \E p : Rearranged(text, text', p)
  <2> DEFINE f == [i \in 1 .. n |-> IF text[i].value = Empty /\ text[i].layout = "pair"
                                    THEN [text[i] EXCEPT !.layout = "bare"] ELSE text[i]]
  <2>1. text' = f
    BY <1>1, <1>5 DEF Trimmed
  <2>2. \A i \in 1 .. n : /\ IsLine(f[i])
                          /\ f[i].key = text[i].key /\ f[i].value = text[i].value
                          /\ \/ f[i].layout = text[i].layout
                             \/ text[i].layout = "pair" /\ f[i].layout = "bare"
    BY <1>1 DEF IsLine
  <2>3. f = [i \in 1 .. n |-> f[i]]
    OBVIOUS
  <2> HIDE DEF f
  <2>4. IsText(f) /\ Len(f) = n
    BY <1>1, <2>2, <2>3, TableIsText
  <2> HIDE DEF same, n
  <2> QED
    BY <1>3, <2>1, <2>2, <2>4
<1>6. ASSUME text' = Spaced(text) PROVE \E p : Rearranged(text, text', p)
  <2> DEFINE l == [key |-> "", layout |-> "blank", value |-> Empty]
  <2>1. IsLine(l) /\ l.key = "" /\ l.layout = "blank"
    BY DEF IsLine
  <2>2. text' = Append(text, l)
    BY <1>6 DEF Spaced
  <2> HIDE DEF l
  <2>3. /\ Len(text') = n + 1 /\ text'[n + 1] = l
        /\ \A i \in 1 .. n : text'[i] = text[i]
    BY <2>1, <2>2, OneMore
  <2> HIDE DEF n
  <2>4. \A j \in 1 .. n + 1 : j \in 1 .. n \/ j = n + 1
    BY <1>1
  <2>5. same \in [1 .. n -> 1 .. n + 1] /\ \A i \in 1 .. n : same[i] = i
    BY <1>1
  <2> HIDE DEF same
  <2>6. Rearranged(text, text', same)
    BY <2>1, <2>3, <2>4, <2>5 DEF Rearranged, n
  <2> QED
    BY <2>6
<1> QED
  BY <1>2, <1>4, <1>5, <1>6 DEF Relayout, Lossless, Shows

\* Whatever a document went through: with its lines or its references in another
\* order, an empty line or no space after an empty key it is still the same
\* document, and believed of the same signers by the classical algorithm, and by
\* both unless the name has more candidates than verify_hybrid tries.
THEOREM LayoutTheorem == Spec => LayoutDoesNotMatter
<1> DEFINE Same == /\ doc' = doc
                   /\ \A s \in Everyone, l \in {"classical", "hybrid"} :
                        l = "classical" \/ Candidates(text)[s.name] =< MaxSigCandidates =>
                          (<<s, l>> \in believed <=> <<s, l>> \in believed')
<1>1. ASSUME PipeInv, Relayout PROVE Same
  <2>1. PipeInv'
    BY <1>1, OtherSteps
  <2>2. /\ TextOK(text) /\ doc = DocOf(text) /\ believed = Believed(text)
        /\ TextOK(text') /\ doc' = DocOf(text') /\ believed' = Believed(text')
    BY <1>1, <2>1 DEF PipeInv
  <2>3. IsText(text) /\ IsText(text')
    BY <2>2 DEF TextOK
  <2>4. SameText(text, text')
    BY <1>1, <2>2, <2>3, RelayoutRearranges, RearrangedIsSame
  <2>5. /\ Usable(Parse(text)) <=> Usable(Parse(text'))
        /\ Usable(Parse(text)) => /\ Fingerprint(Parse(text)) = Fingerprint(Parse(text'))
                                  /\ Doc(Parse(text)) = Doc(Parse(text'))
    BY <2>3, <2>4, SameTextReads DEF Usable, HasStoreDir, Always
  <2>6. Sayings(text, "Sig") = Sayings(text', "Sig") /\ Sayings(text, "Sig-PQC") = Sayings(text', "Sig-PQC")
    BY <2>4 DEF SameText
  <2>7. Candidates(text) = Candidates(text')
    BY <2>3, <2>6, CandidatesOfText
  <2>8. doc' = doc
    BY <2>2, <2>5 DEF DocOf
  <2>9. CASE ~Usable(Parse(text))
    BY <2>2, <2>5, <2>8, <2>9 DEF Believed
  <2>10. CASE Usable(Parse(text))
    <3> DEFINE print == Fingerprint(Parse(text))
               L == Sayings(text, "Sig")
               M == Sayings(text, "Sig-PQC")
    <3>1. ASSUME NEW t \in {text, text'}, NEW s \in Everyone
          PROVE  /\ <<s, "classical">> \in Believed(t) <=> EdBy(s, print, L)
                 /\ Candidates(text)[s.name] =< MaxSigCandidates =>
                      (<<s, "hybrid">> \in Believed(t) <=> <<s, "hybrid">> \in BeliefIn(print, L, M))
      <4>1. /\ IsText(t) /\ Usable(Parse(t)) /\ Fingerprint(Parse(t)) = print
            /\ Sayings(t, "Sig") = L /\ Sayings(t, "Sig-PQC") = M /\ Candidates(t) = Candidates(text)
        BY <2>3, <2>5, <2>6, <2>7, <2>10
      <4>2. <<s, "classical">> \in Believed(t) <=> EdBy(s, Fingerprint(Parse(t)), Sayings(t, "Sig"))
        BY <4>1, BelievedIs
      <4>3. Candidates(t)[s.name] =< MaxSigCandidates =>
              (<<s, "hybrid">> \in Believed(t) <=>
                 <<s, "hybrid">> \in
                   BeliefIn(Fingerprint(Parse(t)), Sayings(t, "Sig"), Sayings(t, "Sig-PQC")))
        BY <4>1, BelievedIs
      <4> HIDE DEF print, L, M
      <4> QED
        BY <4>1, <4>2, <4>3
    <3> QED
      BY <2>2, <2>8, <3>1
  <2> QED
    BY <2>9, <2>10
<1>2. PipeInv /\ [Next]_pipelineVars => [Relayout => Same]_pipelineVars
  BY <1>1
<1> QED
  BY <1>2, PipeInvariant, PTL DEF Spec, LayoutDoesNotMatter
-----------------------------------------------------------------------------
\* The lines that sign and the proxy make, and those of other names among them.
LEMMA SignedLines ==
  ASSUME NEW l, IsList(l), NEW line
  PROVE  /\ IsList(Append(Others(l, line.name), line)) /\ IsList(Append(l, line))
         /\ Others(Append(Others(l, line.name), line), line.name) = Others(l, line.name)
         /\ Others(Append(l, line), line.name) = Others(l, line.name)
<1> DEFINE S == Entries(l) \cup {line}
<1>1. l \in Seq(S) /\ line \in S
  BY ListIsSeq, SeqMonotonic
<1> HIDE DEF S
<1>2. /\ Append(Others(l, line.name), line) \in Seq(S)
      /\ Others(Append(Others(l, line.name), line), line.name) = Others(l, line.name)
  BY <1>1, ReplacedLines
<1>3. /\ Append(l, line) \in Seq(S)
      /\ Others(Append(l, line), line.name) = Others(l, line.name)
  BY <1>1, AppendProperties, OthersOfAppend
<1> QED
  BY <1>2, <1>3, SeqIsList

\* A hop writes a text, and only the lines of its name differ when it is read back.
LEMMA HopKeeps ==
  ASSUME NEW s, IsText(text), SignHop(s) \/ \E u \in Everyone : ProxyHop(s, u)
  PROVE  LET old == Parse(text)
             new == Parse(text')
         IN  /\ IsText(text')
             /\ new # Malformed
             /\ new.field = old.field
             /\ new.references = old.references
             /\ new.extra = old.extra
             /\ Others(new.sigs, s.name) = Others(old.sigs, s.name)
             /\ Others(new.sig_pqc, s.name) = Others(old.sig_pqc, s.name)
<1> DEFINE old == Parse(text)
           ed == SigLine(s.name, EdSign(s.key, View(old).print))
           ml == SigLine(s.name, MlSign(s.key, View(old).print))
           Result(view) == /\ IsList(view.sigs) /\ IsList(view.sig_pqc)
                           /\ Others(view.sigs, s.name) = Others(old.sigs, s.name)
                           /\ Others(view.sig_pqc, s.name) = Others(old.sig_pqc, s.name)
<1>1. ed.name = s.name /\ ml.name = s.name
  BY DEF SigLine
<1>2. View(old).sigs = old.sigs /\ View(old).sig_pqc = old.sig_pqc
  BY DEF View
<1>3. PICK view \in {DualSigned(View(old), s.name, s.key), Vouched(View(old), s.name, s.key)} :
        old # Malformed /\ text' = ToText(WithLines(old, view))
  BY DEF SignHop, ProxyHop, Hop, Usable, Shows
<1>4. Parsed(old)
  BY <1>3, ParseGives
<1> HIDE DEF old
<1>5. IsList(old.sigs) /\ IsList(old.sig_pqc)
  BY <1>4 DEF Parsed
<1> HIDE DEF ed, ml
<1>6. Result(view)
  <2>1. /\ Result([print |-> View(old).print, sigs |-> Append(Others(old.sigs, s.name), ed),
                   sig_pqc |-> Append(Others(old.sig_pqc, s.name), ml)])
        /\ Result([print |-> View(old).print, sigs |-> Append(old.sigs, ed),
                   sig_pqc |-> Append(old.sig_pqc, ml)])
    BY <1>1, <1>5, SignedLines
  <2> QED
    BY <1>2, <1>3, <2>1 DEF DualSigned, Vouched, ed, ml
<1>7. LET new == Parse(text')
      IN  /\ IsText(text') /\ new # Malformed
          /\ new.field = old.field /\ new.references = old.references /\ new.extra = old.extra
          /\ new.sigs = view.sigs /\ new.sig_pqc = view.sig_pqc
  BY <1>3, <1>4, <1>6, HopWrites
<1> QED
  BY <1>6, <1>7 DEF old

\* Whatever a document went through, and whatever it consists of, signing it and
\* passing it on keeps every field, reference, unknown line and line of another
\* name, in their order.
THEOREM HopsTheorem == Spec => HopsKeepTheRest
<1>1. ASSUME PipeInv, NEW s \in Everyone, SignHop(s) \/ (\E u \in Everyone : ProxyHop(s, u))
      PROVE  LET old == Parse(text)
                 new == Parse(text')
             IN  /\ new # Malformed
                 /\ new.field = old.field
                 /\ new.references = old.references
                 /\ new.extra = old.extra
                 /\ Others(new.sigs, s.name) = Others(old.sigs, s.name)
                 /\ Others(new.sig_pqc, s.name) = Others(old.sig_pqc, s.name)
  BY <1>1, HopKeeps DEF PipeInv, TextOK
<1>2. PipeInv /\ [Next]_pipelineVars =>
        [\A s \in Everyone : SignHop(s) \/ (\E u \in Everyone : ProxyHop(s, u)) =>
           LET old == Parse(text)
               new == Parse(text')
           IN  /\ new # Malformed
               /\ new.field = old.field
               /\ new.references = old.references
               /\ new.extra = old.extra
               /\ Others(new.sigs, s.name) = Others(old.sigs, s.name)
               /\ Others(new.sig_pqc, s.name) = Others(old.sig_pqc, s.name)]_pipelineVars
  BY <1>1
<1> QED
  BY <1>2, PipeInvariant, PTL DEF Spec, HopsKeepTheRest
=============================================================================
