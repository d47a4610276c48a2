--------------------------- MODULE SignatureProofs ---------------------------
(***************************************************************************)
(* Lemmas about the operators of Signatures, for lists of any length.  Two *)
(* facts about the natural numbers take the place of induction: the        *)
(* induction theorems of the library have a predicate as a parameter,      *)
(* which the provers cannot instantiate.                                   *)
(***************************************************************************)
EXTENDS Signatures, FiniteSetTheorems, SequenceTheorems, TLAPS

\* The least-number principle, which stands in for induction.
LEMMA LeastNumber ==
  ASSUME NEW S \in SUBSET Nat, S # {}
  PROVE  \E m \in S : \A k \in S : m =< k
<1> DEFINE Below == {0 .. n : n \in S}
<1>1. Below \subseteq FiniteSubsetsOf(Nat)
  <2> SUFFICES ASSUME NEW n \in S PROVE 0 .. n \in FiniteSubsetsOf(Nat)
    OBVIOUS
  <2>1. IsFiniteSet(0 .. n)
    BY FS_Interval
  <2> QED
    BY <2>1 DEF FiniteSubsetsOf
<1>2. Below # {}
  OBVIOUS
<1>3. PICK B \in Below : \A C \in Below : <<C, B>> \notin StrictSubsetOrdering(Nat)
  <2> HIDE DEF Below
  <2> QED
  BY <1>1, <1>2, FS_StrictSubsetOrderingWellFounded, WFMin
<1>4. PICK m \in S : B = 0 .. m
  OBVIOUS
<1>5. ASSUME NEW k \in S PROVE m =< k
  <2> SUFFICES ASSUME k < m PROVE FALSE
    OBVIOUS
  <2>1. 0 .. k \subseteq 0 .. m /\ 0 .. k # 0 .. m
    OBVIOUS
  <2>2. <<0 .. k, 0 .. m>> \in StrictSubsetOrdering(Nat)
    BY <2>1 DEF StrictSubsetOrdering
  <2> QED
    BY <1>3, <1>4, <2>2
<1> QED
  BY <1>5

\* Induction up to m, for a set in place of a predicate.
LEMMA InductionUpTo ==
  ASSUME NEW m \in Nat, NEW S, 0 \in S, \A n \in 1 .. m : n - 1 \in S => n \in S
  PROVE  0 .. m \subseteq S
<1> DEFINE Missing == (0 .. m) \ S
<1> SUFFICES ASSUME Missing # {} PROVE FALSE
  OBVIOUS
<1>1. PICK n \in Missing : \A k \in Missing : n =< k
  <2>1. Missing \in SUBSET Nat
    OBVIOUS
  <2> HIDE DEF Missing
  <2> QED
    BY <2>1, LeastNumber
<1>2. n \in 1 .. m /\ n - 1 \in 0 .. m /\ ~(n =< n - 1)
  OBVIOUS
<1> QED
  BY <1>1, <1>2

-----------------------------------------------------------------------------
\* The recursion that defines KeptAmong has a solution, so it may be used.
LEMMA KeptRec ==
  ASSUME NEW S, NEW lines \in Seq(S), NEW I
  PROVE  /\ KeptAmong(lines, I)[0] = <<>>
         /\ \A n \in 1 .. Len(lines) : KeptAmong(lines, I)[n] =
              IF n \in I THEN Append(KeptAmong(lines, I)[n - 1], lines[n])
              ELSE KeptAmong(lines, I)[n - 1]
<1> DEFINE Value(f, n) == IF n = 0 THEN <<>>
                          ELSE IF n \in I THEN Append(f[n - 1], lines[n])
                          ELSE f[n - 1]
           Solves(f, m) == f = [n \in 0 .. m |-> Value(f, n)]
           Solved == {m \in Nat : \E f : Solves(f, m)}
<1>1. Len(lines) \in Solved
  <2>1. 0 \in Solved
    <3>1. Solves([n \in 0 .. 0 |-> <<>>], 0)
      OBVIOUS
    <3> QED
      BY <3>1
  <2>2. ASSUME NEW m \in 1 .. Len(lines), m - 1 \in Solved PROVE m \in Solved
    <3>1. PICK f : Solves(f, m - 1)
      BY <2>2
    <3> DEFINE g == [n \in 0 .. m |-> IF n = m THEN Value(f, m) ELSE f[n]]
    <3>2. ASSUME NEW i \in 0 .. m - 1 PROVE f[i] = Value(f, i) /\ g[i] = f[i]
      <4>1. i \in 0 .. m /\ i # m
        OBVIOUS
      <4> HIDE DEF Value
      <4> QED
        BY <3>1, <4>1
    <3>3. ASSUME NEW n \in 0 .. m PROVE g[n] = Value(g, n)
      <4>1. n # 0 => n - 1 \in 0 .. m - 1
        OBVIOUS
      <4>2. Value(g, n) = Value(f, n)
        BY <3>2, <4>1
      <4>3. n = m \/ n \in 0 .. m - 1
        OBVIOUS
      <4> HIDE DEF Value
      <4> QED
        BY <3>2, <4>2, <4>3
    <3>4. g = [n \in 0 .. m |-> Value(g, n)]
      <4> HIDE DEF Value
      <4>1. g = [n \in 0 .. m |-> g[n]]
        OBVIOUS
      <4> HIDE DEF g
      <4> QED
        BY <3>3, <4>1
    <3>5. m \in Nat /\ Solves(g, m)
      BY <3>4
    <3> HIDE DEF Solves, g
    <3> QED
      BY <3>5
  <2> HIDE DEF Solved
  <2>3. 0 .. Len(lines) \subseteq Solved
    BY <2>1, <2>2, InductionUpTo, LenProperties
  <2> QED
    BY <2>3, LenProperties
<1>2. KeptAmong(lines, I) = CHOOSE f : Solves(f, Len(lines))
  BY DEF KeptAmong
<1>3. Solves(KeptAmong(lines, I), Len(lines))
  <2> HIDE DEF Solves
  <2> QED
    BY <1>1, <1>2
<1>4. \A n \in 0 .. Len(lines) :
        KeptAmong(lines, I)[n] = Value(KeptAmong(lines, I), n)
  <2> HIDE DEF Value
  <2> QED
    BY <1>3
<1> QED
  BY <1>4, LenProperties

\* What is kept is typed, and is what there is at the positions, and all of it.
LEMMA KeptKeeps ==
  ASSUME NEW S, NEW lines \in Seq(S), NEW I
  PROVE  LET part == Kept(lines, I)
         IN  /\ part \in Seq(S)
             /\ \A i \in DOMAIN part : \E j \in DOMAIN lines \cap I : part[i] = lines[j]
             /\ \A j \in DOMAIN lines \cap I : \E i \in DOMAIN part : part[i] = lines[j]
<1> DEFINE kept == KeptAmong(lines, I)
           Typed(n) == kept[n] \in Seq(S)
           Only(n) == \A i \in 1 .. Len(kept[n]) : \E j \in (1 .. n) \cap I : kept[n][i] = lines[j]
           Full(n) == \A j \in (1 .. n) \cap I : \E i \in 1 .. Len(kept[n]) : kept[n][i] = lines[j]
           Good == {n \in 0 .. Len(lines) : Typed(n) /\ Only(n) /\ Full(n)}
<1>1. Len(lines) \in Nat /\ DOMAIN lines = 1 .. Len(lines)
  BY LenProperties
<1>2. 0 \in Good
  <2>1. kept[0] = <<>>
    BY KeptRec
  <2> HIDE DEF kept
  <2>2. kept[0] \in Seq(S) /\ 1 .. Len(kept[0]) = {}
    BY <2>1, EmptySeq
  <2>3. 0 \in 0 .. Len(lines) /\ 1 .. 0 = {}
    BY <1>1
  <2> QED
    BY <2>2, <2>3
<1>3. ASSUME NEW n \in 1 .. Len(lines), n - 1 \in Good PROVE n \in Good
  <2> HIDE DEF kept
  <2>1. kept[n] = IF n \in I THEN Append(kept[n - 1], lines[n]) ELSE kept[n - 1]
    BY KeptRec DEF kept
  <2>2. lines[n] \in S
    BY <1>1, ElementOfSeq
  <2>3. 1 .. n = (1 .. n - 1) \cup {n} /\ n \in 0 .. Len(lines)
    BY <1>1
  <2>4. CASE n \notin I
    BY <1>3, <2>1, <2>3, <2>4
  <2>5. CASE n \in I
    <3>1. /\ kept[n] \in Seq(S)
          /\ Len(kept[n]) = Len(kept[n - 1]) + 1
          /\ \A i \in 1 .. Len(kept[n - 1]) : kept[n][i] = kept[n - 1][i]
          /\ kept[n][Len(kept[n - 1]) + 1] = lines[n]
      BY <1>3, <2>1, <2>2, <2>5, AppendProperties
    <3>2. /\ Len(kept[n - 1]) \in Nat
          /\ 1 .. Len(kept[n]) = (1 .. Len(kept[n - 1])) \cup {Len(kept[n - 1]) + 1}
      BY <1>3, <3>1, LenProperties
    <3>3. ASSUME NEW i \in 1 .. Len(kept[n])
          PROVE  \E j \in (1 .. n) \cap I : kept[n][i] = lines[j]
      <4>1. CASE i = Len(kept[n - 1]) + 1
        BY <2>3, <2>5, <3>1, <4>1
      <4>2. CASE i \in 1 .. Len(kept[n - 1])
        BY <1>3, <2>3, <3>1, <4>2
      <4> QED
        BY <3>2, <4>1, <4>2
    <3>4. ASSUME NEW j \in (1 .. n) \cap I
          PROVE  \E i \in 1 .. Len(kept[n]) : kept[n][i] = lines[j]
      <4>1. CASE j = n
        BY <3>1, <3>2, <4>1
      <4>2. CASE j \in 1 .. n - 1
        BY <1>3, <3>1, <3>2, <4>2
      <4> QED
        BY <2>3, <4>1, <4>2
    <3> QED
      BY <2>3, <3>1, <3>3, <3>4
  <2> QED
    BY <2>4, <2>5
<1>4. Len(lines) \in Good
  <2> HIDE DEF Good
  <2>1. 0 .. Len(lines) \subseteq Good
    BY <1>1, <1>2, <1>3, InductionUpTo
  <2> QED
    BY <1>1, <2>1
<1>5. Kept(lines, I) = kept[Len(lines)]
  BY DEF Kept
<1> HIDE DEF kept
<1>6. kept[Len(lines)] \in Seq(S)
  BY <1>4
<1>7. DOMAIN kept[Len(lines)] = 1 .. Len(kept[Len(lines)])
  BY <1>6, LenProperties
<1> QED
  BY <1>1, <1>4, <1>5, <1>6, <1>7

\* Of the lines of a name none is left, and every other line is.
LEMMA OthersKeeps ==
  ASSUME NEW S, NEW lines \in Seq(S), NEW name
  PROVE  /\ Others(lines, name) \in Seq(S)
         /\ \A i \in DOMAIN Others(lines, name) :
              /\ Others(lines, name)[i].name # name
              /\ \E j \in DOMAIN lines : lines[j] = Others(lines, name)[i]
         /\ \A j \in DOMAIN lines : lines[j].name # name =>
              \E i \in DOMAIN Others(lines, name) : Others(lines, name)[i] = lines[j]
<1> DEFINE I == {i \in DOMAIN lines : lines[i].name # name}
<1>1. /\ Kept(lines, I) \in Seq(S)
      /\ \A i \in DOMAIN Kept(lines, I) : \E j \in DOMAIN lines \cap I : Kept(lines, I)[i] = lines[j]
      /\ \A j \in DOMAIN lines \cap I : \E i \in DOMAIN Kept(lines, I) : Kept(lines, I)[i] = lines[j]
  <2> HIDE DEF I
  <2> QED
    BY KeptKeeps
<1> QED
  BY <1>1 DEF Others

\* The positions of an interval: that part of the sequence.
LEMMA KeptRange ==
  ASSUME NEW S, NEW lines \in Seq(S), NEW a \in Nat, NEW b \in Nat, a =< b, b =< Len(lines)
  PROVE  LET part == Kept(lines, a + 1 .. b)
         IN  /\ part \in Seq(S) /\ Len(part) = b - a
             /\ \A i \in 1 .. b - a : part[i] = lines[a + i]
<1> DEFINE kept == KeptAmong(lines, a + 1 .. b)
           Size(n) == IF n =< a THEN 0 ELSE IF n =< b THEN n - a ELSE b - a
           Good == {n \in 0 .. Len(lines) : /\ kept[n] \in Seq(S)
                                            /\ Len(kept[n]) = Size(n)
                                            /\ \A i \in 1 .. Size(n) : kept[n][i] = lines[a + i]}
<1>1. Len(lines) \in Nat /\ DOMAIN lines = 1 .. Len(lines)
  BY LenProperties
<1>2. 0 \in Good
  <2>1. kept[0] = <<>>
    BY KeptRec
  <2> HIDE DEF kept
  <2>2. kept[0] \in Seq(S) /\ Len(kept[0]) = 0
    BY <2>1, EmptySeq
  <2>3. 0 \in 0 .. Len(lines) /\ Size(0) = 0
    BY <1>1
  <2> QED
    BY <2>2, <2>3
<1>3. ASSUME NEW n \in 1 .. Len(lines), n - 1 \in Good PROVE n \in Good
  <2>1. kept[n] = IF n \in a + 1 .. b THEN Append(kept[n - 1], lines[n]) ELSE kept[n - 1]
    BY KeptRec
  <2> HIDE DEF kept
  <2>2. n \in 0 .. Len(lines) /\ lines[n] \in S
    BY <1>1, ElementOfSeq
  <2>3. CASE n \in a + 1 .. b
    <3>1. /\ kept[n] \in Seq(S)
          /\ Len(kept[n]) = Len(kept[n - 1]) + 1
          /\ \A i \in 1 .. Len(kept[n - 1]) : kept[n][i] = kept[n - 1][i]
          /\ kept[n][Len(kept[n - 1]) + 1] = lines[n]
      BY <1>3, <2>1, <2>2, <2>3, AppendProperties
    <3>2. Size(n - 1) = n - a - 1 /\ Size(n) = n - a
      BY <1>1, <2>3
    <3>3. \A i \in 1 .. n - a : i \in 1 .. n - a - 1 \/ i = n - a
      BY <1>1, <2>3
    <3>4. n - a - 1 + 1 = n - a /\ a + (n - a) = n
      BY <1>1, <2>3
    <3> HIDE DEF Size
    <3>5. Len(kept[n]) = n - a /\ kept[n][n - a] = lines[n]
      BY <1>3, <3>1, <3>2, <3>4
    <3>6. ASSUME NEW i \in 1 .. n - a PROVE kept[n][i] = lines[a + i]
      <4>1. CASE i = n - a
        BY <3>4, <3>5, <4>1
      <4>2. CASE i \in 1 .. n - a - 1
        BY <1>3, <3>1, <3>2, <4>2
      <4> QED
        BY <3>3, <4>1, <4>2
    <3> QED
      BY <2>2, <3>1, <3>2, <3>5, <3>6
  <2>4. CASE n \notin a + 1 .. b
    <3>1. Size(n) = Size(n - 1)
      BY <1>1, <2>4
    <3> HIDE DEF Size
    <3> QED
      BY <1>3, <2>1, <2>2, <2>4, <3>1
  <2> QED
    BY <2>3, <2>4
<1>4. Len(lines) \in Good
  <2> HIDE DEF Good
  <2>1. 0 .. Len(lines) \subseteq Good
    BY <1>1, <1>2, <1>3, InductionUpTo
  <2> QED
    BY <1>1, <2>1
<1>5. Size(Len(lines)) = b - a
  <2> HIDE DEF Good, kept
  <2> DEFINE m == Len(lines)
  <2>1. m \in Nat /\ b =< m
    BY <1>1
  <2> HIDE DEF m
  <2>2. Size(m) = b - a
    BY <2>1
  <2> QED
    BY <2>2 DEF m
<1> HIDE DEF kept, Size
<1>6. Kept(lines, a + 1 .. b) = kept[Len(lines)]
  BY DEF Kept, kept
<1> QED
  BY <1>4, <1>5, <1>6

\* All positions: all of the sequence.
LEMMA KeptAll ==
  ASSUME NEW S, NEW lines \in Seq(S)
  PROVE  Kept(lines, DOMAIN lines) = lines
<1> DEFINE a == 0
           b == Len(lines)
<1>1. a \in Nat /\ b \in Nat /\ a =< b /\ b =< Len(lines) /\ b - a = b /\ \A i \in 1 .. b : a + i = i
  BY LenProperties
<1>2. DOMAIN lines = a + 1 .. b
  BY LenProperties
<1> HIDE DEF a, b
<1>3. LET part == Kept(lines, a + 1 .. b)
      IN  /\ part \in Seq(S) /\ Len(part) = b - a
          /\ \A i \in 1 .. b - a : part[i] = lines[a + i]
  BY <1>1, KeptRange
<1>4. /\ Kept(lines, DOMAIN lines) \in Seq(S)
      /\ Len(Kept(lines, DOMAIN lines)) = Len(lines)
      /\ \A i \in 1 .. Len(lines) : Kept(lines, DOMAIN lines)[i] = lines[i]
  BY <1>1, <1>2, <1>3 DEF b
<1> QED
  BY <1>4, SeqEqual

\* Where no line has the name, nothing is dropped.
LEMMA OthersOfNone ==
  ASSUME NEW S, NEW lines \in Seq(S), NEW name, \A i \in DOMAIN lines : lines[i].name # name
  PROVE  Others(lines, name) = lines
<1>1. {i \in DOMAIN lines : lines[i].name # name} = DOMAIN lines
  OBVIOUS
<1> QED
  BY <1>1, KeptAll DEF Others

\* The lines before the last one are treated as if it were not there.
LEMMA OthersOfAppend ==
  ASSUME NEW S, NEW lines \in Seq(S), NEW e \in S, NEW name
  PROVE  Others(Append(lines, e), name) =
           IF e.name = name THEN Others(lines, name) ELSE Append(Others(lines, name), e)
<1> DEFINE longer == Append(lines, e)
           I == {i \in DOMAIN lines : lines[i].name # name}
           J == {i \in DOMAIN longer : longer[i].name # name}
           kept == KeptAmong(lines, I)
           more == KeptAmong(longer, J)
           Good == {n \in 0 .. Len(lines) : more[n] = kept[n]}
<1>1. Len(lines) \in Nat /\ DOMAIN lines = 1 .. Len(lines)
  BY LenProperties
<1>2. /\ longer \in Seq(S)
      /\ Len(longer) = Len(lines) + 1
      /\ \A i \in 1 .. Len(lines) : longer[i] = lines[i]
      /\ longer[Len(lines) + 1] = e
  BY AppendProperties
<1> HIDE DEF longer
<1>3. /\ more[0] = <<>>
      /\ \A n \in 1 .. Len(lines) + 1 :
           more[n] = IF n \in J THEN Append(more[n - 1], longer[n]) ELSE more[n - 1]
  BY <1>2, KeptRec
<1>4. 0 \in Good
  BY <1>1, <1>3, KeptRec
<1>5. ASSUME NEW n \in 1 .. Len(lines), n - 1 \in Good PROVE n \in Good
  <2>1. kept[n] = IF n \in I THEN Append(kept[n - 1], lines[n]) ELSE kept[n - 1]
    BY KeptRec
  <2>2. n \in 1 .. Len(lines) + 1 /\ n \in 0 .. Len(lines)
    BY <1>1
  <2> HIDE DEF kept, more
  <2> QED
    BY <1>2, <1>3, <1>5, <2>1, <2>2
<1>6. more[Len(lines)] = kept[Len(lines)]
  <2>1. 0 .. Len(lines) \subseteq Good
    <3> HIDE DEF Good
    <3> QED
      BY <1>1, <1>4, <1>5, InductionUpTo
  <2> HIDE DEF kept, more, I, J
  <2> QED
    BY <1>1, <2>1
<1>7. /\ Len(lines) + 1 \in 1 .. Len(lines) + 1
      /\ Len(lines) + 1 - 1 = Len(lines)
  BY <1>1
<1>8. more[Len(lines) + 1] = IF e.name = name THEN kept[Len(lines)] ELSE Append(kept[Len(lines)], e)
  <2> HIDE DEF kept, more
  <2> QED
    BY <1>2, <1>3, <1>6, <1>7
<1> QED
  BY <1>2, <1>8 DEF Others, Kept, longer

\* What one list of lines is once l has replaced those of its name.
OnlyLine(lines, l) == /\ \E i \in DOMAIN lines : lines[i] = l
                      /\ \A i \in DOMAIN lines : lines[i].name = l.name => lines[i] = l

\* Replacing the lines of a name: one line of it is left, where there was one
\* line of another name it stays, and the others keep their order.
LEMMA ReplacedLines ==
  ASSUME NEW S, NEW lines \in Seq(S), NEW l \in S
  PROVE  LET new == Append(Others(lines, l.name), l)
         IN  /\ new \in Seq(S)
             /\ {i \in DOMAIN new : new[i].name = l.name} = {Len(new)}
             /\ OnlyLine(new, l)
             /\ Others(new, l.name) = Others(lines, l.name)
             /\ \A m : m.name # l.name /\ OnlyLine(lines, m) => OnlyLine(new, m)
<1> DEFINE rest == Others(lines, l.name)
           new == Append(rest, l)
<1>1. /\ rest \in Seq(S)
      /\ \A i \in DOMAIN rest : rest[i].name # l.name /\ \E j \in DOMAIN lines : lines[j] = rest[i]
      /\ \A j \in DOMAIN lines : lines[j].name # l.name => \E i \in DOMAIN rest : rest[i] = lines[j]
  BY OthersKeeps
<1> HIDE DEF rest
<1>2. Len(rest) \in Nat /\ DOMAIN rest = 1 .. Len(rest)
  BY <1>1, LenProperties
<1>3. /\ new \in Seq(S)
      /\ Len(new) = Len(rest) + 1
      /\ \A i \in 1 .. Len(rest) : new[i] = rest[i]
      /\ new[Len(rest) + 1] = l
  BY <1>1, AppendProperties
<1>4. Others(new, l.name) = rest
  BY <1>1, OthersOfNone, OthersOfAppend
<1> HIDE DEF new
<1>5. DOMAIN new = DOMAIN rest \cup {Len(new)} /\ Len(new) \notin DOMAIN rest
  BY <1>2, <1>3, LenProperties
<1>6. {i \in DOMAIN new : new[i].name = l.name} = {Len(new)}
  BY <1>1, <1>2, <1>3, <1>5
<1>7. OnlyLine(new, l)
  BY <1>3, <1>5, <1>6 DEF OnlyLine
<1>8. ASSUME NEW m, m.name # l.name, OnlyLine(lines, m) PROVE OnlyLine(new, m)
  BY <1>1, <1>2, <1>3, <1>5, <1>8 DEF OnlyLine
<1> QED
  BY <1>3, <1>4, <1>6, <1>7, <1>8 DEF new, rest

-----------------------------------------------------------------------------
\* The candidates are positions in a list, so there are finitely many of them.
LEMMA CandidatesFinite ==
  ASSUME NEW S, NEW lines \in Seq(S), NEW C \in SUBSET DOMAIN lines
  PROVE  /\ C \in SUBSET Nat
         /\ IsFiniteSet(C)
         /\ IsFiniteSet(Payloads(lines, C))
<1>1. DOMAIN lines \in SUBSET Nat /\ IsFiniteSet(DOMAIN lines)
  <2>1. Len(lines) \in Nat /\ DOMAIN lines = 1 .. Len(lines)
    BY LenProperties
  <2>2. IsFiniteSet(1 .. Len(lines))
    BY <2>1, FS_Interval
  <2> QED
    BY <2>1, <2>2
<1>2. IsFiniteSet(C)
  BY <1>1, FS_Subset
<1>3. [i \in C |-> lines[i].sig] \in Surjection(C, Payloads(lines, C))
  BY DEF Surjection, Payloads
<1>4. IsFiniteSet(Payloads(lines, C))
  BY <1>2, <1>3, FS_Surjection
<1> QED
  BY <1>1, <1>2, <1>4

\* The cap never leaves out the first candidate.
LEMMA FirstIsTaken ==
  ASSUME NEW S, NEW lines \in Seq(S), NEW C \in SUBSET DOMAIN lines, C # {}
  PROVE  \E i \in C : i \in Taken(lines, C)
<1>1. PICK i \in C : \A j \in C : i =< j
  BY CandidatesFinite, LeastNumber
<1>2. \A j \in C : ~(j < i)
  BY <1>1, CandidatesFinite
<1>3. {j \in FirstOfEach(lines, C) : j < i} = {}
  BY <1>2 DEF FirstOfEach
<1>4. Cardinality({j \in FirstOfEach(lines, C) : j < i}) < MaxSigCandidates
  <2>1. Cardinality({}) = 0
    BY FS_EmptySet
  <2>2. 0 < MaxSigCandidates
    BY SignaturesOK
  <2> QED
    BY <1>3, <2>1, <2>2
<1> QED
  BY <1>2, <1>4 DEF Taken, FirstOfEach

\* Under the cap every candidate's signature is among those that are tried,
\* whatever duplicates stand before it.
LEMMA AllAreTaken ==
  ASSUME NEW S, NEW lines \in Seq(S), NEW C \in SUBSET DOMAIN lines, NEW i \in C,
         Cardinality(Payloads(lines, C)) =< MaxSigCandidates
  PROVE  \E j \in Taken(lines, C) : lines[j].sig = lines[i].sig
<1> DEFINE Same == {j \in C : lines[j].sig = lines[i].sig}
<1>1. PICK j \in Same : \A k \in Same : j =< k
  <2>1. Same \in SUBSET Nat /\ Same # {}
    BY CandidatesFinite
  <2> HIDE DEF Same
  <2> QED
    BY <2>1, LeastNumber
<1>2. j \in FirstOfEach(lines, C) /\ j \in Nat
  BY <1>1, CandidatesFinite DEF FirstOfEach
<1> DEFINE Before == {k \in FirstOfEach(lines, C) : k < j}
           Used == {lines[k].sig : k \in Before}
<1>3. Before \in SUBSET C /\ IsFiniteSet(Before)
  BY CandidatesFinite, FS_Subset DEF FirstOfEach
<1>4. [k \in Before |-> lines[k].sig] \in Bijection(Before, Used)
  <2>1. ASSUME NEW k \in Before, NEW m \in Before, lines[k].sig = lines[m].sig PROVE k = m
    BY <2>1, CandidatesFinite DEF FirstOfEach
  <2>2. [k \in Before |-> lines[k].sig] \in Injection(Before, Used)
    <3> HIDE DEF Before
    <3> QED
      BY <2>1 DEF Injection, IsInjective
  <2>3. [k \in Before |-> lines[k].sig] \in Surjection(Before, Used)
    <3> HIDE DEF Before
    <3> QED
      BY DEF Surjection
  <2> QED
    BY <2>2, <2>3 DEF Bijection
<1>5. IsFiniteSet(Used) /\ Cardinality(Used) = Cardinality(Before)
  BY <1>3, <1>4, FS_Bijection DEF ExistsBijection
<1>6. lines[j].sig \notin Used
  BY <1>2, <1>3, CandidatesFinite DEF FirstOfEach
<1>7. Used \cup {lines[j].sig} \subseteq Payloads(lines, C)
  BY <1>1, <1>3 DEF Payloads
<1>8. Cardinality(Used \cup {lines[j].sig}) = Cardinality(Used) + 1
  BY <1>5, <1>6, FS_AddElement
<1>9. Cardinality(Used \cup {lines[j].sig}) =< Cardinality(Payloads(lines, C))
  BY <1>7, CandidatesFinite, FS_Subset
<1>10. Cardinality(Before) < MaxSigCandidates
  <2>1. /\ Cardinality(Before) \in Nat
        /\ Cardinality(Payloads(lines, C)) \in Nat
    BY <1>3, CandidatesFinite, FS_CardinalityType
  <2> QED
    BY <2>1, <1>5, <1>8, <1>9, SignaturesOK
<1> QED
  BY <1>1, <1>2, <1>10 DEF Taken

\* The signatures of the candidates C that verify_hybrid tries.
Tried(lines, C) == Payloads(lines, Taken(lines, C))

\* Only the order of the candidates decides which of them are tried, and not
\* what stands between them.
LEMMA SameTried ==
  ASSUME NEW S, NEW l \in Seq(S), NEW k \in Seq(S), NEW C \in SUBSET DOMAIN l,
         NEW D \in SUBSET DOMAIN k, NEW p \in Surjection(C, D),
         \A i, j \in C : i < j => p[i] < p[j],
         \A i \in C : k[p[i]].sig = l[i].sig
  PROVE  Tried(k, D) = Tried(l, C)
<1> DEFINE F == FirstOfEach(l, C)
           G == FirstOfEach(k, D)
<1>1. C \in SUBSET Nat /\ IsFiniteSet(C) /\ D \in SUBSET Nat
  BY CandidatesFinite
<1>2. p \in [C -> D] /\ \A d \in D : \E i \in C : p[i] = d
  BY DEF Surjection
<1>3. \A i, j \in C : (i < j <=> p[i] < p[j]) /\ (p[i] = p[j] => i = j)
  <2>1. \A i \in C : i \in Nat /\ p[i] \in Nat
    BY <1>1, <1>2
  <2> QED
    BY <2>1
<1>4. \A i \in C : i \in F <=> p[i] \in G
  BY <1>2, <1>3 DEF FirstOfEach
<1>5. F \in SUBSET C /\ G \in SUBSET D
  BY DEF FirstOfEach
<1> HIDE DEF F, G
<1>6. ASSUME NEW i \in C
      PROVE  Cardinality({j \in F : j < i}) = Cardinality({d \in G : d < p[i]})
  <2> DEFINE A == {j \in F : j < i}
             B == {d \in G : d < p[i]}
             f == [j \in A |-> p[j]]
  <2>1. IsFiniteSet(A) /\ A \in SUBSET C
    BY <1>1, <1>5, FS_Subset
  <2>2. \A j \in A : p[j] \in B
    BY <1>3, <1>4, <1>5
  <2>3. \A d \in B : \E j \in A : p[j] = d
    BY <1>2, <1>3, <1>4, <1>5
  <2> HIDE DEF A, B
  <2>4. f \in [A -> B] /\ \A j \in A : f[j] = p[j]
    BY <2>2
  <2> HIDE DEF f
  <2>5. f \in Injection(A, B)
    BY <1>3, <2>1, <2>4 DEF Injection, IsInjective
  <2>6. f \in Surjection(A, B)
    BY <2>3, <2>4 DEF Surjection
  <2>7. f \in Bijection(A, B)
    BY <2>5, <2>6 DEF Bijection
  <2> QED
    BY <2>1, <2>7, FS_Bijection DEF ExistsBijection, A, B
<1>7. \A i \in C : i \in Taken(l, C) <=> p[i] \in Taken(k, D)
  BY <1>4, <1>6 DEF Taken, F, G
<1>8. Taken(l, C) \subseteq C /\ Taken(k, D) \subseteq D
  BY <1>5 DEF Taken, F, G
<1> QED
  BY <1>2, <1>7, <1>8 DEF Tried, Payloads

\* Under the cap all of them are tried.
LEMMA AllAreTried ==
  ASSUME NEW S, NEW lines \in Seq(S), NEW C \in SUBSET DOMAIN lines
  PROVE  /\ Tried(lines, C) \subseteq Payloads(lines, C)
         /\ Cardinality(Payloads(lines, C)) =< MaxSigCandidates =>
              Tried(lines, C) = Payloads(lines, C)
<1>1. Taken(lines, C) \subseteq C
  BY DEF Taken, FirstOfEach
<1>2. ASSUME Cardinality(Payloads(lines, C)) =< MaxSigCandidates, NEW i \in C
      PROVE  lines[i].sig \in Tried(lines, C)
  BY <1>2, AllAreTaken DEF Tried, Payloads
<1> QED
  BY <1>1, <1>2 DEF Tried, Payloads

\* One more candidate at the end takes none of the others away, and is tried
\* while the cap is not reached.
LEMMA TriedOfAppend ==
  ASSUME NEW S, NEW lines \in Seq(S), NEW e \in S, NEW C \in SUBSET DOMAIN lines
  PROVE  LET longer == Append(lines, e)
             D == C \cup {Len(lines) + 1}
         IN  /\ Tried(lines, C) \subseteq Tried(longer, D)
             /\ Tried(longer, D) \subseteq Tried(lines, C) \cup {e.sig}
             /\ Cardinality(Payloads(lines, C)) < MaxSigCandidates => e.sig \in Tried(longer, D)
<1> DEFINE longer == Append(lines, e)
           n == Len(lines) + 1
           D == C \cup {n}
<1>1. /\ longer \in Seq(S) /\ Len(longer) = n /\ longer[n] = e
      /\ \A i \in 1 .. Len(lines) : longer[i] = lines[i]
      /\ Len(lines) \in Nat /\ DOMAIN lines = 1 .. Len(lines) /\ DOMAIN longer = 1 .. n
  BY AppendProperties, LenProperties
<1>2. \A i \in C : i \in Nat /\ i < n /\ ~(n < i) /\ longer[i] = lines[i]
  BY <1>1
<1>3. D \in SUBSET DOMAIN longer /\ n \notin C
  BY <1>1
<1> HIDE DEF longer, n
<1>4. \A i \in C : i \in FirstOfEach(longer, D) <=> i \in FirstOfEach(lines, C)
  BY <1>2 DEF FirstOfEach
<1>5. \A i \in C : {j \in FirstOfEach(longer, D) : j < i} = {j \in FirstOfEach(lines, C) : j < i}
  <2>1. FirstOfEach(longer, D) \subseteq C \cup {n} /\ FirstOfEach(lines, C) \subseteq C
    BY DEF FirstOfEach
  <2> QED
    BY <1>2, <1>4, <2>1
<1>6. \A i \in C : i \in Taken(longer, D) <=> i \in Taken(lines, C)
  BY <1>4, <1>5 DEF Taken
<1>7. Taken(lines, C) \subseteq C /\ Taken(longer, D) \subseteq C \cup {n}
  BY DEF Taken, FirstOfEach
<1>8. Tried(lines, C) \subseteq Tried(longer, D)
  BY <1>2, <1>6, <1>7 DEF Tried, Payloads
<1>9. Tried(longer, D) \subseteq Tried(lines, C) \cup {e.sig}
  BY <1>1, <1>2, <1>6, <1>7 DEF Tried, Payloads
<1>10. ASSUME Cardinality(Payloads(lines, C)) < MaxSigCandidates
       PROVE  e.sig \in Tried(longer, D)
  <2>1. IsFiniteSet(Payloads(lines, C)) /\ Cardinality(Payloads(lines, C)) \in Nat
    BY CandidatesFinite, FS_CardinalityType
  <2>2. Payloads(longer, D) = Payloads(lines, C) \cup {e.sig}
    BY <1>1, <1>2 DEF Payloads
  <2>3. Cardinality(Payloads(longer, D)) =< Cardinality(Payloads(lines, C)) + 1
        /\ Cardinality(Payloads(longer, D)) \in Nat
    <3> DEFINE P == Payloads(lines, C)
    <3>1. Cardinality(P \cup {e.sig}) = IF e.sig \in P THEN Cardinality(P) ELSE Cardinality(P) + 1
      BY <2>1, FS_AddElement
    <3>2. Cardinality(P) \in Nat /\ Payloads(longer, D) = P \cup {e.sig}
      BY <2>1, <2>2
    <3> HIDE DEF P
    <3>3. /\ Cardinality(P \cup {e.sig}) =< Cardinality(P) + 1
          /\ Cardinality(P \cup {e.sig}) \in Nat
      BY <3>1, <3>2
    <3> QED
      BY <3>2, <3>3 DEF P
  <2>4. Cardinality(Payloads(longer, D)) =< MaxSigCandidates
    BY <1>10, <2>1, <2>3, SignaturesOK
  <2> QED
    BY <1>1, <1>3, <2>2, <2>4, AllAreTried
<1> QED
  BY <1>8, <1>9, <1>10 DEF longer, n

\* What is kept is kept in its order: where each line comes to stand.
LEMMA KeptInOrder ==
  ASSUME NEW S, NEW lines \in Seq(S), NEW I
  PROVE  LET part == Kept(lines, I)
             J == DOMAIN lines \cap I
         IN  \E p \in Surjection(J, DOMAIN part) :
               /\ \A i, j \in J : i < j => p[i] < p[j]
               /\ \A i \in J : part[p[i]] = lines[i]
<1> DEFINE kept == KeptAmong(lines, I)
           J(n) == (1 .. n) \cap I
           Placed(n) == \A i \in J(n) : /\ Len(kept[i]) \in 1 .. Len(kept[n])
                                        /\ kept[n][Len(kept[i])] = lines[i]
           Full(n) == \A k \in 1 .. Len(kept[n]) : \E i \in J(n) : Len(kept[i]) = k
           Rising(n) == \A i, j \in J(n) : i < j => Len(kept[i]) < Len(kept[j])
           Good == {n \in 0 .. Len(lines) : kept[n] \in Seq(S) /\ Placed(n) /\ Full(n) /\ Rising(n)}
<1>1. Len(lines) \in Nat /\ DOMAIN lines = 1 .. Len(lines)
  BY LenProperties
<1>2. 0 \in Good
  <2>1. kept[0] = <<>>
    BY KeptRec
  <2> HIDE DEF kept
  <2>2. kept[0] \in Seq(S) /\ 1 .. Len(kept[0]) = {}
    BY <2>1, EmptySeq
  <2>3. 0 \in 0 .. Len(lines) /\ J(0) = {}
    BY <1>1
  <2> QED
    BY <2>2, <2>3
<1>3. ASSUME NEW n \in 1 .. Len(lines), n - 1 \in Good PROVE n \in Good
  <2> HIDE DEF kept
  <2>1. kept[n] = IF n \in I THEN Append(kept[n - 1], lines[n]) ELSE kept[n - 1]
    BY KeptRec DEF kept
  <2>2. lines[n] \in S
    BY <1>1, ElementOfSeq
  <2>3. /\ n \in 0 .. Len(lines)
        /\ J(n) = IF n \in I THEN J(n - 1) \cup {n} ELSE J(n - 1)
        /\ \A i \in J(n - 1) : i < n /\ ~(n < i)
        /\ ~(n < n)
    BY <1>1
  <2> DEFINE before == J(n - 1)
  <2>4. /\ kept[n - 1] \in Seq(S) /\ Len(kept[n - 1]) \in Nat
        /\ \A i \in before : Len(kept[i]) \in 1 .. Len(kept[n - 1]) /\ kept[n - 1][Len(kept[i])] = lines[i]
        /\ \A k \in 1 .. Len(kept[n - 1]) : \E i \in before : Len(kept[i]) = k
        /\ \A i, j \in before : i < j => Len(kept[i]) < Len(kept[j])
    BY <1>3, LenProperties
  <2>5. CASE n \notin I
    <3>1. kept[n] = kept[n - 1] /\ J(n) = before
      BY <2>1, <2>3, <2>5
    <3> HIDE DEF J
    <3> QED
      BY <2>3, <2>4, <3>1
  <2>6. CASE n \in I
    <3>1. /\ kept[n] \in Seq(S)
          /\ Len(kept[n]) = Len(kept[n - 1]) + 1
          /\ \A i \in 1 .. Len(kept[n - 1]) : kept[n][i] = kept[n - 1][i]
          /\ kept[n][Len(kept[n])] = lines[n]
      BY <2>1, <2>2, <2>4, <2>6, AppendProperties
    <3>2. J(n) = before \cup {n} /\ \A i \in before : i < n /\ ~(n < i)
      BY <2>3, <2>6
    <3> HIDE DEF J, before
    <3>3. Placed(n)
      <4>1. \A i \in before : /\ Len(kept[i]) \in 1 .. Len(kept[n])
                              /\ kept[n][Len(kept[i])] = lines[i]
        <5>1. 1 .. Len(kept[n - 1]) \subseteq 1 .. Len(kept[n])
          BY <2>4, <3>1
        <5> QED
          BY <2>4, <3>1, <5>1
      <4>2. Len(kept[n]) \in 1 .. Len(kept[n])
        BY <2>4, <3>1
      <4> QED
        BY <3>1, <3>2, <4>1, <4>2
    <3>4. Full(n)
      <4>1. ASSUME NEW k \in 1 .. Len(kept[n]) PROVE \E i \in J(n) : Len(kept[i]) = k
        <5>1. k \in 1 .. Len(kept[n - 1]) \/ k = Len(kept[n])
          BY <2>4, <3>1
        <5> QED
          BY <2>4, <3>2, <5>1
      <4> QED
        BY <4>1
    <3>5. Rising(n)
      <4>1. \A i \in before : Len(kept[i]) < Len(kept[n])
        BY <2>4, <3>1
      <4> QED
        BY <2>3, <2>4, <3>2, <4>1
    <3> QED
      BY <2>3, <3>1, <3>3, <3>4, <3>5
  <2> QED
    BY <2>5, <2>6
<1>4. Len(lines) \in Good
  <2> HIDE DEF Good
  <2>1. 0 .. Len(lines) \subseteq Good
    BY <1>1, <1>2, <1>3, InductionUpTo
  <2> QED
    BY <1>1, <2>1
<1> DEFINE part == Kept(lines, I)
           K == DOMAIN lines \cap I
           p == [i \in K |-> Len(kept[i])]
<1>5. part = kept[Len(lines)] /\ K = J(Len(lines))
  BY <1>1 DEF Kept
<1> HIDE DEF kept
<1>6. part \in Seq(S) /\ DOMAIN part = 1 .. Len(part)
  <2>1. part \in Seq(S)
    BY <1>4, <1>5
  <2> QED
    BY <2>1, LenProperties
<1>7. /\ \A i \in K : Len(kept[i]) \in 1 .. Len(part) /\ part[Len(kept[i])] = lines[i]
      /\ \A k \in 1 .. Len(part) : \E i \in K : Len(kept[i]) = k
      /\ \A i, j \in K : i < j => Len(kept[i]) < Len(kept[j])
  BY <1>4, <1>5
<1> HIDE DEF part, K, J
<1>8. p \in [K -> DOMAIN part] /\ \A i \in K : p[i] = Len(kept[i])
  BY <1>6, <1>7
<1> HIDE DEF p
<1>9. /\ p \in Surjection(K, DOMAIN part)
      /\ \A i, j \in K : i < j => p[i] < p[j]
      /\ \A i \in K : part[p[i]] = lines[i]
  BY <1>6, <1>7, <1>8 DEF Surjection
<1> QED
  BY <1>9 DEF part, K

-----------------------------------------------------------------------------
\* The candidates of a name among the lines that are in D, those that decode.
CandidatesIn(lines, name, D) == {i \in DOMAIN lines : lines[i].name = name /\ lines[i] \in D}
TriedIn(lines, name, D) == Tried(lines, CandidatesIn(lines, name, D))

\* Lines of one name, added or left out, change nothing for any other name.
LEMMA TriedElsewhere ==
  ASSUME NEW S, NEW l \in Seq(S), NEW e \in S, NEW D, NEW name, name # e.name
  PROVE  /\ TriedIn(Append(l, e), name, D) = TriedIn(l, name, D)
         /\ TriedIn(Others(l, e.name), name, D) = TriedIn(l, name, D)
<1> DEFINE C == CandidatesIn(l, name, D)
           n == Len(l) + 1
<1>1. C \in SUBSET DOMAIN l
  BY DEF CandidatesIn
<1>2. TriedIn(Append(l, e), name, D) = TriedIn(l, name, D)
  <2> DEFINE k == Append(l, e)
             p == [i \in C |-> i]
  <2>1. /\ k \in Seq(S) /\ DOMAIN k = 1 .. n /\ k[n] = e
        /\ \A i \in 1 .. Len(l) : k[i] = l[i]
        /\ Len(l) \in Nat /\ DOMAIN l = 1 .. Len(l) /\ 1 .. n = (1 .. Len(l)) \cup {n}
    BY AppendProperties, LenProperties
  <2> HIDE DEF k, n
  <2>2. CandidatesIn(k, name, D) = C
    BY <2>1 DEF CandidatesIn
  <2>3. C \in SUBSET DOMAIN k
    BY <1>1, <2>1
  <2> HIDE DEF C
  <2>4. p \in Surjection(C, C) /\ \A i \in C : p[i] = i
    BY DEF Surjection
  <2> HIDE DEF p
  <2>5. (\A i, j \in C : i < j => p[i] < p[j]) /\ \A i \in C : k[p[i]].sig = l[i].sig
    BY <1>1, <2>1, <2>4
  <2>6. Tried(k, C) = Tried(l, C)
    BY <1>1, <2>1, <2>3, <2>4, <2>5, SameTried
  <2> QED
    BY <2>2, <2>6 DEF TriedIn, C, k
<1>3. TriedIn(Others(l, e.name), name, D) = TriedIn(l, name, D)
  <2> DEFINE I == {i \in DOMAIN l : l[i].name # e.name}
             k == Kept(l, I)
             J == DOMAIN l \cap I
             B == CandidatesIn(k, name, D)
  <2>1. k \in Seq(S)
    <3> HIDE DEF I
    <3> QED
      BY KeptKeeps
  <2>2. PICK p \in Surjection(J, DOMAIN k) : /\ \A i, j \in J : i < j => p[i] < p[j]
                                             /\ \A i \in J : k[p[i]] = l[i]
    <3> HIDE DEF I
    <3> QED
      BY KeptInOrder
  <2>3. C \subseteq J
    BY DEF CandidatesIn
  <2>4. k = Others(l, e.name)
    BY DEF Others
  <2> HIDE DEF k, J
  <2>5. /\ p \in [J -> DOMAIN k]
        /\ \A d \in DOMAIN k : \E i \in J : p[i] = d
    BY <2>2 DEF Surjection
  <2>6. J \subseteq DOMAIN l
    BY DEF J
  <2>7. (\A i \in C : p[i] \in B) /\ \A d \in B : \E i \in C : p[i] = d
    BY <2>2, <2>3, <2>5, <2>6 DEF CandidatesIn
  <2>8. B \in SUBSET DOMAIN k
    BY DEF CandidatesIn
  <2> HIDE DEF B, C
  <2> DEFINE q == [i \in C |-> p[i]]
  <2>9. q \in [C -> B] /\ \A i \in C : q[i] = p[i]
    BY <2>7
  <2> HIDE DEF q
  <2>10. q \in Surjection(C, B)
    BY <2>7, <2>9 DEF Surjection
  <2>11. (\A i, j \in C : i < j => q[i] < q[j]) /\ \A i \in C : k[q[i]].sig = l[i].sig
    BY <2>2, <2>3, <2>9
  <2>12. Tried(k, B) = Tried(l, C)
    BY <1>1, <2>1, <2>8, <2>10, <2>11, SameTried
  <2> QED
    BY <2>4, <2>12 DEF TriedIn, B, C
<1> QED
  BY <1>2, <1>3

\* What is tried for its name after a line was added, in place of the lines of
\* its name or after them: the line itself, or what was tried before and, while
\* the cap is not reached, the line too.
TriesAfter(new, more, l, e, D) ==
  /\ TriedIn(new, e.name, D) = {e.sig}
  /\ TriedIn(l, e.name, D) \subseteq TriedIn(more, e.name, D)
  /\ TriedIn(more, e.name, D) \subseteq TriedIn(l, e.name, D) \cup {e.sig}
  /\ Cardinality(Payloads(l, CandidatesIn(l, e.name, D))) < MaxSigCandidates =>
       e.sig \in TriedIn(more, e.name, D)

\* For other names that is what was tried before.
LEMMA AddedIsTried ==
  ASSUME NEW S, NEW l \in Seq(S), NEW e \in S, NEW D, e \in D
  PROVE  /\ \A n : n # e.name =>
              /\ TriedIn(Append(Others(l, e.name), e), n, D) = TriedIn(l, n, D)
              /\ TriedIn(Append(l, e), n, D) = TriedIn(l, n, D)
         /\ TriesAfter(Append(Others(l, e.name), e), Append(l, e), l, e, D)
<1> DEFINE o == Others(l, e.name)
<1>1. o \in Seq(S) /\ \A i \in DOMAIN o : o[i].name # e.name
  BY OthersKeeps
<1> HIDE DEF o
<1>2. ASSUME NEW n, n # e.name
      PROVE  /\ TriedIn(Append(o, e), n, D) = TriedIn(l, n, D)
             /\ TriedIn(Append(l, e), n, D) = TriedIn(l, n, D)
  <2>1. TriedIn(Append(o, e), n, D) = TriedIn(o, n, D)
    BY <1>1, <1>2, TriedElsewhere
  <2>2. TriedIn(o, n, D) = TriedIn(l, n, D) /\ TriedIn(Append(l, e), n, D) = TriedIn(l, n, D)
    BY <1>2, TriedElsewhere DEF o
  <2> QED
    BY <2>1, <2>2
<1>3. ASSUME NEW k \in Seq(S)
      PROVE  /\ CandidatesIn(Append(k, e), e.name, D) = CandidatesIn(k, e.name, D) \cup {Len(k) + 1}
             /\ CandidatesIn(k, e.name, D) \in SUBSET DOMAIN k
  <2>1. /\ DOMAIN Append(k, e) = 1 .. Len(k) + 1 /\ Append(k, e)[Len(k) + 1] = e
        /\ \A i \in 1 .. Len(k) : Append(k, e)[i] = k[i]
        /\ Len(k) \in Nat /\ DOMAIN k = 1 .. Len(k)
    BY AppendProperties, LenProperties
  <2>2. 1 .. Len(k) + 1 = (1 .. Len(k)) \cup {Len(k) + 1}
    BY <2>1
  <2> QED
    BY <2>1, <2>2 DEF CandidatesIn
<1>4. ASSUME NEW k \in Seq(S)
      PROVE  /\ TriedIn(k, e.name, D) \subseteq TriedIn(Append(k, e), e.name, D)
             /\ TriedIn(Append(k, e), e.name, D) \subseteq TriedIn(k, e.name, D) \cup {e.sig}
             /\ Cardinality(Payloads(k, CandidatesIn(k, e.name, D))) < MaxSigCandidates =>
                  e.sig \in TriedIn(Append(k, e), e.name, D)
  <2> DEFINE C == CandidatesIn(k, e.name, D)
  <2>1. C \in SUBSET DOMAIN k /\ CandidatesIn(Append(k, e), e.name, D) = C \cup {Len(k) + 1}
    BY <1>3
  <2> HIDE DEF C
  <2>2. /\ Tried(k, C) \subseteq Tried(Append(k, e), C \cup {Len(k) + 1})
        /\ Tried(Append(k, e), C \cup {Len(k) + 1}) \subseteq Tried(k, C) \cup {e.sig}
        /\ Cardinality(Payloads(k, C)) < MaxSigCandidates =>
             e.sig \in Tried(Append(k, e), C \cup {Len(k) + 1})
    BY <2>1, TriedOfAppend
  <2>3. /\ TriedIn(k, e.name, D) = Tried(k, C)
        /\ TriedIn(Append(k, e), e.name, D) = Tried(Append(k, e), C \cup {Len(k) + 1})
    BY <2>1 DEF TriedIn, C
  <2> QED
    BY <2>2, <2>3 DEF C
<1>5. TriedIn(Append(o, e), e.name, D) = {e.sig}
  <2>1. CandidatesIn(o, e.name, D) = {}
    BY <1>1 DEF CandidatesIn
  <2>2. Payloads(o, CandidatesIn(o, e.name, D)) = {} /\ TriedIn(o, e.name, D) = {}
    BY <2>1 DEF TriedIn, Tried, Taken, FirstOfEach, Payloads
  <2>3. Cardinality({}) < MaxSigCandidates
    BY FS_EmptySet, SignaturesOK
  <2> QED
    BY <1>1, <1>4, <2>2, <2>3
<1>6. TriesAfter(Append(o, e), Append(l, e), l, e, D)
  BY <1>4, <1>5 DEF TriesAfter
<1> QED
  BY <1>2, <1>6 DEF o

\* verify_hybrid in terms of what it tries.
LEMMA HybridTries ==
  ASSUME NEW info, NEW keyname, NEW key, NEW S, info.sigs \in Seq(S), info.sig_pqc \in Seq(S)
  PROVE  LET D == {e \in S : DecodesSig(e)}
             P == {e \in S : DecodesSigPqc(e)}
         IN  /\ SigCandidates(info.sigs, keyname) = CandidatesIn(info.sigs, keyname, D)
             /\ PqcCandidates(info.sig_pqc, keyname) = CandidatesIn(info.sig_pqc, keyname, P)
             /\ VerifyHybrid(info, keyname, key) <=>
                  /\ \E b \in TriedIn(info.sigs, keyname, D) : <<key, info.print, b>> \in EdValid
                  /\ \E b \in TriedIn(info.sig_pqc, keyname, P) : <<key, info.print, b>> \in MlValid
<1> DEFINE D == {e \in S : DecodesSig(e)}
           P == {e \in S : DecodesSigPqc(e)}
<1>1. /\ \A i \in DOMAIN info.sigs : info.sigs[i] \in S
      /\ \A i \in DOMAIN info.sig_pqc : info.sig_pqc[i] \in S
  BY LenProperties, ElementOfSeq
<1>2. SigCandidates(info.sigs, keyname) = CandidatesIn(info.sigs, keyname, D)
  BY <1>1 DEF SigCandidates, CandidatesIn
<1>3. PqcCandidates(info.sig_pqc, keyname) = CandidatesIn(info.sig_pqc, keyname, P)
  BY <1>1 DEF PqcCandidates, CandidatesIn
<1> HIDE DEF D, P
<1>4. /\ (\E i \in EdTaken(info, keyname) : <<key, info.print, info.sigs[i].sig>> \in EdValid)
           <=> \E b \in TriedIn(info.sigs, keyname, D) : <<key, info.print, b>> \in EdValid
      /\ (\E i \in PqcTaken(info, keyname) : <<key, info.print, info.sig_pqc[i].sig>> \in MlValid)
           <=> \E b \in TriedIn(info.sig_pqc, keyname, P) : <<key, info.print, b>> \in MlValid
  BY <1>2, <1>3 DEF EdTaken, PqcTaken, TriedIn, Tried, Payloads
<1>5. VerifyHybrid(info, keyname, key) <=>
        /\ \E i \in EdTaken(info, keyname) : <<key, info.print, info.sigs[i].sig>> \in EdValid
        /\ \E i \in PqcTaken(info, keyname) : <<key, info.print, info.sig_pqc[i].sig>> \in MlValid
  BY DEF VerifyHybrid
<1> QED
  BY <1>2, <1>3, <1>4, <1>5 DEF D, P

\* Whatever other lines a narinfo has, and however many: sign changes nothing for
\* any other name, and no key that a client believes by both algorithms loses it
\* when a proxy adds its lines.
THEOREM HybridSurvives ==
  ASSUME NEW S, NEW info, info.sigs \in Seq(S), info.sig_pqc \in Seq(S), NEW name, NEW key,
         NEW keyname, NEW other
  PROVE  /\ keyname # name => /\ VerifyHybrid(DualSigned(info, name, key), keyname, other) <=>
                                   VerifyHybrid(info, keyname, other)
                              /\ VerifyHybrid(Vouched(info, name, key), keyname, other) <=>
                                   VerifyHybrid(info, keyname, other)
         /\ VerifyHybrid(info, keyname, other) =>
              VerifyHybrid(Vouched(info, name, key), keyname, other)
<1> DEFINE ed == SigLine(name, EdSign(key, info.print))
           ml == SigLine(name, MlSign(key, info.print))
           T == S \cup {ed, ml}
           D == {e \in T : DecodesSig(e)}
           P == {e \in T : DecodesSigPqc(e)}
           w == DualSigned(info, name, key)
           x == Vouched(info, name, key)
<1>1. ed.name = name /\ ml.name = name /\ DecodesSig(ed) /\ DecodesSigPqc(ml)
  BY DEF SigLine, DecodesSig, DecodesSigPqc, ParsesSigEntry, KnownTag
<1>2. ed \in D /\ ml \in P /\ info.sigs \in Seq(T) /\ info.sig_pqc \in Seq(T)
  BY <1>1, SeqMonotonic
<1>3. /\ w.print = info.print /\ x.print = info.print
      /\ w.sigs = Append(Others(info.sigs, ed.name), ed)
      /\ w.sig_pqc = Append(Others(info.sig_pqc, ml.name), ml)
      /\ x.sigs = Append(info.sigs, ed) /\ x.sig_pqc = Append(info.sig_pqc, ml)
  BY <1>1 DEF DualSigned, Vouched
<1>4. ed \in T /\ ml \in T
  OBVIOUS
<1>5. ASSUME NEW v, v.sigs \in Seq(T), v.sig_pqc \in Seq(T)
      PROVE  VerifyHybrid(v, keyname, other) <=>
               /\ \E b \in TriedIn(v.sigs, keyname, D) : <<other, v.print, b>> \in EdValid
               /\ \E b \in TriedIn(v.sig_pqc, keyname, P) : <<other, v.print, b>> \in MlValid
  <2> HIDE DEF T
  <2> QED
    BY <1>5, HybridTries
<1> HIDE DEF ed, ml, T, D, P, w, x
<1>6. /\ w.sigs \in Seq(T) /\ w.sig_pqc \in Seq(T) /\ x.sigs \in Seq(T) /\ x.sig_pqc \in Seq(T)
  BY <1>2, <1>3, <1>4, OthersKeeps, AppendProperties
<1>7. ASSUME NEW l \in Seq(T), NEW e \in T, NEW E, e \in E, e.name = name
      PROVE  /\ keyname # name =>
                  /\ TriedIn(Append(Others(l, e.name), e), keyname, E) = TriedIn(l, keyname, E)
                  /\ TriedIn(Append(l, e), keyname, E) = TriedIn(l, keyname, E)
             /\ TriedIn(l, keyname, E) \subseteq TriedIn(Append(l, e), keyname, E)
  <2>1. e \in E
    BY <1>7
  <2>2. ASSUME keyname # e.name
        PROVE  /\ TriedIn(Append(Others(l, e.name), e), keyname, E) = TriedIn(l, keyname, E)
               /\ TriedIn(Append(l, e), keyname, E) = TriedIn(l, keyname, E)
    BY <2>1, <2>2, AddedIsTried
  <2>3. TriedIn(l, e.name, E) \subseteq TriedIn(Append(l, e), e.name, E)
    <3>1. TriesAfter(Append(Others(l, e.name), e), Append(l, e), l, e, E)
      BY <2>1, AddedIsTried
    <3> QED
      BY <3>1 DEF TriesAfter
  <2> QED
    BY <1>7, <2>2, <2>3
<1>8. /\ keyname # name => /\ TriedIn(w.sigs, keyname, D) = TriedIn(info.sigs, keyname, D)
                           /\ TriedIn(x.sigs, keyname, D) = TriedIn(info.sigs, keyname, D)
                           /\ TriedIn(w.sig_pqc, keyname, P) = TriedIn(info.sig_pqc, keyname, P)
                           /\ TriedIn(x.sig_pqc, keyname, P) = TriedIn(info.sig_pqc, keyname, P)
      /\ TriedIn(info.sigs, keyname, D) \subseteq TriedIn(x.sigs, keyname, D)
      /\ TriedIn(info.sig_pqc, keyname, P) \subseteq TriedIn(x.sig_pqc, keyname, P)
  BY <1>1, <1>2, <1>3, <1>4, <1>7
<1> QED
  BY <1>2, <1>3, <1>5, <1>6, <1>8 DEF w, x

-----------------------------------------------------------------------------
\* Checking the two halves on their own finds no more than pairings do: the
\* candidates of one half are all lines of the same name that decode.
LEMMA HalvesMakeAPair ==
  ASSUME NEW info, NEW keyname, NEW key, VerifyHybrid(info, keyname, key)
  PROVE  AnyPairing(info, keyname, key)
BY DEF VerifyHybrid, EdTaken, PqcTaken, Taken, FirstOfEach, SigCandidates, PqcCandidates,
   AnyPairing, PairVerifies

\* Under the cap it finds no less either.
LEMMA PairIsFoundAmong ==
  ASSUME NEW S, NEW info, info.sigs \in Seq(S), info.sig_pqc \in Seq(S), NEW keyname, NEW key,
         UnderCap(info, keyname), AnyPairing(info, keyname, key)
  PROVE  VerifyHybrid(info, keyname, key)
<1>1. info.sigs \in Seq(S) /\ info.sig_pqc \in Seq(S)
  OBVIOUS
<1>2. PICK i \in DOMAIN info.sigs, j \in DOMAIN info.sig_pqc : PairVerifies(info, keyname, key, i, j)
  BY DEF AnyPairing
<1>3. PICK e \in EdTaken(info, keyname) : info.sigs[e].sig = info.sigs[i].sig
  <2>1. i \in SigCandidates(info.sigs, keyname)
    BY <1>2 DEF SigCandidates, PairVerifies
  <2>2. SigCandidates(info.sigs, keyname) \in SUBSET DOMAIN info.sigs
    BY DEF SigCandidates
  <2> QED
    BY <1>1, <2>1, <2>2, AllAreTaken DEF EdTaken, UnderCap
<1>4. PICK q \in PqcTaken(info, keyname) : info.sig_pqc[q].sig = info.sig_pqc[j].sig
  <2>1. j \in PqcCandidates(info.sig_pqc, keyname)
    BY <1>2 DEF PqcCandidates, PairVerifies
  <2>2. PqcCandidates(info.sig_pqc, keyname) \in SUBSET DOMAIN info.sig_pqc
    BY DEF PqcCandidates
  <2> QED
    BY <1>1, <2>1, <2>2, AllAreTaken DEF PqcTaken, UnderCap
<1> QED
  BY <1>2, <1>3, <1>4 DEF VerifyHybrid, PairVerifies

LEMMA PairIsFound ==
  ASSUME NEW info \in NarInfos, NEW keyname, NEW key,
         UnderCap(info, keyname), AnyPairing(info, keyname, key)
  PROVE  VerifyHybrid(info, keyname, key)
BY PairIsFoundAmong DEF NarInfos

\* What verify_hybrid accepts is always a pairing that the RFC accepts, and while
\* the different candidates are no more than the cap it accepts every such pairing,
\* in whatever order and however often the lines are repeated.
THEOREM HybridIsAPairing ==
  ASSUME NEW S, NEW info, info.sigs \in Seq(S), info.sig_pqc \in Seq(S), NEW keyname, NEW key
  PROVE  /\ VerifyHybrid(info, keyname, key) => AnyPairing(info, keyname, key)
         /\ UnderCap(info, keyname) =>
              (VerifyHybrid(info, keyname, key) <=> AnyPairing(info, keyname, key))
BY HalvesMakeAPair, PairIsFoundAmong

\* A signature verifies for the key and the fingerprint it was made with.
LEMMA OwnSignatures ==
  ASSUME NEW key \in Keys, NEW print \in Prints, NEW name \in Names
  PROVE  /\ <<key, print, EdSign(key, print)>> \in EdValid
         /\ <<key, print, MlSign(key, print)>> \in MlValid
         /\ SigLine(name, EdSign(key, print)) \in Lines
         /\ SigLine(name, MlSign(key, print)) \in Lines
<1>1. EdSign(key, print) \in Bytes /\ <<key, print, EdSign(key, print)>> \in EdValid
  BY SignaturesOK DEF EdSign
<1>2. MlSign(key, print) \in Bytes /\ <<key, print, MlSign(key, print)>> \in MlValid
  BY SignaturesOK DEF MlSign
<1> QED
  BY <1>1, <1>2 DEF SigLine, Lines, Forms

\* A narinfo whose only lines of a name are those its key makes verifies, also
\* with more lines of other names than the cap.
Marked(info, name, key) == /\ OnlyLine(info.sigs, SigLine(name, EdSign(key, info.print)))
                           /\ OnlyLine(info.sig_pqc, SigLine(name, MlSign(key, info.print)))

\* A narinfo that bears a pair of lines of a key verifies for it.
LEMMA MarkedVerifies ==
  ASSUME NEW info \in NarInfos, NEW name \in Names, NEW key \in Keys, Marked(info, name, key)
  PROVE  VerifyHybrid(info, name, key)
<1> DEFINE E == SigCandidates(info.sigs, name)
           Q == PqcCandidates(info.sig_pqc, name)
           ed == SigLine(name, EdSign(key, info.print))
           ml == SigLine(name, MlSign(key, info.print))
<1>1. info.sigs \in Seq(Lines) /\ info.sig_pqc \in Seq(Lines) /\ info.print \in Prints
  BY DEF NarInfos
<1>2. /\ ed.name = name /\ DecodesSig(ed) /\ ed.sig = EdSign(key, info.print)
      /\ ml.name = name /\ DecodesSigPqc(ml) /\ ml.sig = MlSign(key, info.print)
  BY DEF SigLine, DecodesSig, DecodesSigPqc, ParsesSigEntry, KnownTag
<1>3. /\ E \in SUBSET DOMAIN info.sigs /\ E # {}
      /\ \A i \in E : info.sigs[i] = ed
  BY <1>2 DEF Marked, OnlyLine, SigCandidates
<1>4. /\ Q \in SUBSET DOMAIN info.sig_pqc /\ Q # {}
      /\ \A i \in Q : info.sig_pqc[i] = ml
  BY <1>2 DEF Marked, OnlyLine, PqcCandidates
<1>5. PICK i \in E : i \in EdTaken(info, name)
  BY <1>1, <1>3, FirstIsTaken DEF EdTaken
<1>6. PICK j \in Q : j \in PqcTaken(info, name)
  BY <1>1, <1>4, FirstIsTaken DEF PqcTaken
<1> QED
  BY <1>1, <1>2, <1>3, <1>4, <1>5, <1>6, OwnSignatures DEF VerifyHybrid

\* What the proxy answers keeps the lines it got in their places and adds one
\* of its own to each list, which a client that trusts its key finds.
LEMMA VouchedVerifies ==
  ASSUME NEW info \in NarInfos, NEW name \in Names, NEW key \in Keys
  PROVE  LET out == Vouched(info, name, key)
         IN  /\ out \in NarInfos
             /\ out.print = info.print
             /\ SubSeq(out.sigs, 1, Len(info.sigs)) = info.sigs
             /\ Len(info.sigs) =< Len(out.sigs)
             /\ SubSeq(out.sig_pqc, 1, Len(info.sig_pqc)) = info.sig_pqc
             /\ Len(info.sig_pqc) =< Len(out.sig_pqc)
             /\ ClassicalOk(out, name, key)
             /\ UnderCap(out, name) => VerifyHybrid(out, name, key)
<1> DEFINE out == Vouched(info, name, key)
           ed == SigLine(name, EdSign(key, info.print))
           ml == SigLine(name, MlSign(key, info.print))
<1>1. info.sigs \in Seq(Lines) /\ info.sig_pqc \in Seq(Lines) /\ info.print \in Prints
  BY DEF NarInfos
<1>2. /\ ed \in Lines /\ <<key, info.print, ed.sig>> \in EdValid
      /\ ml \in Lines /\ <<key, info.print, ml.sig>> \in MlValid
      /\ ed.name = name /\ ml.name = name
      /\ ParsesSigEntry(ed) /\ DecodesSig(ed) /\ DecodesSigPqc(ml)
  BY <1>1, OwnSignatures DEF SigLine, DecodesSig, DecodesSigPqc, ParsesSigEntry, KnownTag
<1> HIDE DEF ed, ml
<1>3. /\ out.print = info.print
      /\ out.sigs = Append(info.sigs, ed)
      /\ out.sig_pqc = Append(info.sig_pqc, ml)
      /\ out = [print |-> out.print, sigs |-> out.sigs, sig_pqc |-> out.sig_pqc]
  BY DEF Vouched, ed, ml
<1> HIDE DEF out
<1>4. /\ out.sigs \in Seq(Lines) /\ Len(out.sigs) = Len(info.sigs) + 1
      /\ \A i \in 1 .. Len(info.sigs) : out.sigs[i] = info.sigs[i]
      /\ out.sigs[Len(info.sigs) + 1] = ed
  BY <1>1, <1>2, <1>3, AppendProperties
<1>5. /\ out.sig_pqc \in Seq(Lines) /\ Len(out.sig_pqc) = Len(info.sig_pqc) + 1
      /\ \A i \in 1 .. Len(info.sig_pqc) : out.sig_pqc[i] = info.sig_pqc[i]
      /\ out.sig_pqc[Len(info.sig_pqc) + 1] = ml
  BY <1>1, <1>2, <1>3, AppendProperties
<1>6. out \in NarInfos
  BY <1>1, <1>3, <1>4, <1>5 DEF NarInfos
<1>7. SubSeq(out.sigs, 1, Len(info.sigs)) = info.sigs /\ Len(info.sigs) =< Len(out.sigs)
  BY <1>1, <1>4
<1>8. SubSeq(out.sig_pqc, 1, Len(info.sig_pqc)) = info.sig_pqc /\ Len(info.sig_pqc) =< Len(out.sig_pqc)
  BY <1>1, <1>5
<1>9. Len(info.sigs) + 1 \in DOMAIN out.sigs /\ Len(info.sig_pqc) + 1 \in DOMAIN out.sig_pqc
  BY <1>1, <1>4, <1>5, LenProperties
<1>10. ClassicalOk(out, name, key)
  BY <1>2, <1>3, <1>4, <1>9 DEF ClassicalOk, VerifyEd25519Sig
<1>11. AnyPairing(out, name, key)
  BY <1>2, <1>3, <1>4, <1>5, <1>9 DEF AnyPairing, PairVerifies
<1> QED
  BY <1>3, <1>6, <1>7, <1>8, <1>10, <1>11, PairIsFound DEF out
=============================================================================
