------------------------- MODULE NarInfoTextProofs -------------------------
(***************************************************************************)
(* Proofs about NarInfoText: a document written by to_text is read back as *)
(* it was (RoundTrip), whatever fields it has, however many lines, and     *)
(* whatever unknown keys; the order of references in the fingerprint does  *)
(* not depend on the text; what parse and the fingerprint make of a text   *)
(* is a question of a few sets and values (SameTextReads); and how far a   *)
(* fingerprint tells documents apart (PlainPrint).                         *)
(***************************************************************************)
EXTENDS NarInfoText, SignatureProofs

IsList(l) == Len(l) \in Nat /\ l = [i \in 1 .. Len(l) |-> l[i]]

\* The elements of a list: it is a sequence of them.
Entries(l) == {l[i] : i \in 1 .. Len(l)}

\* Lists are the sequences of their elements, and texts the lists of lines.
LEMMA ListIsSeq == ASSUME NEW l, IsList(l) PROVE l \in Seq(Entries(l)) /\ DOMAIN l = 1 .. Len(l)
<1>1. l \in [1 .. Len(l) -> Entries(l)]
  BY DEF IsList, Entries
<1> QED
  BY <1>1 DEF IsList

LEMMA SeqIsList == ASSUME NEW S, NEW l \in Seq(S) PROVE IsList(l)
BY LenProperties DEF IsList

LEMMA TextIsList ==
  ASSUME NEW t
  PROVE  IsText(t) <=> IsList(t) /\ \A i \in 1 .. Len(t) : IsLine(t[i])
BY DEF IsText, IsList

\* Two texts one after the other.
LEMMA Joined ==
  ASSUME NEW s, NEW t, IsText(s), IsText(t)
  PROVE  /\ IsText(s \o t)
         /\ Len(s \o t) = Len(s) + Len(t)
         /\ \A i \in 1 .. Len(s) : (s \o t)[i] = s[i]
         /\ \A i \in 1 .. Len(t) : (s \o t)[Len(s) + i] = t[i]
         /\ \A i \in 1 .. Len(s) + Len(t) : i \in 1 .. Len(s) \/ i - Len(s) \in 1 .. Len(t)
<1> DEFINE S == Entries(s) \cup Entries(t)
           st == s \o t
<1>1. s \in Seq(S) /\ t \in Seq(S) /\ Len(s) \in Nat /\ Len(t) \in Nat
  BY ListIsSeq, TextIsList, SeqMonotonic DEF IsText
<1> HIDE DEF S
<1>2. /\ st \in Seq(S) /\ Len(st) = Len(s) + Len(t)
      /\ \A i \in 1 .. Len(s) + Len(t) : st[i] = IF i <= Len(s) THEN s[i] ELSE t[i - Len(s)]
  BY <1>1, ConcatProperties
<1> HIDE DEF st
<1>3. \A i \in 1 .. Len(s) : st[i] = s[i]
  BY <1>1, <1>2
<1>4. ASSUME NEW i \in 1 .. Len(t) PROVE st[Len(s) + i] = t[i]
  <2>1. Len(s) + i \in 1 .. Len(s) + Len(t) /\ ~(Len(s) + i <= Len(s)) /\ Len(s) + i - Len(s) = i
    BY <1>1
  <2> QED
    BY <1>2, <2>1
<1>5. \A i \in 1 .. Len(s) + Len(t) : i \in 1 .. Len(s) \/ i - Len(s) \in 1 .. Len(t)
  BY <1>1
<1>6. \A i \in 1 .. Len(st) : IsLine(st[i])
  BY <1>1, <1>2, <1>5, TextIsList DEF IsText
<1>7. IsText(st)
  BY <1>2, <1>6, SeqIsList, TextIsList
<1> QED
  BY <1>2, <1>3, <1>4, <1>5, <1>7 DEF st

-----------------------------------------------------------------------------
\* Max of FiniteSetsExt does what it says on the positions of a text.
LEMMA MaxIs ==
  ASSUME NEW A, NEW n \in Nat, A \subseteq 1 .. n, A # {}
  PROVE  Max(A) \in A /\ \A y \in A : Max(A) >= y
<1> DEFINE D == {n - x : x \in A}
<1>1. D \in SUBSET Nat /\ D # {}
  <2>1. \A x \in A : n - x \in Nat
    OBVIOUS
  <2> QED
    BY <2>1
<1>2. PICK m \in D : \A k \in D : m =< k
  <2> HIDE DEF D
  <2> QED
    BY <1>1, LeastNumber
<1>3. PICK x \in A : m = n - x
  BY <1>2
<1>4. ASSUME NEW y \in A PROVE x >= y
  <2>1. n - y \in D /\ n - x =< n - y
    BY <1>2, <1>3
  <2> QED
    BY <2>1
<1> QED
  BY <1>4 DEF Max

\* The value of a key is that of the last line that has it.
LEMMA LastValueIs ==
  ASSUME NEW t, IsText(t), NEW k, NEW d
  PROVE  \/ /\ \A i \in 1 .. Len(t) : t[i].key # k
            /\ LastValue(t, k, d) = d
         \/ \E i \in 1 .. Len(t) : /\ t[i].key = k
                                   /\ \A j \in 1 .. Len(t) : t[j].key = k => j =< i
                                   /\ LastValue(t, k, d) = t[i].value
<1> DEFINE A == {i \in DOMAIN t : t[i].key = k}
<1>1. Len(t) \in Nat /\ DOMAIN t = 1 .. Len(t)
  BY DEF IsText
<1>2. LastValue(t, k, d) = IF A = {} THEN d ELSE t[Max(A)].value
  BY DEF LastValue
<1>3. CASE A = {}
  BY <1>1, <1>2, <1>3
<1>4. CASE A # {}
  <2>1. Max(A) \in A /\ \A y \in A : Max(A) >= y
    <3>1. A \subseteq 1 .. Len(t)
      BY <1>1
    <3> HIDE DEF A
    <3> QED
      BY <1>1, <1>4, <3>1, MaxIs
  <2> DEFINE i == Max(A)
  <2>2. i \in 1 .. Len(t) /\ t[i].key = k /\ \A j \in 1 .. Len(t) : t[j].key = k => i >= j
    BY <1>1, <2>1
  <2>3. LastValue(t, k, d) = t[i].value
    BY <1>2, <1>4
  <2> HIDE DEF i, A
  <2>4. \A j \in 1 .. Len(t) : t[j].key = k => j =< i
    BY <1>1, <2>2
  <2> QED
    BY <2>2, <2>3, <2>4
<1> QED
  BY <1>3, <1>4

\* Of a text in two parts the second counts where it has the key.
LEMMA LastOfJoined ==
  ASSUME NEW s, NEW t, IsText(s), IsText(t), NEW k, NEW d
  PROVE  LastValue(s \o t, k, d) = LastValue(t, k, LastValue(s, k, d))
<1> DEFINE st == s \o t
<1>1. /\ IsText(st) /\ Len(s) \in Nat /\ Len(t) \in Nat /\ Len(st) = Len(s) + Len(t)
      /\ \A i \in 1 .. Len(s) : st[i] = s[i]
      /\ \A i \in 1 .. Len(t) : st[Len(s) + i] = t[i]
      /\ \A i \in 1 .. Len(s) + Len(t) : i \in 1 .. Len(s) \/ i - Len(s) \in 1 .. Len(t)
  <2>1. Len(s) \in Nat /\ Len(t) \in Nat
    BY DEF IsText
  <2> QED
    BY <2>1, Joined
<1> HIDE DEF st
<1>2. \/ /\ \A i \in 1 .. Len(st) : st[i].key # k
         /\ LastValue(st, k, d) = d
      \/ \E i \in 1 .. Len(st) : /\ st[i].key = k
                                 /\ \A j \in 1 .. Len(st) : st[j].key = k => j =< i
                                 /\ LastValue(st, k, d) = st[i].value
  <2>1. IsText(st)
    BY <1>1
  <2> QED
    BY <2>1, LastValueIs
<1>3. \A i \in 1 .. Len(t) : Len(s) + i \in 1 .. Len(st)
  BY <1>1
<1>4. \A i \in 1 .. Len(s) : i \in 1 .. Len(st)
  BY <1>1
<1>5. \A i \in 1 .. Len(st) : i \in 1 .. Len(s) \/ \E j \in 1 .. Len(t) : i = Len(s) + j
  <2> SUFFICES ASSUME NEW i \in 1 .. Len(st), i \notin 1 .. Len(s)
               PROVE  \E j \in 1 .. Len(t) : i = Len(s) + j
    OBVIOUS
  <2>1. i - Len(s) \in 1 .. Len(t) /\ i = Len(s) + (i - Len(s))
    BY <1>1
  <2> QED
    BY <2>1
<1>6. CASE \A i \in 1 .. Len(t) : t[i].key # k
  <2>1. LastValue(t, k, LastValue(s, k, d)) = LastValue(s, k, d)
    BY <1>6, LastValueIs
  <2>2. CASE \A i \in 1 .. Len(s) : s[i].key # k
    <3>1. \A i \in 1 .. Len(st) : st[i].key # k
      BY <1>1, <1>5, <1>6, <2>2
    <3>2. LastValue(st, k, d) = d
      BY <1>2, <3>1
    <3>3. LastValue(s, k, d) = d
      BY <2>2, LastValueIs
    <3> QED
      BY <2>1, <3>2, <3>3 DEF st
  <2>3. CASE ~\A i \in 1 .. Len(s) : s[i].key # k
    <3>1. PICK i \in 1 .. Len(s) : /\ s[i].key = k
                                   /\ \A j \in 1 .. Len(s) : s[j].key = k => j =< i
                                   /\ LastValue(s, k, d) = s[i].value
      BY <2>3, LastValueIs
    <3>2. PICK m \in 1 .. Len(st) : /\ st[m].key = k
                                    /\ \A j \in 1 .. Len(st) : st[j].key = k => j =< m
                                    /\ LastValue(st, k, d) = st[m].value
      <4>1. ~\A j \in 1 .. Len(st) : st[j].key # k
        BY <1>1, <1>4, <3>1
      <4> QED
        BY <1>2, <4>1
    <3>3. m \in 1 .. Len(s)
      BY <1>1, <1>5, <1>6, <3>2
    <3>4. m = i
      BY <1>1, <1>4, <3>1, <3>2, <3>3
    <3> QED
      BY <1>1, <2>1, <3>1, <3>2, <3>4 DEF st
  <2> QED
    BY <2>2, <2>3
<1>7. CASE ~\A i \in 1 .. Len(t) : t[i].key # k
  <2>1. PICK i \in 1 .. Len(t) : /\ t[i].key = k
                                 /\ \A j \in 1 .. Len(t) : t[j].key = k => j =< i
                                 /\ LastValue(t, k, LastValue(s, k, d)) = t[i].value
    BY <1>7, LastValueIs
  <2>2. PICK m \in 1 .. Len(st) : /\ st[m].key = k
                                  /\ \A j \in 1 .. Len(st) : st[j].key = k => j =< m
                                  /\ LastValue(st, k, d) = st[m].value
    <3>1. ~\A j \in 1 .. Len(st) : st[j].key # k
      BY <1>1, <1>3, <2>1
    <3> QED
      BY <1>2, <3>1
  <2>3. Len(s) + i =< m
    BY <1>1, <1>3, <2>1, <2>2
  <2>4. PICK j \in 1 .. Len(t) : m = Len(s) + j
    <3>1. m \notin 1 .. Len(s)
      BY <1>1, <2>3
    <3> QED
      BY <1>5, <3>1
  <2>5. j = i
    BY <1>1, <2>1, <2>2, <2>3, <2>4
  <2> QED
    BY <1>1, <2>1, <2>2, <2>4, <2>5 DEF st
<1> QED
  BY <1>6, <1>7

-----------------------------------------------------------------------------
\* What a part of a written text is: lines of the keys K, each parsable, which
\* say of info what parse reads from them, where it is not the default.
DefaultOf(k) == IF k = "References" THEN Empty ELSE Default(k)
ValueIn(info, k) == IF k = "References" THEN JoinReferences(info.references) ELSE info.field[k]

Says(t, K, info) ==
  /\ IsText(t)
  /\ \A i \in 1 .. Len(t) : /\ t[i].layout = "pair" /\ t[i].key \in K /\ ParsesLine(t[i])
                            /\ t[i].value = ValueIn(info, t[i].key)
  /\ \A k \in K : LastValue(t, k, DefaultOf(k)) = ValueIn(info, k)

\* A text without a key says what parse takes by default.
LEMMA NoSuchKey ==
  ASSUME NEW t, IsText(t), NEW k, NEW d, \A i \in 1 .. Len(t) : t[i].key # k
  PROVE  LastValue(t, k, d) = d
BY LastValueIs

\* Two texts with different keys, one after the other, say what each of them says.
LEMMA BothSay ==
  ASSUME NEW info, NEW s, NEW K, NEW t, NEW L, Says(s, K, info), Says(t, L, info), K \cap L = {}
  PROVE  Says(s \o t, K \cup L, info)
<1>1. IsText(s) /\ IsText(t)
  BY DEF Says
<1>2. /\ IsText(s \o t) /\ Len(s \o t) = Len(s) + Len(t)
      /\ \A i \in 1 .. Len(s) : (s \o t)[i] = s[i]
      /\ \A i \in 1 .. Len(t) : (s \o t)[Len(s) + i] = t[i]
      /\ \A i \in 1 .. Len(s) + Len(t) : i \in 1 .. Len(s) \/ i - Len(s) \in 1 .. Len(t)
      /\ Len(s) \in Nat /\ Len(t) \in Nat
  BY <1>1, Joined DEF IsText
<1>3. ASSUME NEW i \in 1 .. Len(s \o t)
      PROVE  /\ (s \o t)[i].layout = "pair" /\ (s \o t)[i].key \in K \cup L
             /\ ParsesLine((s \o t)[i])
             /\ (s \o t)[i].value = ValueIn(info, (s \o t)[i].key)
  <2>1. CASE i \in 1 .. Len(s)
    BY <1>2, <2>1 DEF Says
  <2>2. CASE i - Len(s) \in 1 .. Len(t)
    <3>1. (s \o t)[i] = t[i - Len(s)]
      <4>1. (s \o t)[Len(s) + (i - Len(s))] = t[i - Len(s)]
        BY <1>2, <2>2
      <4>2. Len(s) + (i - Len(s)) = i
        BY <1>2
      <4> QED
        BY <4>1, <4>2
    <3> QED
      BY <2>2, <3>1 DEF Says
  <2> QED
    BY <1>2, <2>1, <2>2
<1>4. ASSUME NEW k \in K PROVE LastValue(s \o t, k, DefaultOf(k)) = ValueIn(info, k)
  <2>1. \A i \in 1 .. Len(t) : t[i].key # k
    BY DEF Says
  <2> QED
    BY <1>1, <2>1, LastOfJoined, NoSuchKey DEF Says
<1>5. ASSUME NEW k \in L PROVE LastValue(s \o t, k, DefaultOf(k)) = ValueIn(info, k)
  <2>1. \A i \in 1 .. Len(s) : s[i].key # k
    BY DEF Says
  <2> QED
    BY <1>1, <2>1, LastOfJoined, NoSuchKey DEF Says
<1> QED
  BY <1>2, <1>3, <1>4, <1>5 DEF Says

\* One line, and an optional one.
LEMMA LineSays ==
  ASSUME NEW info, NEW k, k \in Numbers => ValueIn(info, k) \in Nat
  PROVE  Says(<<Pair(k, ValueIn(info, k))>>, {k}, info)
<1> DEFINE l == Pair(k, ValueIn(info, k))
           t == <<l>>
<1>1. l.key = k /\ l.layout = "pair" /\ l.value = ValueIn(info, k) /\ IsLine(l)
  BY DEF Pair, IsLine
<1>2. ParsesLine(l)
  BY <1>1 DEF ParsesLine
<1> HIDE DEF l
<1>3. Len(t) = 1 /\ 1 \in 1 .. Len(t) /\ (\A i \in 1 .. Len(t) : i = 1 /\ t[i] = l) /\ IsText(t)
  BY <1>1 DEF IsText
<1> HIDE DEF t
<1>4. LastValue(t, k, DefaultOf(k)) = ValueIn(info, k)
  BY <1>1, <1>3, LastValueIs
<1>5. Says(t, {k}, info)
  BY <1>1, <1>2, <1>3, <1>4 DEF Says
<1> QED
  BY <1>5 DEF t, l

\* An optional field is written if it is there, and absent otherwise.
LEMMA GivenSays ==
  ASSUME NEW info, NEW k \in Optional, k \in Numbers /\ info.field[k] # None => info.field[k] \in Nat
  PROVE  Says(Given(info, k), {k}, info)
<1>1. ValueIn(info, k) = info.field[k] /\ DefaultOf(k) = None
  BY DEF ValueIn, DefaultOf, Default, Optional, Always
<1>2. CASE info.field[k] # None
  <2>1. Given(info, k) = <<Pair(k, ValueIn(info, k))>>
    BY <1>1, <1>2 DEF Given
  <2> QED
    BY <1>1, <1>2, <2>1, LineSays
<1>3. CASE info.field[k] = None
  <2>1. Given(info, k) = <<>>
    BY <1>3 DEF Given
  <2>2. Len(<<>>) = 0 /\ 1 .. 0 = {} /\ IsText(<<>>)
    BY DEF IsText
  <2>3. LastValue(<<>>, k, None) = None
    BY <2>2, NoSuchKey
  <2> QED
    BY <1>1, <1>3, <2>1, <2>2, <2>3 DEF Says
<1> QED
  BY <1>2, <1>3

-----------------------------------------------------------------------------
\* What parse makes of a text.
Parsed(info) ==
  /\ info = [field |-> info.field, references |-> info.references, sigs |-> info.sigs,
             sig_pqc |-> info.sig_pqc, extra |-> info.extra]
  /\ info.field = [k \in Always \cup Optional |-> info.field[k]]
  /\ info.field["NarSize"] \in Nat
  /\ info.field["FileSize"] # None => info.field["FileSize"] \in Nat
  /\ Empty \notin {info.field["StorePath"], info.field["NarHash"]}
  /\ SplitReferences(JoinReferences(info.references)) = info.references
  /\ IsList(info.sigs) /\ IsList(info.sig_pqc) /\ IsList(info.extra)
  /\ \A i \in 1 .. Len(info.extra) :
       /\ info.extra[i] = Pair(info.extra[i].key, info.extra[i].value)
       /\ info.extra[i].key \notin Known

\* The lines that to_text writes first.
Fields(info) ==
  <<Pair("StorePath", info.field["StorePath"]), Pair("URL", info.field["URL"]),
    Pair("Compression", info.field["Compression"])>>
  \o Given(info, "FileHash") \o Given(info, "FileSize")
  \o <<Pair("NarHash", info.field["NarHash"]), Pair("NarSize", info.field["NarSize"]),
       Pair("References", JoinReferences(info.references))>>
  \o Given(info, "Deriver") \o Given(info, "System")

FieldKeys == Always \cup Optional \cup {"References"}

\* Three lines with different keys.
LEMMA ThreeSay ==
  ASSUME NEW info, NEW j, NEW k, NEW l, j # k, j # l, k # l,
         \A m \in {j, k, l} : m \in Numbers => ValueIn(info, m) \in Nat
  PROVE  Says(<<Pair(j, ValueIn(info, j)), Pair(k, ValueIn(info, k)), Pair(l, ValueIn(info, l))>>,
              {j, k, l}, info)
<1> DEFINE a == Pair(j, ValueIn(info, j))
           b == Pair(k, ValueIn(info, k))
           c == Pair(l, ValueIn(info, l))
<1>1. Says(<<a>>, {j}, info) /\ Says(<<b>>, {k}, info) /\ Says(<<c>>, {l}, info)
  BY LineSays
<1> HIDE DEF a, b, c
<1>2. Says(<<a>> \o <<b>>, {j} \cup {k}, info)
  BY <1>1, BothSay
<1>3. Says((<<a>> \o <<b>>) \o <<c>>, ({j} \cup {k}) \cup {l}, info)
  BY <1>1, <1>2, BothSay
<1>4. (<<a>> \o <<b>>) \o <<c>> = <<a, b, c>>
  <2> DEFINE S == {a, b, c}
             ab == <<a>> \o <<b>>
             abc == ab \o <<c>>
  <2>1. <<a>> \in Seq(S) /\ <<b>> \in Seq(S) /\ <<c>> \in Seq(S) /\ <<a, b, c>> \in Seq(S)
    OBVIOUS
  <2>2. ab \in Seq(S) /\ Len(ab) = 2 /\ ab[1] = a /\ ab[2] = b
    BY <2>1, ConcatProperties
  <2> HIDE DEF S, ab
  <2>3. abc \in Seq(S) /\ Len(abc) = 3 /\ abc[1] = a /\ abc[2] = b /\ abc[3] = c
    <3> DEFINE cc == <<c>>
    <3>1. cc \in Seq(S) /\ Len(cc) = 1 /\ cc[1] = c
      BY <2>1
    <3> HIDE DEF cc
    <3>2. /\ ab \o cc \in Seq(S) /\ Len(ab \o cc) = Len(ab) + Len(cc)
          /\ \A i \in 1 .. Len(ab) + Len(cc) :
               (ab \o cc)[i] = IF i <= Len(ab) THEN ab[i] ELSE cc[i - Len(ab)]
      BY <2>2, <3>1, ConcatProperties
    <3>3. ab \o cc = abc
      BY DEF cc
    <3> HIDE DEF abc
    <3> QED
      BY <2>2, <3>1, <3>2, <3>3
  <2> HIDE DEF abc
  <2>4. abc = <<a, b, c>>
    BY <2>1, <2>3, SeqEqual
  <2> QED
    BY <2>4 DEF abc, ab
<1>5. ({j} \cup {k}) \cup {l} = {j, k, l}
  OBVIOUS
<1> QED
  BY <1>3, <1>4, <1>5 DEF a, b, c

\* The field lines of to_text say the fields of the document.
LEMMA FieldsSay == ASSUME NEW info, Parsed(info) PROVE Says(Fields(info), FieldKeys, info)
<1> DEFINE A == <<Pair("StorePath", info.field["StorePath"]), Pair("URL", info.field["URL"]),
                  Pair("Compression", info.field["Compression"])>>
           B == <<Pair("NarHash", info.field["NarHash"]), Pair("NarSize", info.field["NarSize"]),
                  Pair("References", JoinReferences(info.references))>>
           KA == {"StorePath", "URL", "Compression"}
           KB == {"NarHash", "NarSize", "References"}
<1>1. Says(A, KA, info)
  <2>1. \A m \in KA : m \notin Numbers /\ ValueIn(info, m) = info.field[m]
    BY DEF Numbers, ValueIn
  <2> QED
    BY <2>1, ThreeSay
<1>2. Says(B, KB, info)
  <2>1. /\ ValueIn(info, "NarHash") = info.field["NarHash"]
        /\ ValueIn(info, "NarSize") = info.field["NarSize"]
        /\ ValueIn(info, "References") = JoinReferences(info.references)
        /\ \A m \in KB : m \in Numbers => ValueIn(info, m) \in Nat
    BY DEF Numbers, ValueIn, Parsed
  <2> QED
    BY <2>1, ThreeSay
<1>3. \A k \in Optional : Says(Given(info, k), {k}, info)
  BY GivenSays DEF Parsed, Optional, Numbers
<1>4. \A k \in {"FileHash", "FileSize", "Deriver", "System"} : k \in Optional
  BY DEF Optional
<1>5. Fields(info) = A \o Given(info, "FileHash") \o Given(info, "FileSize") \o B
                       \o Given(info, "Deriver") \o Given(info, "System")
  BY DEF Fields
<1> HIDE DEF A, B
<1>6. Says(A \o Given(info, "FileHash"), KA \cup {"FileHash"}, info)
  BY <1>1, <1>3, <1>4, BothSay
<1>7. Says(A \o Given(info, "FileHash") \o Given(info, "FileSize"),
           KA \cup {"FileHash"} \cup {"FileSize"}, info)
  BY <1>3, <1>4, <1>6, BothSay
<1>8. Says(A \o Given(info, "FileHash") \o Given(info, "FileSize") \o B,
           KA \cup {"FileHash"} \cup {"FileSize"} \cup KB, info)
  BY <1>2, <1>7, BothSay
<1>9. Says(A \o Given(info, "FileHash") \o Given(info, "FileSize") \o B \o Given(info, "Deriver"),
           KA \cup {"FileHash"} \cup {"FileSize"} \cup KB \cup {"Deriver"}, info)
  BY <1>3, <1>4, <1>8, BothSay
<1>10. Says(Fields(info),
            KA \cup {"FileHash"} \cup {"FileSize"} \cup KB \cup {"Deriver"} \cup {"System"}, info)
  <2> DEFINE K == KA \cup {"FileHash"} \cup {"FileSize"} \cup KB \cup {"Deriver"}
             t == A \o Given(info, "FileHash") \o Given(info, "FileSize") \o B \o Given(info, "Deriver")
  <2>1. Says(t, K, info) /\ K \cap {"System"} = {} /\ Fields(info) = t \o Given(info, "System")
    BY <1>5, <1>9
  <2> HIDE DEF K, t
  <2>2. Says(Fields(info), K \cup {"System"}, info)
    BY <1>3, <1>4, <2>1, BothSay
  <2> QED
    BY <2>2 DEF K
<1>11. FieldKeys = KA \cup {"FileHash"} \cup {"FileSize"} \cup KB \cup {"Deriver"} \cup {"System"}
  BY DEF FieldKeys, Always, Optional
<1> QED
  BY <1>10, <1>11

\* The signature lines of a written text.
LEMMA EachIs ==
  ASSUME NEW k, k \notin Numbers, NEW l, IsList(l)
  PROVE  /\ IsText(Each(k, l)) /\ Len(Each(k, l)) = Len(l)
         /\ \A i \in 1 .. Len(l) : /\ Each(k, l)[i] = Pair(k, l[i])
                                   /\ Each(k, l)[i].layout = "pair" /\ Each(k, l)[i].key = k
                                   /\ Each(k, l)[i].value = l[i]
                                   /\ ParsesLine(Each(k, l)[i])
<1> DEFINE m == Len(l)
           e == [i \in 1 .. m |-> Pair(k, l[i])]
<1>1. m \in Nat /\ DOMAIN l = 1 .. m
  BY DEF IsList
<1>2. Each(k, l) = e
  BY <1>1 DEF Each
<1> HIDE DEF m
<1>3. e \in Seq({Pair(k, l[i]) : i \in 1 .. m}) /\ Len(e) = m
  BY <1>1
<1>4. \A i \in 1 .. m : e[i] = Pair(k, l[i])
  OBVIOUS
<1>5. \A i \in 1 .. m : /\ e[i].layout = "pair" /\ e[i].key = k /\ e[i].value = l[i]
                        /\ IsLine(e[i]) /\ ParsesLine(e[i])
  BY <1>4 DEF Pair, IsLine, ParsesLine
<1> HIDE DEF e
<1>6. IsText(e)
  <2>1. IsList(e)
    <3> DEFINE S == {Pair(k, l[i]) : i \in 1 .. m}
    <3>1. e \in Seq(S)
      BY <1>3
    <3> HIDE DEF S
    <3> QED
      BY <3>1, SeqIsList
  <2> QED
    BY <1>3, <1>5, <2>1, TextIsList
<1> QED
  BY <1>2, <1>3, <1>4, <1>5, <1>6 DEF m

\* The values of a key whose lines stand together, and the unknown keys.
LEMMA ValuesTogether ==
  ASSUME NEW t, IsText(t), NEW k, NEW l, IsList(l), NEW a \in Nat, a + Len(l) =< Len(t),
         \A i \in 1 .. Len(t) : t[i].key = k <=> i \in a + 1 .. a + Len(l),
         \A i \in 1 .. Len(l) : t[a + i].value = l[i]
  PROVE  Values(t, k) = l
<1> DEFINE S == Entries(t)
           b == a + Len(l)
           of == Kept(t, a + 1 .. b)
<1>1. /\ t \in Seq(S) /\ DOMAIN t = 1 .. Len(t) /\ Len(t) \in Nat /\ Len(l) \in Nat
      /\ b \in Nat /\ a =< b /\ b =< Len(t) /\ b - a = Len(l)
  BY ListIsSeq, TextIsList DEF IsList
<1>2. {i \in DOMAIN t : t[i].key = k} = a + 1 .. b
  BY <1>1
<1> HIDE DEF S, b
<1>3. of \in Seq(S) /\ Len(of) = b - a /\ \A i \in 1 .. b - a : of[i] = t[a + i]
  <2>1. /\ t \in Seq(S) /\ a \in Nat /\ b \in Nat /\ a =< b /\ b =< Len(t)
    BY <1>1
  <2> QED
    BY ONLY <2>1, KeptRange
<1> HIDE DEF of
<1>4. DOMAIN of = 1 .. Len(l)
  BY <1>1, <1>3, LenProperties
<1>5. Values(t, k) = [i \in DOMAIN of |-> of[i].value]
  BY <1>2 DEF Values, of
<1>6. Values(t, k) = [i \in 1 .. Len(l) |-> l[i]]
  BY <1>1, <1>3, <1>4, <1>5
<1> QED
  BY <1>6 DEF IsList

\* The unknown lines, where they stand together.
LEMMA UnknownTogether ==
  ASSUME NEW t, IsText(t), NEW l, IsList(l), NEW a \in Nat, a + Len(l) =< Len(t),
         \A i \in 1 .. Len(t) : t[i].key \notin Known <=> i \in a + 1 .. a + Len(l),
         \A i \in 1 .. Len(l) : t[a + i] = l[i] /\ l[i] = Pair(l[i].key, l[i].value)
  PROVE  Unknown(t) = l
<1> DEFINE S == Entries(t)
           b == a + Len(l)
           of == Kept(t, a + 1 .. b)
<1>1. /\ t \in Seq(S) /\ DOMAIN t = 1 .. Len(t) /\ Len(t) \in Nat /\ Len(l) \in Nat
      /\ b \in Nat /\ a =< b /\ b =< Len(t) /\ b - a = Len(l)
  BY ListIsSeq, TextIsList DEF IsList
<1>2. {i \in DOMAIN t : t[i].key \notin Known} = a + 1 .. b
  BY <1>1
<1> HIDE DEF S, b
<1>3. of \in Seq(S) /\ Len(of) = b - a /\ \A i \in 1 .. b - a : of[i] = t[a + i]
  <2>1. t \in Seq(S) /\ b \in Nat /\ a =< b /\ b =< Len(t)
    BY <1>1
  <2> QED
    BY ONLY <2>1, KeptRange, a \in Nat
<1> HIDE DEF of
<1>4. DOMAIN of = 1 .. Len(l)
  BY <1>1, <1>3, LenProperties
<1>5. Unknown(t) = [i \in DOMAIN of |-> Pair(of[i].key, of[i].value)]
  BY <1>2 DEF Unknown, of
<1>6. Unknown(t) = [i \in 1 .. Len(l) |-> l[i]]
  BY <1>1, <1>3, <1>4, <1>5
<1> QED
  BY <1>6 DEF IsList

\* Without blank lines nothing is skipped.
LEMMA WrittenAll ==
  ASSUME NEW t, IsText(t), \A i \in 1 .. Len(t) : t[i].layout = "pair"
  PROVE  Written(t) = t
<1>1. t \in Seq(Entries(t)) /\ DOMAIN t = 1 .. Len(t)
  BY ListIsSeq, TextIsList
<1>2. {i \in DOMAIN t : t[i].layout # "blank"} = DOMAIN t
  BY <1>1
<1> QED
  BY <1>1, <1>2, KeptAll DEF Written

-----------------------------------------------------------------------------
\* A line that to_text writes.
LEMMA PairIs == ASSUME NEW l, NEW k, NEW v, l = Pair(k, v)
                PROVE  l.key = k /\ l.layout = "pair" /\ l.value = v /\ IsLine(l)
BY DEF Pair, IsLine

\* What to_text writes: the fields, then the unknown lines, then the signatures.
LEMMA TextParts ==
  ASSUME NEW info, Parsed(info)
  PROVE  LET t == ToText(info)
             a == Len(Fields(info))
             b == a + Len(info.extra)
             c == b + Len(info.sigs)
         IN  /\ IsText(t)
             /\ a \in Nat /\ b \in Nat /\ c \in Nat /\ Len(t) = c + Len(info.sig_pqc)
             /\ \A i \in 1 .. a : /\ t[i].layout = "pair" /\ t[i].key \in FieldKeys /\ ParsesLine(t[i])
                                 /\ t[i].value = ValueIn(info, t[i].key)
             /\ \A i \in 1 .. Len(info.extra) : t[a + i] = info.extra[i]
             /\ \A i \in 1 .. Len(info.sigs) : t[b + i] = Each("Sig", info.sigs)[i]
             /\ \A i \in 1 .. Len(info.sig_pqc) : t[c + i] = Each("Sig-PQC", info.sig_pqc)[i]
             /\ \A k \in FieldKeys : LastValue(t, k, DefaultOf(k)) = ValueIn(info, k)
<1> DEFINE F == Fields(info)
           X == info.extra
           S == Each("Sig", info.sigs)
           P == Each("Sig-PQC", info.sig_pqc)
           a == Len(F)
           b == a + Len(X)
           c == b + Len(S)
           t2 == F \o X
           t3 == t2 \o S
           t == t3 \o P
<1>1. ToText(info) = t
  BY DEF ToText, Fields
<1>2. Says(F, FieldKeys, info)
  BY FieldsSay
<1>3. /\ IsText(S) /\ Len(S) = Len(info.sigs) /\ \A i \in 1 .. Len(S) : S[i].key = "Sig"
      /\ IsText(P) /\ Len(P) = Len(info.sig_pqc) /\ \A i \in 1 .. Len(P) : P[i].key = "Sig-PQC"
  <2>1. /\ "Sig" \notin Numbers /\ "Sig-PQC" \notin Numbers
        /\ IsList(info.sigs) /\ IsList(info.sig_pqc)
    BY DEF Numbers, Parsed
  <2>2. IsText(S) /\ Len(S) = Len(info.sigs) /\ \A i \in 1 .. Len(info.sigs) : S[i].key = "Sig"
    BY <2>1, EachIs
  <2>3. IsText(P) /\ Len(P) = Len(info.sig_pqc) /\ \A i \in 1 .. Len(info.sig_pqc) : P[i].key = "Sig-PQC"
    BY <2>1, EachIs
  <2> HIDE DEF S, P
  <2> QED
    BY <2>2, <2>3
<1>4. IsText(X)
  <2>1. \A i \in 1 .. Len(X) : IsLine(X[i])
    BY PairIs DEF Parsed
  <2> QED
    BY <2>1, TextIsList DEF Parsed
<1>5. IsText(F) /\ a \in Nat /\ Len(X) \in Nat /\ Len(S) \in Nat /\ Len(P) \in Nat
  BY <1>2, <1>3, <1>4 DEF Says, IsText
<1> HIDE DEF F, X, S, P
<1>6. IsText(t2) /\ Len(t2) = b /\ b \in Nat
      /\ (\A i \in 1 .. a : t2[i] = F[i]) /\ (\A i \in 1 .. Len(X) : t2[a + i] = X[i])
  BY <1>4, <1>5, Joined
<1> HIDE DEF t2
<1>7. IsText(t3) /\ Len(t3) = c /\ c \in Nat
      /\ (\A i \in 1 .. b : t3[i] = t2[i]) /\ (\A i \in 1 .. Len(S) : t3[b + i] = S[i])
  <2>1. /\ IsText(t3) /\ Len(t3) = Len(t2) + Len(S)
        /\ \A i \in 1 .. Len(t2) : t3[i] = t2[i]
        /\ \A i \in 1 .. Len(S) : t3[Len(t2) + i] = S[i]
    <3>1. IsText(t2) /\ IsText(S)
      BY <1>3, <1>6
    <3> QED
      BY <3>1, Joined
  <2> HIDE DEF t3, b
  <2> QED
    BY <1>5, <1>6, <2>1
<1> HIDE DEF t3
<1>8. IsText(t) /\ Len(t) = c + Len(P)
      /\ (\A i \in 1 .. c : t[i] = t3[i]) /\ (\A i \in 1 .. Len(P) : t[c + i] = P[i])
  <2>1. /\ IsText(t) /\ Len(t) = Len(t3) + Len(P)
        /\ \A i \in 1 .. Len(t3) : t[i] = t3[i]
        /\ \A i \in 1 .. Len(P) : t[Len(t3) + i] = P[i]
    <3>1. IsText(t3) /\ IsText(P)
      BY <1>3, <1>7
    <3> QED
      BY <3>1, Joined
  <2> HIDE DEF t, c
  <2> QED
    BY <1>5, <1>7, <2>1
<1> HIDE DEF t
<1>9. \A i \in 1 .. a : t[i] = F[i]
  BY <1>5, <1>6, <1>7, <1>8
<1>10. \A i \in 1 .. Len(X) : t[a + i] = X[i]
  <2> SUFFICES ASSUME NEW i \in 1 .. Len(X) PROVE t[a + i] = X[i]
    OBVIOUS
  <2>1. a + i \in 1 .. b /\ a + i \in 1 .. c
    BY <1>5
  <2> QED
    BY <1>6, <1>7, <1>8, <2>1
<1>11. \A i \in 1 .. Len(S) : t[b + i] = S[i]
  <2> SUFFICES ASSUME NEW i \in 1 .. Len(S) PROVE t[b + i] = S[i]
    OBVIOUS
  <2>1. b + i \in 1 .. c
    BY <1>5
  <2> QED
    BY <1>7, <1>8, <2>1
<1>12. ASSUME NEW k \in FieldKeys PROVE LastValue(t, k, DefaultOf(k)) = ValueIn(info, k)
  <2> DEFINE d == ValueIn(info, k)
  <2>1. LastValue(F, k, DefaultOf(k)) = d
    BY <1>2 DEF Says
  <2>2. k \in Known /\ k # "Sig" /\ k # "Sig-PQC"
    BY DEF FieldKeys, Known, Always, Optional
  <2>3. \A i \in 1 .. Len(X) : X[i].key # k
    BY <2>2 DEF Parsed, X
  <2>4. LastValue(X, k, d) = d /\ LastValue(S, k, d) = d /\ LastValue(P, k, d) = d
    BY <1>3, <1>4, <2>2, <2>3, NoSuchKey
  <2> HIDE DEF d
  <2>5. LastValue(t2, k, DefaultOf(k)) = d
    BY <1>4, <1>5, <2>1, <2>4, LastOfJoined DEF t2
  <2>6. LastValue(t3, k, DefaultOf(k)) = d
    BY <1>3, <1>6, <2>4, <2>5, LastOfJoined DEF t3
  <2>7. LastValue(t, k, DefaultOf(k)) = d
    BY <1>3, <1>7, <2>4, <2>6, LastOfJoined DEF t
  <2> QED
    BY <2>7 DEF d
<1>13. \A i \in 1 .. a : /\ t[i].layout = "pair" /\ t[i].key \in FieldKeys /\ ParsesLine(t[i])
                         /\ t[i].value = ValueIn(info, t[i].key)
  BY <1>2, <1>9 DEF Says
<1> QED
  BY <1>1, <1>3, <1>5, <1>6, <1>7, <1>8, <1>10, <1>11, <1>12, <1>13 DEF F, X, S, P

\* The lines of a written text, part by part.
LEMMA TextLines ==
  ASSUME NEW info, Parsed(info)
  PROVE  LET t == ToText(info)
             X == info.extra
             S == info.sigs
             P == info.sig_pqc
             a == Len(Fields(info))
             b == a + Len(X)
             c == b + Len(S)
         IN  /\ \A i \in 1 .. Len(X) : /\ t[a + i].layout = "pair" /\ t[a + i].key \notin Known
                                      /\ ParsesLine(t[a + i])
             /\ \A i \in 1 .. Len(S) : /\ t[b + i].layout = "pair" /\ t[b + i].key = "Sig"
                                      /\ t[b + i].value = S[i] /\ ParsesLine(t[b + i])
             /\ \A i \in 1 .. Len(P) : /\ t[c + i].layout = "pair" /\ t[c + i].key = "Sig-PQC"
                                      /\ t[c + i].value = P[i] /\ ParsesLine(t[c + i])
             /\ \A i \in 1 .. Len(t) :
                  \/ i \in 1 .. a
                  \/ i \in a + 1 .. a + Len(X) /\ \E j \in 1 .. Len(X) : i = a + j
                  \/ i \in b + 1 .. b + Len(S) /\ \E j \in 1 .. Len(S) : i = b + j
                  \/ i \in c + 1 .. c + Len(P) /\ \E j \in 1 .. Len(P) : i = c + j
<1> DEFINE t == ToText(info)
           X == info.extra
           S == info.sigs
           P == info.sig_pqc
           a == Len(Fields(info))
           b == a + Len(X)
           c == b + Len(S)
<1>1. /\ IsText(t)
      /\ a \in Nat /\ b \in Nat /\ c \in Nat /\ Len(t) = c + Len(P)
      /\ \A i \in 1 .. a : /\ t[i].layout = "pair" /\ t[i].key \in FieldKeys /\ ParsesLine(t[i])
                          /\ t[i].value = ValueIn(info, t[i].key)
      /\ \A i \in 1 .. Len(X) : t[a + i] = X[i]
      /\ \A i \in 1 .. Len(S) : t[b + i] = Each("Sig", S)[i]
      /\ \A i \in 1 .. Len(P) : t[c + i] = Each("Sig-PQC", P)[i]
      /\ \A k \in FieldKeys : LastValue(t, k, DefaultOf(k)) = ValueIn(info, k)
  BY TextParts
<1>2. Len(X) \in Nat /\ Len(S) \in Nat /\ Len(P) \in Nat /\ IsList(X) /\ IsList(S) /\ IsList(P)
  BY DEF Parsed, IsList
<1> HIDE DEF t, a
<1>3. \A i \in 1 .. Len(X) : /\ t[a + i].layout = "pair" /\ t[a + i].key \notin Known
                             /\ ParsesLine(t[a + i])
  <2>1. \A i \in 1 .. Len(X) : X[i].layout = "pair" /\ X[i].key \notin Known
    BY PairIs DEF Parsed
  <2>2. Numbers \subseteq Known
    BY DEF Numbers, Known, Always, Optional
  <2> QED
    BY <1>1, <2>1, <2>2 DEF ParsesLine
<1>4. \A i \in 1 .. Len(S) : /\ t[b + i].layout = "pair" /\ t[b + i].key = "Sig"
                             /\ t[b + i].value = S[i] /\ ParsesLine(t[b + i])
  <2>1. "Sig" \notin Numbers /\ IsList(S)
    BY <1>2 DEF Numbers
  <2> HIDE DEF S
  <2>2. \A i \in 1 .. Len(S) : /\ Each("Sig", S)[i].layout = "pair" /\ Each("Sig", S)[i].key = "Sig"
                               /\ Each("Sig", S)[i].value = S[i] /\ ParsesLine(Each("Sig", S)[i])
    BY <2>1, EachIs
  <2> QED
    BY <1>1, <2>2
<1>5. \A i \in 1 .. Len(P) : /\ t[c + i].layout = "pair" /\ t[c + i].key = "Sig-PQC"
                             /\ t[c + i].value = P[i] /\ ParsesLine(t[c + i])
  <2>1. "Sig-PQC" \notin Numbers /\ IsList(P)
    BY <1>2 DEF Numbers
  <2> HIDE DEF P
  <2>2. \A i \in 1 .. Len(P) : /\ Each("Sig-PQC", P)[i].layout = "pair" /\ Each("Sig-PQC", P)[i].key = "Sig-PQC"
                               /\ Each("Sig-PQC", P)[i].value = P[i] /\ ParsesLine(Each("Sig-PQC", P)[i])
    BY <2>1, EachIs
  <2> QED
    BY <1>1, <2>2
<1> HIDE DEF X, S, P
<1>6. ASSUME NEW i \in 1 .. Len(t)
      PROVE  \/ i \in 1 .. a
             \/ i \in a + 1 .. a + Len(X) /\ \E j \in 1 .. Len(X) : i = a + j
             \/ i \in b + 1 .. b + Len(S) /\ \E j \in 1 .. Len(S) : i = b + j
             \/ i \in c + 1 .. c + Len(P) /\ \E j \in 1 .. Len(P) : i = c + j
  <2>1. CASE i \in a + 1 .. a + Len(X)
    <3>1. i - a \in 1 .. Len(X) /\ i = a + (i - a)
      BY <1>1, <1>2, <2>1
    <3> QED
      BY <2>1, <3>1
  <2>2. CASE i \in b + 1 .. b + Len(S)
    <3>1. i - b \in 1 .. Len(S) /\ i = b + (i - b)
      BY <1>1, <1>2, <2>2
    <3> QED
      BY <2>2, <3>1
  <2>3. CASE i \in c + 1 .. c + Len(P)
    <3>1. i - c \in 1 .. Len(P) /\ i = c + (i - c)
      BY <1>1, <1>2, <2>3
    <3> QED
      BY <2>3, <3>1
  <2> QED
    BY <1>1, <1>2, <2>1, <2>2, <2>3
<1> QED
  BY <1>3, <1>4, <1>5, <1>6 DEF t, a, X, S, P

\* Writing a document and reading it back gives the same document.
THEOREM RoundTrip ==
  ASSUME NEW info, Parsed(info)
  PROVE  IsText(ToText(info)) /\ Parse(ToText(info)) = info
<1> DEFINE t == ToText(info)
           X == info.extra
           S == info.sigs
           P == info.sig_pqc
           a == Len(Fields(info))
           b == a + Len(X)
           c == b + Len(S)
<1>1. /\ IsText(t)
      /\ a \in Nat /\ b \in Nat /\ c \in Nat /\ Len(t) = c + Len(P)
      /\ \A i \in 1 .. a : t[i].layout = "pair" /\ t[i].key \in FieldKeys /\ ParsesLine(t[i])
      /\ \A i \in 1 .. Len(X) : t[a + i] = X[i]
      /\ \A i \in 1 .. Len(S) : t[b + i] = Each("Sig", S)[i]
      /\ \A i \in 1 .. Len(P) : t[c + i] = Each("Sig-PQC", P)[i]
      /\ \A k \in FieldKeys : LastValue(t, k, DefaultOf(k)) = ValueIn(info, k)
  BY TextParts
<1>2. Len(X) \in Nat /\ Len(S) \in Nat /\ Len(P) \in Nat /\ IsList(X) /\ IsList(S) /\ IsList(P)
  BY DEF Parsed, IsList
<1>3. /\ \A i \in 1 .. Len(X) : /\ t[a + i].layout = "pair" /\ t[a + i].key \notin Known
                               /\ ParsesLine(t[a + i])
      /\ \A i \in 1 .. Len(S) : /\ t[b + i].layout = "pair" /\ t[b + i].key = "Sig"
                               /\ t[b + i].value = S[i] /\ ParsesLine(t[b + i])
      /\ \A i \in 1 .. Len(P) : /\ t[c + i].layout = "pair" /\ t[c + i].key = "Sig-PQC"
                               /\ t[c + i].value = P[i] /\ ParsesLine(t[c + i])
      /\ \A i \in 1 .. Len(t) :
           \/ i \in 1 .. a
           \/ i \in a + 1 .. a + Len(X) /\ \E j \in 1 .. Len(X) : i = a + j
           \/ i \in b + 1 .. b + Len(S) /\ \E j \in 1 .. Len(S) : i = b + j
           \/ i \in c + 1 .. c + Len(P) /\ \E j \in 1 .. Len(P) : i = c + j
  BY TextLines
<1> HIDE DEF t, a, X, S, P
<1>4. ASSUME NEW i \in 1 .. Len(t)
      PROVE  \/ i \in 1 .. a
             \/ i \in a + 1 .. a + Len(X) /\ \E j \in 1 .. Len(X) : i = a + j
             \/ i \in b + 1 .. b + Len(S) /\ \E j \in 1 .. Len(S) : i = b + j
             \/ i \in c + 1 .. c + Len(P) /\ \E j \in 1 .. Len(P) : i = c + j
  BY <1>3
<1>5. ASSUME NEW i \in 1 .. Len(t) PROVE t[i].layout = "pair" /\ ParsesLine(t[i])
  <2>1. CASE i \in 1 .. a
    BY <1>1, <2>1
  <2>2. CASE \E j \in 1 .. Len(X) : i = a + j
    BY <1>3, <2>2
  <2>3. CASE \E j \in 1 .. Len(S) : i = b + j
    BY <1>3, <2>3
  <2>4. CASE \E j \in 1 .. Len(P) : i = c + j
    BY <1>3, <2>4
  <2> QED
    BY <1>4, <2>1, <2>2, <2>3, <2>4
<1>6. \A k \in FieldKeys : k \in Known /\ k # "Sig" /\ k # "Sig-PQC"
  BY DEF FieldKeys, Known, Always, Optional
<1>7. ASSUME NEW i \in 1 .. Len(t)
      PROVE  /\ t[i].key \notin Known <=> i \in a + 1 .. a + Len(X)
             /\ t[i].key = "Sig" <=> i \in b + 1 .. b + Len(S)
             /\ t[i].key = "Sig-PQC" <=> i \in c + 1 .. c + Len(P)
  <2>1. "Sig" \in Known /\ "Sig-PQC" \in Known
    BY DEF Known
  <2>2. CASE i \in 1 .. a
    BY <1>1, <1>2, <1>6, <2>1, <2>2
  <2>3. CASE i \in a + 1 .. a + Len(X) /\ \E j \in 1 .. Len(X) : i = a + j
    BY <1>1, <1>2, <1>3, <2>1, <2>3
  <2>4. CASE i \in b + 1 .. b + Len(S) /\ \E j \in 1 .. Len(S) : i = b + j
    BY <1>1, <1>2, <1>3, <2>1, <2>4
  <2>5. CASE i \in c + 1 .. c + Len(P) /\ \E j \in 1 .. Len(P) : i = c + j
    BY <1>1, <1>2, <1>3, <2>1, <2>5
  <2> QED
    BY <1>4, <2>2, <2>3, <2>4, <2>5
<1>8. Unknown(t) = X
  <2>1. \A i \in 1 .. Len(X) : t[a + i] = X[i] /\ X[i] = Pair(X[i].key, X[i].value)
    BY <1>1 DEF Parsed, X
  <2>2. a + Len(X) =< Len(t)
    BY <1>1, <1>2
  <2>3. \A i \in 1 .. Len(t) : t[i].key \notin Known <=> i \in a + 1 .. a + Len(X)
    BY <1>7
  <2> QED
    BY <1>1, <1>2, <2>1, <2>2, <2>3, UnknownTogether
<1>9. Values(t, "Sig") = S
  <2>1. b + Len(S) =< Len(t)
    BY <1>1, <1>2
  <2>2. \A i \in 1 .. Len(t) : t[i].key = "Sig" <=> i \in b + 1 .. b + Len(S)
    BY <1>7
  <2>3. \A i \in 1 .. Len(S) : t[b + i].value = S[i]
    BY <1>3
  <2> HIDE DEF b
  <2> QED
    BY <1>1, <1>2, <2>1, <2>2, <2>3, ValuesTogether
<1>10. Values(t, "Sig-PQC") = P
  <2>1. c + Len(P) =< Len(t)
    BY <1>1, <1>2
  <2>2. \A i \in 1 .. Len(t) : t[i].key = "Sig-PQC" <=> i \in c + 1 .. c + Len(P)
    BY <1>7
  <2>3. \A i \in 1 .. Len(P) : t[c + i].value = P[i]
    BY <1>3
  <2> HIDE DEF c
  <2> QED
    BY <1>1, <1>2, <2>1, <2>2, <2>3, ValuesTogether
<1>11. Written(t) = t
  BY <1>1, <1>5, WrittenAll
<1>12. [k \in Always \cup Optional |-> LastValue(t, k, Default(k))] = info.field
  <2>1. ASSUME NEW k \in Always \cup Optional PROVE LastValue(t, k, Default(k)) = info.field[k]
    <3>1. k \in FieldKeys /\ k # "References"
      BY DEF FieldKeys, Always, Optional
    <3> QED
      BY <1>1, <3>1 DEF DefaultOf, ValueIn
  <2> QED
    BY <2>1 DEF Parsed
<1>13. SplitReferences(LastValue(t, "References", Empty)) = info.references
  <2>1. "References" \in FieldKeys
    BY DEF FieldKeys
  <2>2. LastValue(t, "References", Empty) = JoinReferences(info.references)
    BY <1>1, <2>1 DEF DefaultOf, ValueIn
  <2> QED
    BY <2>2 DEF Parsed
<1>14. DOMAIN t = 1 .. Len(t)
  BY <1>1 DEF IsText
<1>15. Parse(t) = [field |-> info.field, references |-> info.references,
                   sigs |-> S, sig_pqc |-> P, extra |-> X]
  BY <1>5, <1>8, <1>9, <1>10, <1>11, <1>12, <1>13, <1>14 DEF Parse, Parsed
<1>16. info = [field |-> info.field, references |-> info.references,
               sigs |-> S, sig_pqc |-> P, extra |-> X]
  BY DEF Parsed, S, P, X
<1> QED
  BY <1>1, <1>15, <1>16 DEF t

-----------------------------------------------------------------------------
\* What parse makes of any text is a document that to_text writes faithfully.
LEMMA ParseGives == ASSUME NEW t, IsText(t), Parse(t) # Malformed PROVE Parsed(Parse(t))
<1> DEFINE w == Written(t)
           S == Entries(t)
           info == Parse(t)
           field == [k \in Always \cup Optional |-> LastValue(w, k, Default(k))]
           I == {i \in DOMAIN t : t[i].layout # "blank"}
<1>1. t \in Seq(S) /\ DOMAIN t = 1 .. Len(t) /\ \A i \in 1 .. Len(t) : IsLine(t[i])
  BY ListIsSeq, TextIsList
<1> HIDE DEF S
<1>2. info = [field |-> field, references |-> SplitReferences(LastValue(w, "References", Empty)),
              sigs |-> Values(w, "Sig"), sig_pqc |-> Values(w, "Sig-PQC"), extra |-> Unknown(w)]
      /\ (\A i \in DOMAIN t : ParsesLine(t[i]))
      /\ Empty \notin {field["StorePath"], field["NarHash"]}
  BY DEF Parse
<1> HIDE DEF info
<1>3. /\ w \in Seq(S)
      /\ \A i \in DOMAIN w : \E j \in DOMAIN t : w[i] = t[j]
  <2>1. w = Kept(t, I)
    BY DEF Written
  <2> HIDE DEF I
  <2>2. /\ Kept(t, I) \in Seq(S)
        /\ \A i \in DOMAIN Kept(t, I) : \E j \in DOMAIN t \cap I : Kept(t, I)[i] = t[j]
    BY <1>1, KeptKeeps
  <2> HIDE DEF w
  <2> QED
    BY <2>1, <2>2
<1> HIDE DEF w
<1>4. DOMAIN w = 1 .. Len(w) /\ Len(w) \in Nat
  BY <1>3, LenProperties
<1>5. IsText(w) /\ \A i \in 1 .. Len(w) : ParsesLine(w[i])
  <2>1. \A i \in 1 .. Len(w) : IsLine(w[i]) /\ ParsesLine(w[i])
    BY <1>1, <1>2, <1>3, <1>4
  <2> QED
    BY <1>3, <2>1, SeqIsList, TextIsList
<1>6. ASSUME NEW k \in Numbers
      PROVE  \/ LastValue(w, k, Default(k)) \in Nat
             \/ LastValue(w, k, Default(k)) = Default(k)
  BY <1>5, LastValueIs DEF ParsesLine
<1>7. field["NarSize"] \in Nat /\ (field["FileSize"] # None => field["FileSize"] \in Nat)
  <2>1. /\ field["NarSize"] = LastValue(w, "NarSize", Default("NarSize"))
        /\ field["FileSize"] = LastValue(w, "FileSize", Default("FileSize"))
    BY DEF Always, Optional
  <2>2. Default("NarSize") = 0 /\ Default("FileSize") = None
    BY DEF Default, Always
  <2> HIDE DEF field
  <2> QED
    BY <1>6, <2>1, <2>2 DEF Numbers
<1>8. ASSUME NEW v PROVE SplitReferences(JoinReferences(SplitReferences(v))) = SplitReferences(v)
  BY DEF SplitReferences, JoinReferences
<1>9. ASSUME NEW k PROVE IsList(Values(w, k))
  <2> DEFINE J == {i \in DOMAIN w : w[i].key = k}
             of == Kept(w, J)
             values == [i \in 1 .. Len(of) |-> of[i].value]
  <2>1. of \in Seq(S)
    <3> HIDE DEF J
    <3> QED
      BY <1>3, KeptKeeps
  <2>2. Values(w, k) = [i \in DOMAIN of |-> of[i].value]
    BY DEF Values
  <2> HIDE DEF of
  <2>3. Len(of) \in Nat /\ DOMAIN of = 1 .. Len(of)
    BY <2>1, LenProperties
  <2>4. values \in Seq({of[i].value : i \in 1 .. Len(of)})
    BY <2>3
  <2>5. IsList(values)
    <3> DEFINE V == {of[i].value : i \in 1 .. Len(of)}
    <3>1. values \in Seq(V)
      BY <2>4
    <3> HIDE DEF V, values
    <3> QED
      BY <3>1, SeqIsList
  <2> QED
    BY <2>2, <2>3, <2>5
<1>10. IsList(Unknown(w)) /\ \A i \in 1 .. Len(Unknown(w)) :
         /\ Unknown(w)[i] = Pair(Unknown(w)[i].key, Unknown(w)[i].value)
         /\ Unknown(w)[i].key \notin Known
  <2> DEFINE J == {i \in DOMAIN w : w[i].key \notin Known}
             of == Kept(w, J)
             V == {Pair(of[i].key, of[i].value) : i \in 1 .. Len(of)}
             unknown == [i \in 1 .. Len(of) |-> Pair(of[i].key, of[i].value)]
  <2>1. of \in Seq(S) /\ \A i \in DOMAIN of : \E j \in DOMAIN w \cap J : of[i] = w[j]
    <3> HIDE DEF J
    <3> QED
      BY <1>3, KeptKeeps
  <2>2. Unknown(w) = [i \in DOMAIN of |-> Pair(of[i].key, of[i].value)]
    BY DEF Unknown
  <2> HIDE DEF of
  <2>3. Len(of) \in Nat /\ DOMAIN of = 1 .. Len(of)
    BY <2>1, LenProperties
  <2>4. \A i \in 1 .. Len(of) : of[i].key \notin Known
    BY <2>1, <2>3
  <2>5. unknown \in Seq(V) /\ Len(unknown) = Len(of)
    BY <2>3
  <2>6. \A i \in 1 .. Len(of) : unknown[i] = Pair(of[i].key, of[i].value)
    OBVIOUS
  <2> HIDE DEF V, unknown
  <2>7. IsList(unknown)
    BY <2>5, SeqIsList
  <2>8. \A i \in 1 .. Len(unknown) : /\ unknown[i] = Pair(unknown[i].key, unknown[i].value)
                                     /\ unknown[i].key \notin Known
    BY <2>4, <2>5, <2>6, PairIs
  <2>9. Unknown(w) = unknown
    BY <2>2, <2>3 DEF unknown
  <2> QED
    BY <2>7, <2>8, <2>9
<1>11. /\ info.field = field /\ info.sigs = Values(w, "Sig") /\ info.sig_pqc = Values(w, "Sig-PQC")
       /\ info.extra = Unknown(w)
       /\ info.references = SplitReferences(LastValue(w, "References", Empty))
  BY <1>2
<1>12. field = [k \in Always \cup Optional |-> field[k]]
  OBVIOUS
<1> HIDE DEF field
<1>13. info = [field |-> info.field, references |-> info.references, sigs |-> info.sigs,
               sig_pqc |-> info.sig_pqc, extra |-> info.extra]
  BY <1>2, <1>11
<1> QED
  BY <1>2, <1>7, <1>8, <1>9, <1>10, <1>11, <1>12, <1>13 DEF Parsed, info

\* A document with other signature lines is the same but for these.
LEMMA WithLinesIs ==
  ASSUME NEW info, NEW view, NEW f, NEW r, NEW s, NEW p, NEW x,
         info = [field |-> f, references |-> r, sigs |-> s, sig_pqc |-> p, extra |-> x]
  PROVE  WithLines(info, view) = [field |-> f, references |-> r, sigs |-> view.sigs,
                                  sig_pqc |-> view.sig_pqc, extra |-> x]
<1> DEFINE a == view.sigs
           b == view.sig_pqc
<1>1. WithLines(info, view) = [info EXCEPT !.sigs = a, !.sig_pqc = b]
  BY DEF WithLines
<1> HIDE DEF a, b
<1>2. [info EXCEPT !.sigs = a] = [field |-> f, references |-> r, sigs |-> a, sig_pqc |-> p, extra |-> x]
  OBVIOUS
<1>3. [info EXCEPT !.sigs = a, !.sig_pqc = b] = [[info EXCEPT !.sigs = a] EXCEPT !.sig_pqc = b]
  OBVIOUS
<1>4. [[field |-> f, references |-> r, sigs |-> a, sig_pqc |-> p, extra |-> x] EXCEPT !.sig_pqc = b] =
        [field |-> f, references |-> r, sigs |-> a, sig_pqc |-> b, extra |-> x]
  OBVIOUS
<1> QED
  BY <1>1, <1>2, <1>3, <1>4 DEF a, b

\* What a hop writes is read back with the lines it has now, and nothing else
\* is different.
LEMMA HopWrites ==
  ASSUME NEW info, Parsed(info), NEW view, IsList(view.sigs), IsList(view.sig_pqc)
  PROVE  LET new == Parse(ToText(WithLines(info, view)))
         IN  /\ IsText(ToText(WithLines(info, view)))
             /\ Parsed(new) /\ new = WithLines(info, view) /\ new # Malformed
             /\ new.field = info.field /\ new.references = info.references
             /\ new.extra = info.extra
             /\ new.sigs = view.sigs /\ new.sig_pqc = view.sig_pqc
<1> DEFINE new == WithLines(info, view)
<1>1. new = [field |-> info.field, references |-> info.references, sigs |-> view.sigs,
             sig_pqc |-> view.sig_pqc, extra |-> info.extra]
  <2>1. info = [field |-> info.field, references |-> info.references, sigs |-> info.sigs,
                sig_pqc |-> info.sig_pqc, extra |-> info.extra]
    BY DEF Parsed
  <2> QED
    BY <2>1, WithLinesIs
<1> HIDE DEF new
<1>2. Parsed(new)
  BY <1>1 DEF Parsed
<1>3. IsText(ToText(new)) /\ Parse(ToText(new)) = new
  BY <1>2, RoundTrip
<1>4. new # Malformed
  BY <1>1 DEF Malformed
<1> QED
  BY <1>1, <1>2, <1>3, <1>4 DEF new

-----------------------------------------------------------------------------
\* A text with one more line.
LEMMA OneMore ==
  ASSUME NEW t, IsText(t), NEW l, IsLine(l)
  PROVE  /\ IsText(Append(t, l)) /\ Len(Append(t, l)) = Len(t) + 1
         /\ \A i \in 1 .. Len(t) : Append(t, l)[i] = t[i]
         /\ Append(t, l)[Len(t) + 1] = l
<1> DEFINE S == Entries(t) \cup {l}
<1>1. t \in Seq(S) /\ l \in S
  BY ListIsSeq, TextIsList, SeqMonotonic
<1>2. \A x \in S : IsLine(x)
  BY TextIsList DEF Entries
<1> HIDE DEF S
<1>3. /\ Append(t, l) \in Seq(S) /\ Len(Append(t, l)) = Len(t) + 1
      /\ \A i \in 1 .. Len(t) : Append(t, l)[i] = t[i]
      /\ Append(t, l)[Len(t) + 1] = l
  BY <1>1, AppendProperties
<1>4. \A i \in 1 .. Len(Append(t, l)) : Append(t, l)[i] \in S
  BY <1>3, ElementOfSeq
<1>5. IsText(Append(t, l))
  BY <1>2, <1>3, <1>4, SeqIsList, TextIsList
<1> QED
  BY <1>3, <1>5

\* Part of a text and a text with lines replaced are texts.
LEMMA PartIsText ==
  ASSUME NEW t, IsText(t), NEW n \in 0 .. Len(t) - 1
  PROVE  /\ IsText(SubSeq(t, 1, n)) /\ Len(SubSeq(t, 1, n)) = n
         /\ \A i \in 1 .. n : SubSeq(t, 1, n)[i] = t[i]
<1>1. \A i \in 1 .. n : t[i] \in Entries(t) /\ IsLine(t[i])
  BY TextIsList DEF Entries, IsList
<1>2. /\ SubSeq(t, 1, n) \in Seq(Entries(t)) /\ Len(SubSeq(t, 1, n)) = n
      /\ \A i \in 1 .. n : SubSeq(t, 1, n)[i] = t[i]
  BY <1>1, SubSeqProperties
<1> QED
  BY <1>1, <1>2, SeqIsList, TextIsList

LEMMA TableIsText ==
  ASSUME NEW n \in Nat, NEW f, f = [i \in 1 .. n |-> f[i]], \A i \in 1 .. n : IsLine(f[i])
  PROVE  IsText(f) /\ Len(f) = n
<1> DEFINE S == {f[i] : i \in 1 .. n}
<1>1. f \in Seq(S) /\ Len(f) = n
  OBVIOUS
<1> HIDE DEF S
<1> QED
  BY <1>1, SeqIsList, TextIsList
-----------------------------------------------------------------------------
\* The positions of the references up to x, and of those before it.
UpTo(r, x) == {i \in DOMAIN r : r[i] =< x}
Before(r, x) == {i \in DOMAIN r : r[i] < x}
Ranked(r, n, x) == Cardinality(Before(r, x)) < n /\ n =< Cardinality(UpTo(r, x))

LEMMA CountedPositions ==
  ASSUME NEW r \in Seq(Nat), NEW x
  PROVE  /\ IsFiniteSet(UpTo(r, x)) /\ Cardinality(UpTo(r, x)) \in 0 .. Len(r)
         /\ IsFiniteSet(Before(r, x)) /\ Cardinality(Before(r, x)) \in 0 .. Len(r)
<1> DEFINE D == 1 .. Len(r)
<1>1. Len(r) \in Nat /\ DOMAIN r = D
  BY LenProperties
<1>2. IsFiniteSet(D) /\ Cardinality(D) = Len(r)
  <2>1. 1 \in Int /\ Len(r) \in Int /\ (1 > Len(r) <=> Len(r) = 0) /\ Len(r) - 1 + 1 = Len(r)
    BY <1>1
  <2> QED
    BY <2>1, FS_Interval
<1>3. UpTo(r, x) \in SUBSET D /\ Before(r, x) \in SUBSET D
  BY <1>1 DEF UpTo, Before
<1> HIDE DEF D
<1>4. \A A \in SUBSET D : IsFiniteSet(A) /\ Cardinality(A) \in Nat /\ Cardinality(A) =< Len(r)
  BY <1>2, FS_Subset, FS_CardinalityType
<1> QED
  BY <1>1, <1>3, <1>4

\* A list of numbers has a bound.
LEMMA Bounded ==
  ASSUME NEW r \in Seq(Nat)
  PROVE  \E b \in Nat : \A i \in 1 .. Len(r) : r[i] =< b
<1> DEFINE S == {k \in 0 .. Len(r) : \E b \in Nat : \A i \in 1 .. k : r[i] =< b}
<1>1. Len(r) \in Nat /\ \A i \in 1 .. Len(r) : r[i] \in Nat
  BY LenProperties, ElementOfSeq
<1>2. 0 \in S
  BY <1>1
<1>3. ASSUME NEW n \in 1 .. Len(r), n - 1 \in S PROVE n \in S
  <2>1. PICK b \in Nat : \A i \in 1 .. n - 1 : r[i] =< b
    BY <1>3
  <2> DEFINE c == b + r[n]
  <2>2. c \in Nat /\ b =< c /\ r[n] =< c
    BY <1>1
  <2>3. \A i \in 1 .. n : r[i] =< c
    <3> HIDE DEF c
    <3> SUFFICES ASSUME NEW i \in 1 .. n PROVE r[i] =< c
      OBVIOUS
    <3>1. i = n \/ (i \in 1 .. n - 1 /\ r[i] \in Nat)
      BY <1>1
    <3> QED
      BY <2>1, <2>2, <3>1
  <2>4. n \in 0 .. Len(r)
    BY <1>1
  <2> HIDE DEF c
  <2> QED
    BY <2>2, <2>3, <2>4
<1>4. 0 .. Len(r) \subseteq S
  <2> HIDE DEF S
  <2> QED
    BY <1>1, <1>2, <1>3, InductionUpTo
<1>5. Len(r) \in S
  <2> HIDE DEF S
  <2> QED
    BY <1>1, <1>4
<1> QED
  BY <1>5

\* Every place of the order has its reference, and one only.
LEMMA OneForEach ==
  ASSUME NEW r \in Seq(Nat), NEW n \in 1 .. Len(r)
  PROVE  /\ \E x \in ToSet(r) : Ranked(r, n, x)
         /\ \A x, y \in ToSet(r) : Ranked(r, n, x) /\ Ranked(r, n, y) => x = y
<1>1. Len(r) \in Nat /\ DOMAIN r = 1 .. Len(r) /\ \A i \in 1 .. Len(r) : r[i] \in Nat
  BY LenProperties, ElementOfSeq
<1>2. \A x \in ToSet(r) : x \in Nat
  BY <1>1 DEF ToSet
<1>3. \A x : Cardinality(UpTo(r, x)) \in Nat /\ Cardinality(Before(r, x)) \in Nat
  BY CountedPositions
<1>4. ASSUME NEW x \in ToSet(r), NEW y \in ToSet(r), Ranked(r, n, x), Ranked(r, n, y), x < y
      PROVE  FALSE
  <2>1. x \in Nat /\ y \in Nat
    BY <1>2
  <2>2. UpTo(r, x) \subseteq Before(r, y)
    BY <1>1, <1>4, <2>1 DEF UpTo, Before
  <2>3. Cardinality(UpTo(r, x)) =< Cardinality(Before(r, y))
    BY <2>2, CountedPositions, FS_Subset
  <2> QED
    BY <1>4, <1>3, <2>3 DEF Ranked
<1>5. ASSUME NEW x \in ToSet(r), NEW y \in ToSet(r), Ranked(r, n, x), Ranked(r, n, y)
      PROVE  x = y
  <2>1. x \in Nat /\ y \in Nat
    BY <1>2
  <2> QED
    BY <1>4, <1>5, <2>1
<1> DEFINE High == {x \in Nat : n =< Cardinality(UpTo(r, x))}
<1>6. High # {}
  <2>1. PICK b \in Nat : \A i \in 1 .. Len(r) : r[i] =< b
    BY Bounded
  <2>2. UpTo(r, b) = 1 .. Len(r)
    BY <1>1, <2>1 DEF UpTo
  <2>3. n =< Cardinality(UpTo(r, b))
    BY <1>1, <2>2, FS_Interval
  <2> QED
    BY <2>3
<1>7. PICK x \in High : \A k \in High : x =< k
  <2>1. High \in SUBSET Nat
    OBVIOUS
  <2> HIDE DEF High
  <2> QED
    BY <1>6, <2>1, LeastNumber
<1>8. x \in Nat /\ n =< Cardinality(UpTo(r, x))
  BY <1>7
<1>9. Cardinality(Before(r, x)) < n
  <2>1. CASE x = 0
    <3>1. Before(r, x) = {}
      BY <1>1, <2>1 DEF Before
    <3> QED
      BY <3>1, FS_EmptySet
  <2>2. CASE x # 0
    <3>1. x - 1 \in Nat /\ x - 1 \notin High
      BY <1>7, <1>8, <2>2
    <3>2. Before(r, x) = UpTo(r, x - 1)
      BY <1>1, <1>8 DEF Before, UpTo
    <3>3. ~(n =< Cardinality(UpTo(r, x - 1)))
      BY <3>1
    <3> HIDE DEF High
    <3> QED
      BY <3>2, <3>3, CountedPositions
  <2> QED
    BY <2>1, <2>2
<1>10. x \in ToSet(r)
  <2> SUFFICES ASSUME x \notin ToSet(r) PROVE FALSE
    OBVIOUS
  <2>1. UpTo(r, x) = Before(r, x)
    BY <1>1, <1>8 DEF UpTo, Before, ToSet
  <2> QED
    BY <1>8, <1>9, <2>1, CountedPositions
<1> QED
  BY <1>5, <1>8, <1>9, <1>10 DEF Ranked

\* So the order is that reference at each place.
LEMMA InOrderIs ==
  ASSUME NEW r \in Seq(Nat)
  PROVE  /\ InOrder(r) = [n \in 1 .. Len(r) |-> InOrder(r)[n]]
         /\ \A n \in 1 .. Len(r) : InOrder(r)[n] \in ToSet(r) /\ Ranked(r, n, InOrder(r)[n])
<1>1. DOMAIN r = 1 .. Len(r)
  BY LenProperties
<1>2. InOrder(r) = [n \in 1 .. Len(r) |-> CHOOSE x \in ToSet(r) : Ranked(r, n, x)]
  BY <1>1 DEF InOrder, Ranked, Before, UpTo
<1>3. \A n \in 1 .. Len(r) : InOrder(r)[n] = CHOOSE x \in ToSet(r) : Ranked(r, n, x)
  BY <1>2
<1> QED
  BY <1>2, <1>3, OneForEach

\* It has the references of the list ...
LEMMA OrderKeepsAll ==
  ASSUME NEW r \in Seq(Nat)
  PROVE  ToSet(InOrder(r)) = ToSet(r)
<1>1. /\ Len(r) \in Nat /\ DOMAIN r = 1 .. Len(r) /\ DOMAIN InOrder(r) = 1 .. Len(r)
      /\ \A i \in 1 .. Len(r) : r[i] \in Nat
  <2>1. DOMAIN InOrder(r) = 1 .. Len(r)
    BY InOrderIs
  <2> QED
    BY <2>1, LenProperties, ElementOfSeq
<1>2. ToSet(InOrder(r)) \subseteq ToSet(r)
  BY <1>1, InOrderIs DEF ToSet
<1>3. ASSUME NEW x \in ToSet(r) PROVE x \in ToSet(InOrder(r))
  <2> DEFINE n == Cardinality(UpTo(r, x))
  <2>1. PICK i \in 1 .. Len(r) : x = r[i]
    BY <1>1 DEF ToSet
  <2>2. x \in Nat /\ i \in UpTo(r, x) /\ i \notin Before(r, x) /\ Before(r, x) \subseteq UpTo(r, x)
    BY <1>1, <2>1 DEF UpTo, Before
  <2>3. Cardinality(Before(r, x)) < n /\ n \in 1 .. Len(r)
    <3>1. /\ Cardinality(Before(r, x)) =< n
          /\ Cardinality(Before(r, x)) # n
          /\ Cardinality(Before(r, x)) \in Nat /\ n \in 0 .. Len(r)
      BY <2>2, CountedPositions, FS_Subset
    <3> HIDE DEF n
    <3> QED
      BY <1>1, <3>1
  <2>4. Ranked(r, n, x)
    BY <2>3, CountedPositions DEF Ranked
  <2> HIDE DEF n
  <2>5. InOrder(r)[n] = x
    BY <2>3, <2>4, InOrderIs, OneForEach
  <2> QED
    BY <1>1, <2>3, <2>5 DEF ToSet
<1> QED
  BY <1>2, <1>3

\* ... and does not depend on how they were ordered before.
LEMMA OrderOfReverse ==
  ASSUME NEW r \in Seq(Nat)
  PROVE  /\ Reverse(r) \in Seq(Nat) /\ Len(Reverse(r)) = Len(r)
         /\ ToSet(Reverse(r)) = ToSet(r)
         /\ InOrder(Reverse(r)) = InOrder(r)
<1> DEFINE l == Len(r)
           R == Reverse(r)
           Mirror(i) == (l - i) + 1
<1>1. l \in Nat /\ DOMAIN r = 1 .. l /\ \A i \in 1 .. l : r[i] \in Nat
  BY LenProperties, ElementOfSeq
<1>2. R = [i \in 1 .. l |-> r[Mirror(i)]]
  BY DEF Reverse
<1> HIDE DEF l, R
<1>3. \A i \in 1 .. l : Mirror(i) \in 1 .. l /\ Mirror(Mirror(i)) = i
  BY <1>1
<1>4. R \in Seq(Nat) /\ Len(R) = l /\ DOMAIN R = 1 .. l /\ \A i \in 1 .. l : R[i] = r[Mirror(i)]
  BY <1>1, <1>2, <1>3
<1> HIDE DEF Mirror
<1>5. ToSet(R) = ToSet(r)
  BY <1>1, <1>3, <1>4 DEF ToSet
<1>6. IsFiniteSet(1 .. l)
  BY <1>1, FS_Interval
<1>7. ASSUME NEW A \in SUBSET (1 .. l)
      PROVE  Cardinality({Mirror(i) : i \in A}) =< Cardinality(A)
  <2> DEFINE B == {Mirror(i) : i \in A}
             f == [i \in A |-> Mirror(i)]
  <2>1. f \in Surjection(A, B)
    BY DEF Surjection
  <2>2. IsFiniteSet(A)
    BY <1>6, FS_Subset
  <2> HIDE DEF f, B
  <2>3. Cardinality(B) =< Cardinality(A)
    BY <2>1, <2>2, FS_Surjection
  <2> QED
    BY <2>3 DEF B
<1>8. ASSUME NEW A \in SUBSET (1 .. l)
      PROVE  Cardinality({i \in 1 .. l : Mirror(i) \in A}) = Cardinality(A)
  <2> DEFINE B == {i \in 1 .. l : Mirror(i) \in A}
  <2>1. B \in SUBSET (1 .. l) /\ {Mirror(i) : i \in A} = B /\ {Mirror(i) : i \in B} = A
    BY <1>3
  <2>2. Cardinality(A) \in Nat /\ Cardinality(B) \in Nat
    BY <1>6, <2>1, FS_Subset, FS_CardinalityType
  <2> HIDE DEF B
  <2>3. Cardinality(B) =< Cardinality(A) /\ Cardinality(A) =< Cardinality(B)
    BY <1>7, <2>1
  <2> QED
    BY <2>2, <2>3 DEF B
<1>9. ASSUME NEW x PROVE /\ Cardinality(UpTo(R, x)) = Cardinality(UpTo(r, x))
                         /\ Cardinality(Before(R, x)) = Cardinality(Before(r, x))
  <2>1. UpTo(r, x) \in SUBSET (1 .. l) /\ Before(r, x) \in SUBSET (1 .. l)
    BY <1>1 DEF UpTo, Before
  <2>2. /\ UpTo(R, x) = {i \in 1 .. l : Mirror(i) \in UpTo(r, x)}
        /\ Before(R, x) = {i \in 1 .. l : Mirror(i) \in Before(r, x)}
    BY <1>1, <1>3, <1>4 DEF UpTo, Before
  <2> QED
    BY <1>8, <2>1, <2>2
<1>10. ASSUME NEW n \in 1 .. l PROVE InOrder(R)[n] = InOrder(r)[n]
  <2>1. InOrder(R)[n] \in ToSet(r) /\ Ranked(r, n, InOrder(R)[n])
    BY <1>4, <1>5, <1>9, InOrderIs DEF Ranked
  <2> QED
    BY <2>1, InOrderIs, OneForEach DEF l
<1>11. InOrder(R) = InOrder(r)
  <2>1. /\ InOrder(R) = [n \in 1 .. l |-> InOrder(R)[n]]
        /\ InOrder(r) = [n \in 1 .. l |-> InOrder(r)[n]]
    BY <1>4, InOrderIs DEF l
  <2> QED
    BY <1>10, <2>1
<1> QED
  BY <1>4, <1>5, <1>11 DEF R, l

\* fingerprint sorts the references: whatever their number, the list it makes has
\* the same length, never descends, and has each reference as often as before.
THEOREM OrderSorts ==
  ASSUME NEW r \in Seq(Nat)
  PROVE  /\ InOrder(r) \in Seq(Nat) /\ Len(InOrder(r)) = Len(r)
         /\ \A i, j \in 1 .. Len(r) : i < j => InOrder(r)[i] =< InOrder(r)[j]
         /\ \A x \in Nat : Cardinality({i \in 1 .. Len(r) : InOrder(r)[i] = x}) =
                             Cardinality({i \in 1 .. Len(r) : r[i] = x})
<1> DEFINE l == Len(r)
           s == InOrder(r)
<1>1. l \in Nat /\ DOMAIN r = 1 .. l /\ \A i \in 1 .. l : r[i] \in Nat
  BY LenProperties, ElementOfSeq
<1>2. s = [n \in 1 .. l |-> s[n]] /\ \A n \in 1 .. l : s[n] \in ToSet(r) /\ Ranked(r, n, s[n])
  BY InOrderIs
<1>3. \A n \in 1 .. l : s[n] \in Nat
  BY <1>1, <1>2 DEF ToSet
<1> HIDE DEF s, l
<1>4. s \in Seq(Nat) /\ Len(s) = l
  BY <1>1, <1>2, <1>3
<1>5. ASSUME NEW x
      PROVE  /\ IsFiniteSet(UpTo(r, x)) /\ IsFiniteSet(Before(r, x))
             /\ Cardinality(UpTo(r, x)) \in Nat /\ Cardinality(UpTo(r, x)) =< l
             /\ Cardinality(Before(r, x)) \in Nat /\ Cardinality(Before(r, x)) =< l
  <2>1. IsFiniteSet(UpTo(r, x)) /\ IsFiniteSet(Before(r, x))
    BY CountedPositions
  <2>2. Cardinality(UpTo(r, x)) \in 0 .. l /\ Cardinality(Before(r, x)) \in 0 .. l
    BY CountedPositions DEF l
  <2> QED
    BY <1>1, <2>1, <2>2
<1>6. ASSUME NEW i \in 1 .. l, NEW j \in 1 .. l, i < j PROVE s[i] =< s[j]
  <2> SUFFICES ASSUME s[j] < s[i] PROVE FALSE
    BY <1>3
  <2>1. UpTo(r, s[j]) \subseteq Before(r, s[i])
    BY <1>1, <1>3 DEF UpTo, Before
  <2>2. Cardinality(UpTo(r, s[j])) =< Cardinality(Before(r, s[i]))
    BY <1>3, <1>5, <2>1, FS_Subset
  <2>3. j =< Cardinality(UpTo(r, s[j])) /\ Cardinality(Before(r, s[i])) < i
    BY <1>2 DEF Ranked
  <2>4. /\ Cardinality(UpTo(r, s[j])) \in Nat /\ Cardinality(Before(r, s[i])) \in Nat
        /\ i \in Nat /\ j \in Nat
    BY <1>1, <1>5
  <2> QED
    BY <1>6, <2>2, <2>3, <2>4
<1>7. ASSUME NEW x \in Nat
      PROVE  Cardinality({i \in 1 .. l : s[i] = x}) = Cardinality({i \in 1 .. l : r[i] = x})
  <2> DEFINE There == {i \in 1 .. l : r[i] = x}
             Here == {n \in 1 .. l : s[n] = x}
             u == Cardinality(UpTo(r, x))
             b == Cardinality(Before(r, x))
  <2>1. CASE x \notin ToSet(r)
    <3>1. There = {} /\ Here = {}
      BY <1>1, <1>2, <2>1 DEF ToSet
    <3> QED
      BY <3>1
  <2>2. CASE x \in ToSet(r)
    <3>1. \A n \in 1 .. l : s[n] = x <=> Ranked(r, n, x)
      BY <1>2, <2>2, OneForEach DEF l
    <3>2. \A n \in 1 .. l : s[n] = x <=> b < n /\ n =< u
      BY <3>1 DEF Ranked
    <3>3. u \in 0 .. l /\ b \in 0 .. l
      BY <1>5
    <3>4. There = UpTo(r, x) \ Before(r, x) /\ UpTo(r, x) \cap Before(r, x) = Before(r, x)
      BY <1>1 DEF UpTo, Before
    <3>5. Cardinality(There) = u - b
      <4>1. Cardinality(UpTo(r, x) \ Before(r, x)) =
              Cardinality(UpTo(r, x)) - Cardinality(UpTo(r, x) \cap Before(r, x))
        BY <1>5, FS_Difference
      <4> QED
        BY <3>4, <4>1
    <3>6. b =< u
      <4>1. Before(r, x) \subseteq UpTo(r, x)
        BY <3>4
      <4> QED
        BY <1>5, <4>1, FS_Subset
    <3> HIDE DEF u, b
    <3>7. Here = b + 1 .. u
      BY <1>1, <3>2, <3>3
    <3>8. Cardinality(b + 1 .. u) = u - b
      <4>1. Cardinality(b + 1 .. u) = IF b + 1 > u THEN 0 ELSE u - (b + 1) + 1
        BY <3>3, <1>1, FS_Interval
      <4> QED
        BY <1>1, <3>3, <3>6, <4>1
    <3> QED
      BY <3>5, <3>7, <3>8
  <2> QED
    BY <2>1, <2>2
<1> QED
  BY <1>4, <1>6, <1>7 DEF s, l

-----------------------------------------------------------------------------
\* What the lines with a key say, and whether one of them is the last.
SaysKey(l, k) == l.key = k /\ l.layout # "blank"
Sayings(t, k) == {t[i].value : i \in {j \in 1 .. Len(t) : SaysKey(t[j], k)}}

LEMMA WrittenIs ==
  ASSUME NEW t, IsText(t)
  PROVE  LET w == Written(t)
         IN  /\ IsText(w)
             /\ \A i \in 1 .. Len(w) : \E j \in 1 .. Len(t) : t[j].layout # "blank" /\ w[i] = t[j]
             /\ \A j \in 1 .. Len(t) : t[j].layout # "blank" => \E i \in 1 .. Len(w) : w[i] = t[j]
<1> DEFINE S == Entries(t)
           I == {i \in DOMAIN t : t[i].layout # "blank"}
           w == Kept(t, I)
<1>1. t \in Seq(S) /\ DOMAIN t = 1 .. Len(t) /\ \A i \in 1 .. Len(t) : IsLine(t[i])
  BY ListIsSeq, TextIsList
<1>2. \A i \in 1 .. Len(t) : i \in DOMAIN t \cap I <=> t[i].layout # "blank"
  BY <1>1
<1>3. Written(t) = w
  BY DEF Written
<1> HIDE DEF S, I
<1>4. /\ w \in Seq(S)
      /\ \A i \in DOMAIN w : \E j \in DOMAIN t \cap I : w[i] = t[j]
      /\ \A j \in DOMAIN t \cap I : \E i \in DOMAIN w : w[i] = t[j]
  <2>1. t \in Seq(S)
    BY <1>1
  <2> QED
    BY ONLY <2>1, KeptKeeps
<1> HIDE DEF w
<1>5. DOMAIN w = 1 .. Len(w) /\ IsList(w)
  BY <1>4, SeqIsList, LenProperties
<1>6. \A i \in 1 .. Len(w) : \E j \in 1 .. Len(t) : t[j].layout # "blank" /\ w[i] = t[j]
  BY <1>1, <1>2, <1>4, <1>5
<1>7. \A j \in 1 .. Len(t) : t[j].layout # "blank" => \E i \in 1 .. Len(w) : w[i] = t[j]
  BY <1>1, <1>2, <1>4, <1>5
<1>8. IsText(w)
  BY <1>1, <1>5, <1>6, TextIsList
<1> QED
  BY <1>3, <1>6, <1>7, <1>8

LEMMA ValuesAreSayings ==
  ASSUME NEW t, IsText(t), NEW k
  PROVE  ToSet(Values(Written(t), k)) = Sayings(t, k)
<1> DEFINE w == Written(t)
           J == {i \in DOMAIN w : w[i].key = k}
           S == Entries(w)
           of == Kept(w, J)
<1>1. /\ IsText(w)
      /\ \A i \in 1 .. Len(w) : \E j \in 1 .. Len(t) : t[j].layout # "blank" /\ w[i] = t[j]
      /\ \A j \in 1 .. Len(t) : t[j].layout # "blank" => \E i \in 1 .. Len(w) : w[i] = t[j]
  BY WrittenIs
<1>2. Values(w, k) = [i \in DOMAIN of |-> of[i].value]
  BY DEF Values
<1> HIDE DEF w
<1>3. w \in Seq(S) /\ DOMAIN w = 1 .. Len(w)
  BY <1>1, ListIsSeq, TextIsList
<1>4. \A i \in 1 .. Len(w) : i \in DOMAIN w \cap J <=> w[i].key = k
  BY <1>3
<1> HIDE DEF S, J
<1>5. /\ of \in Seq(S)
      /\ \A i \in DOMAIN of : \E j \in DOMAIN w \cap J : of[i] = w[j]
      /\ \A j \in DOMAIN w \cap J : \E i \in DOMAIN of : of[i] = w[j]
  <2>1. w \in Seq(S)
    BY <1>3
  <2> QED
    BY ONLY <2>1, KeptKeeps
<1>6. ToSet(Values(w, k)) = {of[i].value : i \in DOMAIN of}
  BY <1>2 DEF ToSet
<1> HIDE DEF of
<1>7. ASSUME NEW i \in DOMAIN of PROVE of[i].value \in Sayings(t, k)
  <2>1. PICK j \in 1 .. Len(w) : w[j].key = k /\ of[i] = w[j]
    BY <1>3, <1>4, <1>5
  <2>2. PICK m \in 1 .. Len(t) : t[m].layout # "blank" /\ w[j] = t[m]
    BY <1>1
  <2> QED
    BY <2>1, <2>2 DEF Sayings, SaysKey
<1>8. ASSUME NEW v \in Sayings(t, k) PROVE \E i \in DOMAIN of : v = of[i].value
  <2>1. PICK m \in 1 .. Len(t) : t[m].key = k /\ t[m].layout # "blank" /\ v = t[m].value
    BY DEF Sayings, SaysKey
  <2>2. PICK j \in 1 .. Len(w) : w[j] = t[m]
    BY <1>1, <2>1
  <2>3. PICK i \in DOMAIN of : of[i] = w[j]
    BY <1>3, <1>4, <1>5, <2>1, <2>2
  <2> QED
    BY <2>1, <2>2, <2>3
<1> QED
  BY <1>6, <1>7, <1>8 DEF w

\* A line after a text counts where it has the key.
LEMMA LastOfAppend ==
  ASSUME NEW t, IsText(t), NEW l, IsLine(l), NEW k, NEW d
  PROVE  /\ IsText(Append(t, l))
         /\ LastValue(Append(t, l), k, d) = IF l.key = k THEN l.value ELSE LastValue(t, k, d)
<1> DEFINE one == <<l>>
           S == Entries(t) \cup {l}
<1>1. IsText(one) /\ Len(one) = 1 /\ one[1] = l /\ 1 .. Len(one) = {1}
  BY DEF IsText
<1>2. Append(t, l) = t \o one
  <2>1. t \in Seq(S) /\ l \in S
    BY ListIsSeq, TextIsList, SeqMonotonic
  <2> HIDE DEF S
  <2> QED
    BY <2>1, AppendIsConcat
<1> HIDE DEF one
<1>3. IsText(t \o one)
  BY <1>1, Joined
<1>4. LastValue(t \o one, k, d) = LastValue(one, k, LastValue(t, k, d))
  BY <1>1, LastOfJoined
<1>5. LastValue(one, k, LastValue(t, k, d)) = IF l.key = k THEN l.value ELSE LastValue(t, k, d)
  BY <1>1, LastValueIs
<1> QED
  BY <1>2, <1>3, <1>4, <1>5

\* v is the value of the last of the first n lines of t that say k, or d.
LastSaid(t, n, k, d, v) ==
  \/ /\ \A i \in 1 .. n : ~SaysKey(t[i], k)
     /\ v = d
  \/ \E i \in 1 .. n : /\ SaysKey(t[i], k)
                       /\ \A j \in 1 .. n : SaysKey(t[j], k) => j =< i
                       /\ v = t[i].value

LEMMA LastWritten ==
  ASSUME NEW t, IsText(t), NEW k, NEW d
  PROVE  LastSaid(t, Len(t), k, d, LastValue(Written(t), k, d))
<1> DEFINE I == {i \in DOMAIN t : t[i].layout # "blank"}
           kept(n) == KeptAmong(t, I)[n]
           S == {n \in 0 .. Len(t) :
                   IsText(kept(n)) /\ LastSaid(t, n, k, d, LastValue(kept(n), k, d))}
           E == Entries(t)
<1>1. t \in Seq(E) /\ DOMAIN t = 1 .. Len(t) /\ Len(t) \in Nat /\ \A i \in 1 .. Len(t) : IsLine(t[i])
  BY ListIsSeq, TextIsList DEF IsText
<1>2. Written(t) = kept(Len(t))
  BY DEF Written, Kept
<1>3. \A i \in 1 .. Len(t) : i \in I <=> t[i].layout # "blank"
  BY <1>1
<1> HIDE DEF I, E
<1>4. /\ kept(0) = <<>>
      /\ \A n \in 1 .. Len(t) : kept(n) = IF n \in I THEN Append(kept(n - 1), t[n]) ELSE kept(n - 1)
  BY <1>1, KeptRec
<1> HIDE DEF kept
<1>5. 0 \in S
  <2>1. Len(<<>>) = 0 /\ 1 .. 0 = {} /\ IsText(<<>>)
    BY DEF IsText
  <2>2. LastValue(<<>>, k, d) = d
    BY <2>1, NoSuchKey
  <2> QED
    BY <1>1, <1>4, <2>1, <2>2 DEF LastSaid
<1>6. ASSUME NEW n \in 1 .. Len(t), n - 1 \in S PROVE n \in S
  <2>1. /\ IsText(kept(n - 1)) /\ LastSaid(t, n - 1, k, d, LastValue(kept(n - 1), k, d))
        /\ IsLine(t[n])
    BY <1>1, <1>6
  <2>2. n \in 0 .. Len(t) /\ n \in 1 .. n /\ \A i \in 1 .. n : i = n \/ (i \in 1 .. n - 1 /\ i =< n)
    BY <1>1
  <2>3. \A i \in 1 .. n - 1 : i \in 1 .. n /\ i =< n
    BY <1>1
  <2>6. /\ IsText(Append(kept(n - 1), t[n]))
        /\ LastValue(Append(kept(n - 1), t[n]), k, d) =
             IF t[n].key = k THEN t[n].value ELSE LastValue(kept(n - 1), k, d)
    BY ONLY <2>1, LastOfAppend
  <2>7. kept(n) = IF n \in I THEN Append(kept(n - 1), t[n]) ELSE kept(n - 1)
    BY <1>4
  <2>8. n \in I <=> t[n].layout # "blank"
    BY <1>3
  <2>4. CASE SaysKey(t[n], k)
    <3>1. n \in I /\ t[n].key = k
      BY <1>3, <2>4 DEF SaysKey
    <3>2. IsText(kept(n)) /\ LastValue(kept(n), k, d) = t[n].value
      BY <2>6, <2>7, <3>1
    <3>3. LastSaid(t, n, k, d, LastValue(kept(n), k, d))
      BY <2>2, <2>4, <3>2 DEF LastSaid
    <3> QED
      BY <2>2, <3>2, <3>3
  <2>5. CASE ~SaysKey(t[n], k)
    <3>1. IsText(kept(n)) /\ LastValue(kept(n), k, d) = LastValue(kept(n - 1), k, d)
      BY <2>1, <2>5, <2>6, <2>7, <2>8 DEF SaysKey
    <3>2. LastSaid(t, n, k, d, LastValue(kept(n - 1), k, d))
      BY <2>1, <2>2, <2>3, <2>5 DEF LastSaid
    <3> QED
      BY <2>2, <3>1, <3>2
  <2> QED
    BY <2>4, <2>5
<1>7. Len(t) \in S
  <2> HIDE DEF S
  <2>1. 0 .. Len(t) \subseteq S
    BY <1>1, <1>5, <1>6, InductionUpTo
  <2> QED
    BY <1>1, <2>1
<1> QED
  BY <1>2, <1>7

\* What a text means by a key.
Means(t, k) == LastValue(Written(t), k, DefaultOf(k))

\* parse returns what the text means.
LEMMA ParseSays ==
  ASSUME NEW t, IsText(t), Parse(t) # Malformed
  PROVE  /\ \A k \in Always \cup Optional : Parse(t).field[k] = Means(t, k)
         /\ Parse(t).references = SplitReferences(Means(t, "References"))
         /\ ToSet(Parse(t).sigs) = Sayings(t, "Sig")
         /\ ToSet(Parse(t).sig_pqc) = Sayings(t, "Sig-PQC")
<1> DEFINE info == Parse(t)
           w == Written(t)
           field == [k \in Always \cup Optional |-> LastValue(w, k, Default(k))]
<1>1. info = [field |-> field, references |-> SplitReferences(LastValue(w, "References", Empty)),
              sigs |-> Values(w, "Sig"), sig_pqc |-> Values(w, "Sig-PQC"), extra |-> Unknown(w)]
  BY DEF Parse
<1>2. ToSet(Values(w, "Sig")) = Sayings(t, "Sig") /\ ToSet(Values(w, "Sig-PQC")) = Sayings(t, "Sig-PQC")
  BY ValuesAreSayings
<1>3. \A k \in Always \cup Optional : LastValue(w, k, Default(k)) = Means(t, k)
  BY DEF Means, DefaultOf, Always, Optional
<1>4. LastValue(w, "References", Empty) = Means(t, "References")
  BY DEF Means, DefaultOf
<1> HIDE DEF info, w
<1> QED
  BY <1>1, <1>2, <1>3, <1>4 DEF info

\* Whether it returns anything is a question of the lines and of two keys.
LEMMA ParseFails ==
  ASSUME NEW t, IsText(t)
  PROVE  Parse(t) = Malformed <=> \/ \E i \in 1 .. Len(t) : ~ParsesLine(t[i])
                                  \/ Empty \in {Means(t, "StorePath"), Means(t, "NarHash")}
<1> DEFINE w == Written(t)
           field == [k \in Always \cup Optional |-> LastValue(w, k, Default(k))]
           r == [field |-> field, references |-> SplitReferences(LastValue(w, "References", Empty)),
                 sigs |-> Values(w, "Sig"), sig_pqc |-> Values(w, "Sig-PQC"), extra |-> Unknown(w)]
<1>1. field["StorePath"] = Means(t, "StorePath") /\ field["NarHash"] = Means(t, "NarHash")
  BY DEF Means, DefaultOf, Always, Optional
<1>2. DOMAIN t = 1 .. Len(t)
  BY DEF IsText
<1>3. Parse(t) = IF (\E i \in DOMAIN t : ~ParsesLine(t[i]))
                    \/ Empty \in {field["StorePath"], field["NarHash"]}
                 THEN Malformed ELSE r
  BY DEF Parse
<1> HIDE DEF field
<1>4. r # Malformed
  BY DEF Malformed
<1> HIDE DEF r
<1> QED
  BY <1>1, <1>2, <1>3, <1>4

\* Two texts that say the same, in some layout or other.
SameText(t, u) ==
  /\ (\A i \in 1 .. Len(t) : ParsesLine(t[i])) <=> (\A i \in 1 .. Len(u) : ParsesLine(u[i]))
  /\ \A k \in Always \cup Optional : Means(t, k) = Means(u, k)
  /\ LET r == SplitReferences(Means(t, "References"))
         q == SplitReferences(Means(u, "References"))
     IN  ToSet(r) = ToSet(q) /\ InOrder(r) = InOrder(q)
  /\ \A k \in {"Sig", "Sig-PQC"} : Sayings(t, k) = Sayings(u, k)

LEMMA SameTextReads ==
  ASSUME NEW t, IsText(t), NEW u, IsText(u), SameText(t, u)
  PROVE  \/ Parse(t) = Malformed /\ Parse(u) = Malformed
         \/ /\ Parse(t) # Malformed /\ Parse(u) # Malformed
            /\ \A k \in Always \cup Optional : Parse(t).field[k] = Parse(u).field[k]
            /\ ToSet(Parse(t).references) = ToSet(Parse(u).references)
            /\ Doc(Parse(t)) = Doc(Parse(u))
            /\ Fingerprint(Parse(t)) = Fingerprint(Parse(u))
            /\ ToSet(Parse(t).sigs) = ToSet(Parse(u).sigs)
            /\ ToSet(Parse(t).sig_pqc) = ToSet(Parse(u).sig_pqc)
<1>1. {"StorePath", "NarHash", "NarSize"} \subseteq Always \cup Optional
  BY DEF Always
<1>2. Parse(t) = Malformed <=> Parse(u) = Malformed
  BY <1>1, ParseFails DEF SameText
<1>3. ASSUME Parse(t) # Malformed, Parse(u) # Malformed
      PROVE  /\ \A k \in Always \cup Optional : Parse(t).field[k] = Parse(u).field[k]
             /\ ToSet(Parse(t).references) = ToSet(Parse(u).references)
             /\ InOrder(Parse(t).references) = InOrder(Parse(u).references)
             /\ ToSet(Parse(t).sigs) = ToSet(Parse(u).sigs)
             /\ ToSet(Parse(t).sig_pqc) = ToSet(Parse(u).sig_pqc)
  BY <1>3, ParseSays DEF SameText
<1>4. ASSUME Parse(t) # Malformed, Parse(u) # Malformed
      PROVE  Doc(Parse(t)) = Doc(Parse(u)) /\ Fingerprint(Parse(t)) = Fingerprint(Parse(u))
  <2>1. Doc(Parse(t)) = Doc(Parse(u))
    BY <1>1, <1>3, <1>4 DEF Doc
  <2> QED
    BY <2>1 DEF Fingerprint
<1> QED
  BY <1>2, <1>3, <1>4

\* Where each line of a written text comes from.
LEMMA WrittenLines ==
  ASSUME NEW info, Parsed(info), NEW i \in 1 .. Len(ToText(info))
  PROVE  LET l == ToText(info)[i]
         IN  /\ l.layout = "pair"
             /\ \/ l.key \in FieldKeys /\ l.value = ValueIn(info, l.key)
                \/ l.key \notin Known
                \/ l.key = "Sig" /\ l.value \in ToSet(info.sigs)
                \/ l.key = "Sig-PQC" /\ l.value \in ToSet(info.sig_pqc)
<1> DEFINE t == ToText(info)
           l == t[i]
           X == info.extra
           S == info.sigs
           P == info.sig_pqc
           a == Len(Fields(info))
           b == a + Len(X)
           c == b + Len(S)
<1>1. \A j \in 1 .. a : /\ t[j].layout = "pair" /\ t[j].key \in FieldKeys
                        /\ t[j].value = ValueIn(info, t[j].key)
  BY TextParts
<1>2. /\ \A j \in 1 .. Len(X) : /\ t[a + j].layout = "pair" /\ t[a + j].key \notin Known
                               /\ ParsesLine(t[a + j])
      /\ \A j \in 1 .. Len(S) : /\ t[b + j].layout = "pair" /\ t[b + j].key = "Sig"
                               /\ t[b + j].value = S[j] /\ ParsesLine(t[b + j])
      /\ \A j \in 1 .. Len(P) : /\ t[c + j].layout = "pair" /\ t[c + j].key = "Sig-PQC"
                               /\ t[c + j].value = P[j] /\ ParsesLine(t[c + j])
      /\ \A k \in 1 .. Len(t) :
           \/ k \in 1 .. a
           \/ k \in a + 1 .. a + Len(X) /\ \E j \in 1 .. Len(X) : k = a + j
           \/ k \in b + 1 .. b + Len(S) /\ \E j \in 1 .. Len(S) : k = b + j
           \/ k \in c + 1 .. c + Len(P) /\ \E j \in 1 .. Len(P) : k = c + j
  BY TextLines
<1>3. \/ i \in 1 .. a
      \/ \E j \in 1 .. Len(X) : i = a + j
      \/ \E j \in 1 .. Len(S) : i = b + j
      \/ \E j \in 1 .. Len(P) : i = c + j
  BY <1>2
<1>4. DOMAIN S = 1 .. Len(S) /\ DOMAIN P = 1 .. Len(P)
  BY ListIsSeq DEF Parsed
<1>5. /\ \A j \in 1 .. Len(S) : S[j] \in ToSet(S)
      /\ \A j \in 1 .. Len(P) : P[j] \in ToSet(P)
  BY <1>4 DEF ToSet
<1> HIDE DEF t, a, b, c, X, S, P
<1>6. CASE i \in 1 .. a
  BY <1>1, <1>6 DEF t
<1>7. CASE \E j \in 1 .. Len(X) : i = a + j
  BY <1>2, <1>7 DEF t
<1>8. CASE \E j \in 1 .. Len(S) : i = b + j
  <2>1. l.layout = "pair" /\ l.key = "Sig" /\ l.value \in ToSet(S)
    BY <1>2, <1>5, <1>8
  <2> QED
    BY <2>1 DEF t, S
<1>9. CASE \E j \in 1 .. Len(P) : i = c + j
  <2>1. l.layout = "pair" /\ l.key = "Sig-PQC" /\ l.value \in ToSet(P)
    BY <1>2, <1>5, <1>9
  <2> QED
    BY <2>1 DEF t, P
<1> QED
  BY <1>3, <1>6, <1>7, <1>8, <1>9

-----------------------------------------------------------------------------
\* The joined references, up to the n-th of them.
JoinedUpTo(path, refs) ==
  LET upTo[n \in 0..Len(refs)] ==
        IF n = 0 THEN <<>>
        ELSE IF n = 1 THEN FullPath(path, refs[1])
        ELSE upTo[n - 1] \o <<Comma>> \o FullPath(path, refs[n])
  IN  upTo

\* The recursion that defines them has a solution, so it may be used.
LEMMA JoinedRec ==
  ASSUME NEW path, NEW refs, Len(refs) \in Nat
  PROVE  /\ JoinedRefs(path, refs) = JoinedUpTo(path, refs)[Len(refs)]
         /\ \A n \in 0 .. Len(refs) : JoinedUpTo(path, refs)[n] =
              IF n = 0 THEN <<>>
              ELSE IF n = 1 THEN FullPath(path, refs[1])
              ELSE JoinedUpTo(path, refs)[n - 1] \o <<Comma>> \o FullPath(path, refs[n])
<1> DEFINE Value(f, n) == IF n = 0 THEN <<>>
                          ELSE IF n = 1 THEN FullPath(path, refs[1])
                          ELSE f[n - 1] \o <<Comma>> \o FullPath(path, refs[n])
           Solves(f, m) == f = [n \in 0 .. m |-> Value(f, n)]
           Solved == {m \in Nat : \E f : Solves(f, m)}
<1>1. Len(refs) \in Solved
  <2>1. 0 \in Solved
    <3>1. Solves([n \in 0 .. 0 |-> <<>>], 0)
      OBVIOUS
    <3> QED
      BY <3>1
  <2>2. ASSUME NEW m \in 1 .. Len(refs), m - 1 \in Solved PROVE m \in Solved
    <3>1. PICK f : Solves(f, m - 1)
      BY <2>2
    <3> DEFINE g == [n \in 0 .. m |-> IF n = m THEN Value(f, m) ELSE f[n]]
    <3>2. ASSUME NEW i \in 0 .. m - 1 PROVE f[i] = Value(f, i) /\ g[i] = f[i]
      <4>1. i \in 0 .. m /\ i # m
        OBVIOUS
      <4> HIDE DEF Value
      <4> QED
        BY <3>1, <4>1
    <3>3. ASSUME NEW n \in 0 .. m PROVE g[n] = Value(g, n)
      <4>1. n # 0 => n - 1 \in 0 .. m - 1
        OBVIOUS
      <4>2. Value(g, n) = Value(f, n)
        BY <3>2, <4>1
      <4>3. n = m \/ n \in 0 .. m - 1
        OBVIOUS
      <4> HIDE DEF Value
      <4> QED
        BY <3>2, <4>2, <4>3
    <3>4. g = [n \in 0 .. m |-> Value(g, n)]
      <4> HIDE DEF Value
      <4>1. g = [n \in 0 .. m |-> g[n]]
        OBVIOUS
      <4> HIDE DEF g
      <4> QED
        BY <3>3, <4>1
    <3>5. Solves(g, m)
      <4> HIDE DEF g, Value
      <4> QED
        BY <3>4
    <3>6. m \in Nat
      OBVIOUS
    <3> HIDE DEF Solves, g
    <3> QED
      BY <3>5, <3>6
  <2> HIDE DEF Solved
  <2>3. 0 .. Len(refs) \subseteq Solved
    BY <2>1, <2>2, InductionUpTo
  <2> QED
    BY <2>3
<1>2. JoinedUpTo(path, refs) = CHOOSE f : Solves(f, Len(refs))
  BY DEF JoinedUpTo
<1>3. Solves(JoinedUpTo(path, refs), Len(refs))
  <2> HIDE DEF Solves
  <2> QED
    BY <1>1, <1>2
<1>4. \A n \in 0 .. Len(refs) : JoinedUpTo(path, refs)[n] = Value(JoinedUpTo(path, refs), n)
  <2> HIDE DEF Value
  <2> QED
    BY <1>3
<1>5. JoinedRefs(path, refs) = JoinedUpTo(path, refs)[Len(refs)]
  BY DEF JoinedRefs, JoinedUpTo
<1> QED
  BY <1>4, <1>5

\* All that a fingerprint is made of, for the documents of one store directory.
Alphabet(d) == Tokens \cup Nat \cup Separators \cup {d.path, d.hash, StoreDir[d.path]}

\* A document as parse gives it, of a path with a store directory.
IsDoc(d) == d.path \in DOMAIN StoreDir /\ d.size \in Nat /\ d.refs \in Seq(Nat)

\* A value without a separator is one token, any other one has a separator
\* among its tokens.
LEMMA SpellingIs ==
  ASSUME NEW S, Tokens \subseteq S, NEW v \in S
  PROVE  /\ Spelling(v) \in Seq(S)
         /\ v \notin DOMAIN Spelled => Spelling(v) = <<v>> /\ v \notin Separators
         /\ v \in DOMAIN Spelled => \E i \in 1 .. Len(Spelling(v)) : Spelling(v)[i] \in Separators
<1>1. CASE v \in DOMAIN Spelled
  <2>1. Spelled[v] \in Seq(Tokens) /\ \E i \in DOMAIN Spelled[v] : Spelled[v][i] \in Separators
    BY <1>1, SpelledOK
  <2>2. Spelled[v] \in Seq(S) /\ DOMAIN Spelled[v] = 1 .. Len(Spelled[v])
    BY <2>1, SeqMonotonic, LenProperties
  <2> QED
    BY <1>1, <2>1, <2>2 DEF Spelling
<1>2. CASE v \notin DOMAIN Spelled
  BY <1>2, SpelledOK DEF Spelling
<1> QED
  BY <1>1, <1>2

LEMMA FullPathIs ==
  ASSUME NEW d, IsDoc(d), NEW r \in Nat
  PROVE  /\ FullPath(d.path, r) \in Seq(Alphabet(d))
         /\ {d.path, r} \cap DOMAIN Spelled = {} =>
              /\ Len(FullPath(d.path, r)) = 2
              /\ FullPath(d.path, r)[1] = StoreDir[d.path] /\ FullPath(d.path, r)[2] = r
<1> DEFINE S == Alphabet(d)
           dir == Spelling(StoreDir[d.path])
<1>1. r \in S /\ Tokens \subseteq S /\ StoreDir[d.path] \in S
  BY DEF Alphabet
<1> HIDE DEF S
<1>2. dir \in Seq(S) /\ Spelling(r) \in Seq(S)
  BY <1>1, SpellingIs
<1>3. FullPath(d.path, r) = dir \o Spelling(r)
  BY DEF FullPath, Directory, IsDoc
<1>4. ASSUME {d.path, r} \cap DOMAIN Spelled = {}
      PROVE  dir = <<StoreDir[d.path]>> /\ Spelling(r) = <<r>>
  BY <1>4, SpelledOK DEF Spelling, IsDoc
<1> HIDE DEF dir
<1>5. /\ dir \o Spelling(r) \in Seq(S)
      /\ Len(dir \o Spelling(r)) = Len(dir) + Len(Spelling(r))
      /\ \A i \in 1 .. Len(dir) + Len(Spelling(r)) :
           (dir \o Spelling(r))[i] = IF i <= Len(dir) THEN dir[i] ELSE Spelling(r)[i - Len(dir)]
  BY <1>2, ConcatProperties
<1>6. ASSUME {d.path, r} \cap DOMAIN Spelled = {}
      PROVE  /\ Len(FullPath(d.path, r)) = 2
             /\ FullPath(d.path, r)[1] = StoreDir[d.path] /\ FullPath(d.path, r)[2] = r
  <2>1. Len(dir) = 1 /\ dir[1] = StoreDir[d.path] /\ Len(Spelling(r)) = 1 /\ Spelling(r)[1] = r
    BY <1>4, <1>6
  <2> QED
    BY <1>3, <1>5, <2>1
<1> QED
  BY <1>3, <1>5, <1>6 DEF S

\* One more reference behind others.
LEMMA JoinedMore ==
  ASSUME NEW S, NEW j \in Seq(S), NEW p \in Seq(S), Comma \in S
  PROVE  LET t == j \o <<Comma>> \o p
         IN  /\ t \in Seq(S) /\ Len(t) = Len(j) + 1 + Len(p)
             /\ \A i \in 1 .. Len(j) : t[i] = j[i]
             /\ t[Len(j) + 1] = Comma
             /\ \A i \in 1 .. Len(p) : t[Len(j) + 1 + i] = p[i]
<1> DEFINE c == <<Comma>>
           jc == j \o c
           t == jc \o p
<1>1. c \in Seq(S) /\ Len(c) = 1 /\ c[1] = Comma
  OBVIOUS
<1>2. Len(j) \in Nat /\ Len(p) \in Nat
  BY LenProperties
<1> HIDE DEF c
<1>3. /\ jc \in Seq(S) /\ Len(jc) = Len(j) + Len(c)
      /\ \A i \in 1 .. Len(j) + Len(c) : jc[i] = IF i <= Len(j) THEN j[i] ELSE c[i - Len(j)]
  BY <1>1, ConcatProperties
<1> HIDE DEF jc
<1>4. /\ t \in Seq(S) /\ Len(t) = Len(jc) + Len(p)
      /\ \A i \in 1 .. Len(jc) + Len(p) : t[i] = IF i <= Len(jc) THEN jc[i] ELSE p[i - Len(jc)]
  <2>1. jc \in Seq(S)
    BY <1>3
  <2> QED
    BY <2>1, ConcatProperties
<1> HIDE DEF t
<1>5. Len(jc) = Len(j) + 1 /\ jc[Len(j) + 1] = Comma /\ \A i \in 1 .. Len(j) : jc[i] = j[i]
  BY <1>1, <1>2, <1>3
<1>6. t[Len(j) + 1] = Comma /\ \A i \in 1 .. Len(j) : t[i] = j[i]
  BY <1>2, <1>4, <1>5
<1>7. ASSUME NEW i \in 1 .. Len(p) PROVE t[Len(j) + 1 + i] = p[i]
  <2>1. /\ Len(j) + 1 + i \in 1 .. Len(jc) + Len(p)
        /\ ~(Len(j) + 1 + i <= Len(jc)) /\ (Len(j) + 1 + i) - Len(jc) = i
    BY <1>2, <1>5
  <2> QED
    BY <1>4, <2>1
<1> QED
  BY <1>4, <1>5, <1>6, <1>7 DEF t, jc, c

\* The joined references are a text, from which they can be read off, and which
\* has no semicolon, when none of them contains a separator.
LEMMA JoinedIs ==
  ASSUME NEW d, IsDoc(d)
  PROVE  LET joined == JoinedRefs(d.path, d.refs)
         IN  /\ joined \in Seq(Alphabet(d))
             /\ ({d.path} \cup ToSet(d.refs)) \cap DOMAIN Spelled = {} =>
                  /\ Len(joined) = IF Len(d.refs) = 0 THEN 0 ELSE 3 * Len(d.refs) - 1
                  /\ \A k \in 1 .. Len(d.refs) : joined[3 * k - 1] = d.refs[k]
                  /\ \A i \in 1 .. Len(joined) : joined[i] # Semicolon
<1> DEFINE S == Alphabet(d)
           refs == d.refs
           upTo == JoinedUpTo(d.path, refs)
           path(n) == FullPath(d.path, refs[n])
           OnlyPlain == ({d.path} \cup ToSet(refs)) \cap DOMAIN Spelled = {}
           Size(n) == IF n = 0 THEN 0 ELSE 3 * n - 1
           Read(n) == /\ Len(upTo[n]) = Size(n)
                      /\ \A k \in 1 .. n : upTo[n][3 * k - 1] = refs[k]
                      /\ \A i \in 1 .. Len(upTo[n]) : upTo[n][i] # Semicolon
           Good == {n \in 0 .. Len(refs) : upTo[n] \in Seq(S) /\ (OnlyPlain => Read(n))}
<1>1. Len(refs) \in Nat /\ DOMAIN refs = 1 .. Len(refs) /\ \A n \in 1 .. Len(refs) : refs[n] \in Nat
  BY LenProperties, ElementOfSeq DEF IsDoc
<1>2. /\ JoinedRefs(d.path, refs) = upTo[Len(refs)]
      /\ upTo[0] = <<>>
      /\ 1 \in 1 .. Len(refs) => upTo[1] = path(1)
      /\ \A n \in 2 .. Len(refs) : upTo[n] = upTo[n - 1] \o <<Comma>> \o path(n)
  <2>1. \A n \in 2 .. Len(refs) : n \in 0 .. Len(refs) /\ n # 0 /\ n # 1
    BY <1>1
  <2>2. 0 \in 0 .. Len(refs) /\ (1 \in 1 .. Len(refs) => 1 \in 0 .. Len(refs) /\ 1 # 0)
    BY <1>1
  <2>3. /\ JoinedRefs(d.path, refs) = upTo[Len(refs)]
        /\ \A n \in 0 .. Len(refs) : upTo[n] = IF n = 0 THEN <<>>
                                              ELSE IF n = 1 THEN path(1)
                                              ELSE upTo[n - 1] \o <<Comma>> \o path(n)
    BY <1>1, JoinedRec
  <2> HIDE DEF upTo, path
  <2> QED
    BY <2>1, <2>2, <2>3
<1>3. ASSUME NEW n \in 1 .. Len(refs)
      PROVE  /\ path(n) \in Seq(S)
             /\ OnlyPlain => /\ Len(path(n)) = 2 /\ path(n)[2] = refs[n]
                             /\ path(n)[1] # Semicolon /\ path(n)[2] # Semicolon
  <2>1. path(n) \in Seq(S)
    BY <1>1, FullPathIs
  <2>2. ASSUME OnlyPlain
        PROVE  /\ Len(path(n)) = 2 /\ path(n)[2] = refs[n]
               /\ path(n)[1] # Semicolon /\ path(n)[2] # Semicolon
    <3>1. refs[n] \in Nat /\ refs[n] \notin DOMAIN Spelled /\ d.path \notin DOMAIN Spelled
      BY <1>1, <2>2 DEF ToSet
    <3>2. /\ Len(path(n)) = 2
          /\ path(n)[1] = StoreDir[d.path] /\ path(n)[2] = refs[n]
      BY <3>1, FullPathIs
    <3>3. StoreDir[d.path] # Semicolon /\ refs[n] # Semicolon
      BY <3>1, SpelledOK DEF IsDoc, Separators
    <3> QED
      BY <3>2, <3>3
  <2> QED
    BY <2>1, <2>2
<1> HIDE DEF upTo, path, OnlyPlain
<1>4. 0 \in Good
  <2>1. <<>> \in Seq(S) /\ Len(<<>>) = 0
    BY EmptySeq
  <2>2. (1 .. 0) = {}
    OBVIOUS
  <2>3. Read(0)
    BY <1>2, <2>1, <2>2
  <2>4. upTo[0] \in Seq(S) /\ 0 \in 0 .. Len(refs)
    BY <1>1, <1>2, <2>1
  <2> HIDE DEF S, Read
  <2> QED
    BY <2>3, <2>4
<1>5. ASSUME NEW n \in 1 .. Len(refs), n - 1 \in Good PROVE n \in Good
  <2>1. CASE n = 1
    <3>1. upTo[1] \in Seq(S)
      BY <1>2, <1>3, <2>1
    <3>2. ASSUME OnlyPlain PROVE Read(1)
      <4>1. Len(upTo[1]) = 2 /\ upTo[1][2] = refs[1] /\ upTo[1][1] # Semicolon /\ upTo[1][2] # Semicolon
        BY <1>2, <1>3, <2>1, <3>2
      <4>2. (\A k \in 1 .. 1 : k = 1 /\ 3 * k - 1 = 2) /\ (\A i \in 1 .. 2 : i = 1 \/ i = 2)
        OBVIOUS
      <4>3. Size(1) = 2
        OBVIOUS
      <4> QED
        BY <4>1, <4>2, <4>3
    <3> QED
      BY <2>1, <3>1, <3>2
  <2>2. CASE n # 1
    <3> DEFINE m == n - 1
    <3>1. n \in 2 .. Len(refs) /\ m \in 1 .. Len(refs) /\ m \in Nat /\ n = m + 1 /\ m # 0
      BY <1>1, <2>2
    <3> HIDE DEF m
    <3>2. m \in Good
      BY <1>5 DEF m
    <3>3. upTo[n] = upTo[m] \o <<Comma>> \o path(n)
      BY <1>2, <3>1 DEF m
    <3>4. Comma \in S
      BY DEF Alphabet, Separators
    <3>5. upTo[m] \in Seq(S) /\ (OnlyPlain => Read(m))
      BY <3>2
    <3>6. path(n) \in Seq(S)
      BY <1>3
    <3> HIDE DEF S, Good, Read
    <3>7. /\ upTo[n] \in Seq(S)
          /\ Len(upTo[n]) = Len(upTo[m]) + 1 + Len(path(n))
          /\ \A i \in 1 .. Len(upTo[m]) : upTo[n][i] = upTo[m][i]
          /\ upTo[n][Len(upTo[m]) + 1] = Comma
          /\ \A i \in 1 .. Len(path(n)) : upTo[n][Len(upTo[m]) + 1 + i] = path(n)[i]
      BY <3>3, <3>4, <3>5, <3>6, JoinedMore
    <3>8. ASSUME OnlyPlain PROVE Read(n)
      <4>1. /\ Len(upTo[m]) = 3 * m - 1
            /\ \A k \in 1 .. m : upTo[m][3 * k - 1] = refs[k]
            /\ \A i \in 1 .. Len(upTo[m]) : upTo[m][i] # Semicolon
        BY <3>1, <3>5, <3>8 DEF Read
      <4>2. /\ Len(path(n)) = 2 /\ path(n)[2] = refs[n]
            /\ path(n)[1] # Semicolon /\ path(n)[2] # Semicolon
        BY <1>3, <3>8
      <4>3. 1 \in 1 .. 2 /\ 2 \in 1 .. 2
        OBVIOUS
      <4>4. /\ Len(upTo[n]) = 3 * m + 2
            /\ upTo[n][3 * m] = Comma
            /\ upTo[n][3 * m + 1] = path(n)[1] /\ upTo[n][3 * m + 2] = path(n)[2]
        <5>1. /\ (3 * m - 1) + 1 + 2 = 3 * m + 2 /\ (3 * m - 1) + 1 = 3 * m
              /\ (3 * m - 1) + 1 + 1 = 3 * m + 1
          BY <3>1
        <5>2. Len(upTo[n]) = 3 * m + 2 /\ upTo[n][3 * m] = Comma
          BY <3>7, <4>1, <4>2, <5>1
        <5>3. /\ upTo[n][(3 * m - 1) + 1 + 1] = path(n)[1]
              /\ upTo[n][(3 * m - 1) + 1 + 2] = path(n)[2]
          BY <3>7, <4>1, <4>2, <4>3
        <5> QED
          BY <5>1, <5>2, <5>3
      <4>5. Size(n) = 3 * m + 2
        BY <3>1
      <4>6. ASSUME NEW k \in 1 .. n PROVE upTo[n][3 * k - 1] = refs[k]
        <5>1. CASE k = n
          <6>1. 3 * k - 1 = 3 * m + 2
            BY <3>1, <5>1
          <6> QED
            BY <4>2, <4>4, <5>1, <6>1
        <5>2. CASE k # n
          <6>1. k \in 1 .. m /\ 3 * k - 1 \in 1 .. (3 * m - 1)
            BY <3>1, <5>2
          <6> QED
            BY <3>7, <4>1, <6>1
        <5> QED
          BY <5>1, <5>2
      <4>7. ASSUME NEW i \in 1 .. Len(upTo[n]) PROVE upTo[n][i] # Semicolon
        <5>1. i \in 1 .. (3 * m - 1) \/ i = 3 * m \/ i = 3 * m + 1 \/ i = 3 * m + 2
          BY <3>1, <4>4
        <5>2. Comma # Semicolon
          BY SpelledOK
        <5>3. CASE i \in 1 .. (3 * m - 1)
          BY <3>7, <4>1, <5>3
        <5>4. CASE i \notin 1 .. (3 * m - 1)
          BY <4>2, <4>4, <5>1, <5>2, <5>4
        <5> QED
          BY <5>3, <5>4
      <4> QED
        BY <4>4, <4>5, <4>6, <4>7 DEF Read
    <3>9. n \in 0 .. Len(refs)
      BY <1>1
    <3> QED
      BY <3>7, <3>8, <3>9 DEF Good
  <2> QED
    BY <2>1, <2>2
<1>6. Len(refs) \in Good
  <2> HIDE DEF Good
  <2>1. 0 .. Len(refs) \subseteq Good
    BY <1>1, <1>4, <1>5, InductionUpTo
  <2> QED
    BY <1>1, <2>1
<1>7. /\ JoinedRefs(d.path, refs) \in Seq(S)
      /\ OnlyPlain => /\ Len(JoinedRefs(d.path, refs)) = Size(Len(refs))
                      /\ \A k \in 1 .. Len(refs) : JoinedRefs(d.path, refs)[3 * k - 1] = refs[k]
                      /\ \A i \in 1 .. Len(JoinedRefs(d.path, refs)) :
                           JoinedRefs(d.path, refs)[i] # Semicolon
  BY <1>2, <1>6
<1> QED
  BY <1>7 DEF OnlyPlain

\* One list after another.
LEMMA OneAfterAnother ==
  ASSUME NEW S, NEW s \in Seq(S), NEW t \in Seq(S)
  PROVE  /\ s \o t \in Seq(S) /\ Len(s \o t) = Len(s) + Len(t)
         /\ \A i \in 1 .. Len(s) : (s \o t)[i] = s[i]
         /\ \A i \in 1 .. Len(t) : (s \o t)[Len(s) + i] = t[i]
<1> DEFINE st == s \o t
<1>1. /\ st \in Seq(S) /\ Len(st) = Len(s) + Len(t)
      /\ \A i \in 1 .. Len(s) + Len(t) : st[i] = IF i <= Len(s) THEN s[i] ELSE t[i - Len(s)]
  BY ConcatProperties
<1>2. Len(s) \in Nat /\ Len(t) \in Nat
  BY LenProperties
<1> HIDE DEF st
<1>3. \A i \in 1 .. Len(s) : st[i] = s[i]
  BY <1>1, <1>2
<1>4. ASSUME NEW i \in 1 .. Len(t) PROVE st[Len(s) + i] = t[i]
  <2>1. Len(s) + i \in 1 .. Len(s) + Len(t) /\ ~(Len(s) + i <= Len(s)) /\ Len(s) + i - Len(s) = i
    BY <1>2
  <2> QED
    BY <1>1, <2>1
<1> QED
  BY <1>1, <1>3, <1>4 DEF st

\* Where the parts of a fingerprint are.
LEMMA SignedIs ==
  ASSUME NEW d, IsDoc(d)
  PROVE  LET t == SignedText(d)
             a == Spelling(d.path)
             b == Spelling(d.hash)
             c == JoinedRefs(d.path, d.refs)
         IN  /\ Len(a) \in Nat /\ Len(b) \in Nat /\ Len(c) \in Nat
             /\ Len(t) = Len(a) + Len(b) + 4 + Len(c)
             /\ \A i \in 1 .. Len(a) : t[i] = a[i]
             /\ t[Len(a) + 1] = Semicolon
             /\ \A i \in 1 .. Len(b) : t[Len(a) + 1 + i] = b[i]
             /\ t[Len(a) + Len(b) + 2] = Semicolon
             /\ t[Len(a) + Len(b) + 3] = d.size
             /\ t[Len(a) + Len(b) + 4] = Semicolon
             /\ \A i \in 1 .. Len(c) : t[Len(a) + Len(b) + 4 + i] = c[i]
<1> DEFINE S == Alphabet(d)
           a == Spelling(d.path)
           b == Spelling(d.hash)
           c == JoinedRefs(d.path, d.refs)
           u == <<Semicolon>>
           v == <<Semicolon, d.size, Semicolon>>
           au == a \o u
           aub == au \o b
           aubv == aub \o v
           t == aubv \o c
<1>1. a \in Seq(S) /\ b \in Seq(S) /\ c \in Seq(S) /\ Semicolon \in S /\ d.size \in S
  <2>1. Tokens \subseteq S /\ d.path \in S /\ d.hash \in S /\ Semicolon \in S /\ d.size \in S
    BY DEF Alphabet, Separators, IsDoc
  <2>2. c \in Seq(S)
    BY JoinedIs
  <2> HIDE DEF S
  <2> QED
    BY <2>1, <2>2, SpellingIs
<1>2. SignedText(d) = t
  BY DEF SignedText
<1> HIDE DEF S, a, b, c
<1>3. u \in Seq(S) /\ Len(u) = 1 /\ u[1] = Semicolon
  BY <1>1
<1>4. v \in Seq(S) /\ Len(v) = 3 /\ v[1] = Semicolon /\ v[2] = d.size /\ v[3] = Semicolon
  BY <1>1
<1> HIDE DEF u, v
<1>5. Len(a) \in Nat /\ Len(b) \in Nat /\ Len(c) \in Nat
  BY <1>1, LenProperties
<1>6. /\ au \in Seq(S) /\ Len(au) = Len(a) + 1 /\ au[Len(a) + 1] = Semicolon
      /\ \A i \in 1 .. Len(a) : au[i] = a[i]
  <2>1. a \in Seq(S) /\ u \in Seq(S)
    BY <1>1, <1>3
  <2>2. /\ au \in Seq(S) /\ Len(au) = Len(a) + Len(u)
        /\ \A i \in 1 .. Len(a) : au[i] = a[i]
        /\ \A i \in 1 .. Len(u) : au[Len(a) + i] = u[i]
    BY <2>1, OneAfterAnother
  <2>3. 1 \in 1 .. 1
    OBVIOUS
  <2> HIDE DEF au
  <2> QED
    BY <1>3, <2>2, <2>3
<1> HIDE DEF au
<1>7. /\ aub \in Seq(S) /\ Len(aub) = Len(au) + Len(b)
      /\ \A i \in 1 .. Len(au) : aub[i] = au[i]
      /\ \A i \in 1 .. Len(b) : aub[Len(au) + i] = b[i]
  <2>1. au \in Seq(S) /\ b \in Seq(S)
    BY <1>1, <1>6
  <2> QED
    BY <2>1, OneAfterAnother
<1> HIDE DEF aub
<1>8. /\ aubv \in Seq(S) /\ Len(aubv) = Len(aub) + 3
      /\ \A i \in 1 .. Len(aub) : aubv[i] = aub[i]
      /\ aubv[Len(aub) + 1] = Semicolon /\ aubv[Len(aub) + 2] = d.size
      /\ aubv[Len(aub) + 3] = Semicolon
  <2>1. aub \in Seq(S) /\ v \in Seq(S)
    BY <1>4, <1>7
  <2>2. /\ aubv \in Seq(S) /\ Len(aubv) = Len(aub) + Len(v)
        /\ \A i \in 1 .. Len(aub) : aubv[i] = aub[i]
        /\ \A i \in 1 .. Len(v) : aubv[Len(aub) + i] = v[i]
    BY <2>1, OneAfterAnother
  <2>3. 1 \in 1 .. 3 /\ 2 \in 1 .. 3 /\ 3 \in 1 .. 3
    OBVIOUS
  <2> QED
    BY <1>4, <2>2, <2>3
<1> HIDE DEF aubv
<1>9. /\ t \in Seq(S) /\ Len(t) = Len(aubv) + Len(c)
      /\ \A i \in 1 .. Len(aubv) : t[i] = aubv[i]
      /\ \A i \in 1 .. Len(c) : t[Len(aubv) + i] = c[i]
  <2>1. aubv \in Seq(S) /\ c \in Seq(S)
    BY <1>1, <1>8
  <2> QED
    BY <2>1, OneAfterAnother
<1> HIDE DEF t
<1>10. /\ Len(au) = Len(a) + 1
       /\ Len(aub) = Len(a) + Len(b) + 1
       /\ Len(aubv) = Len(a) + Len(b) + 4
       /\ Len(t) = Len(a) + Len(b) + 4 + Len(c)
  BY <1>5, <1>6, <1>7, <1>8, <1>9
<1>11. \A i \in 1 .. Len(a) : t[i] = a[i]
  BY <1>5, <1>6, <1>7, <1>8, <1>9, <1>10
<1>12. t[Len(a) + 1] = Semicolon
  BY <1>5, <1>6, <1>7, <1>8, <1>9, <1>10
<1>13. ASSUME NEW i \in 1 .. Len(b) PROVE t[Len(a) + 1 + i] = b[i]
  <2>1. Len(a) + 1 + i \in 1 .. Len(aub) /\ Len(a) + 1 + i \in 1 .. Len(aubv)
    BY <1>5, <1>10
  <2> QED
    BY <1>7, <1>8, <1>9, <1>10, <2>1
<1>14. /\ t[Len(a) + Len(b) + 2] = Semicolon
       /\ t[Len(a) + Len(b) + 3] = d.size
       /\ t[Len(a) + Len(b) + 4] = Semicolon
  <2>1. /\ Len(aub) + 1 = Len(a) + Len(b) + 2 /\ Len(a) + Len(b) + 2 \in 1 .. Len(aubv)
        /\ Len(aub) + 2 = Len(a) + Len(b) + 3 /\ Len(a) + Len(b) + 3 \in 1 .. Len(aubv)
        /\ Len(aub) + 3 = Len(a) + Len(b) + 4 /\ Len(a) + Len(b) + 4 \in 1 .. Len(aubv)
    BY <1>5, <1>10
  <2> QED
    BY <1>8, <1>9, <2>1
<1>15. \A i \in 1 .. Len(c) : t[Len(a) + Len(b) + 4 + i] = c[i]
  BY <1>9, <1>10
<1> QED
  BY <1>2, <1>5, <1>10, <1>11, <1>12, <1>13, <1>14, <1>15 DEF a, b, c

\* A value spelled with one token, that is no separator, is that token.
LEMMA OneToken ==
  ASSUME NEW v, Len(Spelling(v)) = 1, Spelling(v)[1] \notin Separators
  PROVE  v = Spelling(v)[1]
<1> DEFINE S == Tokens \cup {v}
<1>1. v \in DOMAIN Spelled => \E i \in 1 .. Len(Spelling(v)) : Spelling(v)[i] \in Separators
  <2>1. Tokens \subseteq S /\ v \in S
    OBVIOUS
  <2> HIDE DEF S
  <2> QED
    BY <2>1, SpellingIs
<1>2. \A i \in 1 .. 1 : i = 1
  OBVIOUS
<1>3. v \notin DOMAIN Spelled
  BY <1>1, <1>2
<1> QED
  BY <1>3 DEF Spelling

\* Although the separators are not escaped: what shares the fingerprint of a
\* document without separators in its values has the same path, hash and size,
\* and is the same document if it has no separators in its values either.
THEOREM PlainPrint ==
  ASSUME NEW d, IsDoc(d), Plain(d), NEW e, IsDoc(e), SignedText(e) = SignedText(d)
  PROVE  /\ e.path = d.path /\ e.hash = d.hash /\ e.size = d.size
         /\ Plain(e) => e.refs = d.refs
<1> DEFINE t == SignedText(d)
           j == JoinedRefs(d.path, d.refs)
           a == Spelling(e.path)
           b == Spelling(e.hash)
           c == JoinedRefs(e.path, e.refs)
<1>1. /\ Spelling(d.path) = <<d.path>> /\ Spelling(d.hash) = <<d.hash>>
      /\ d.path \notin Separators /\ d.hash \notin Separators
      /\ ({d.path} \cup ToSet(d.refs)) \cap DOMAIN Spelled = {}
  BY SpelledOK DEF Plain, Spelling
<1>2. /\ Len(j) \in Nat /\ Len(t) = 6 + Len(j)
      /\ t[1] = d.path /\ t[2] = Semicolon /\ t[3] = d.hash /\ t[4] = Semicolon
      /\ t[5] = d.size /\ t[6] = Semicolon
      /\ \A i \in 1 .. Len(j) : t[6 + i] = j[i]
  <2>1. LET x == Spelling(d.path)
            y == Spelling(d.hash)
        IN  /\ Len(j) \in Nat
            /\ Len(t) = Len(x) + Len(y) + 4 + Len(j)
            /\ \A i \in 1 .. Len(x) : t[i] = x[i]
            /\ t[Len(x) + 1] = Semicolon
            /\ \A i \in 1 .. Len(y) : t[Len(x) + 1 + i] = y[i]
            /\ t[Len(x) + Len(y) + 2] = Semicolon
            /\ t[Len(x) + Len(y) + 3] = d.size
            /\ t[Len(x) + Len(y) + 4] = Semicolon
            /\ \A i \in 1 .. Len(j) : t[Len(x) + Len(y) + 4 + i] = j[i]
    BY SignedIs
  <2>2. /\ Len(Spelling(d.path)) = 1 /\ Spelling(d.path)[1] = d.path
        /\ Len(Spelling(d.hash)) = 1 /\ Spelling(d.hash)[1] = d.hash
    BY <1>1
  <2> HIDE DEF t, j
  <2>3. 1 \in 1 .. 1 /\ 1 + 1 = 2 /\ 1 + 1 + 1 = 3 /\ 1 + 1 + 2 = 4 /\ 1 + 1 + 3 = 5 /\ 1 + 1 + 4 = 6
    OBVIOUS
  <2> QED
    BY <2>1, <2>2, <2>3
<1>3. /\ Len(a) \in Nat /\ Len(b) \in Nat /\ Len(c) \in Nat
      /\ Len(t) = Len(a) + Len(b) + 4 + Len(c)
      /\ \A i \in 1 .. Len(a) : t[i] = a[i]
      /\ t[Len(a) + 1] = Semicolon
      /\ \A i \in 1 .. Len(b) : t[Len(a) + 1 + i] = b[i]
      /\ t[Len(a) + Len(b) + 2] = Semicolon
      /\ t[Len(a) + Len(b) + 3] = e.size
      /\ t[Len(a) + Len(b) + 4] = Semicolon
      /\ \A i \in 1 .. Len(c) : t[Len(a) + Len(b) + 4 + i] = c[i]
  <2> DEFINE u == SignedText(e)
  <2>1. /\ Len(a) \in Nat /\ Len(b) \in Nat /\ Len(c) \in Nat
        /\ Len(u) = Len(a) + Len(b) + 4 + Len(c)
        /\ \A i \in 1 .. Len(a) : u[i] = a[i]
        /\ u[Len(a) + 1] = Semicolon
        /\ \A i \in 1 .. Len(b) : u[Len(a) + 1 + i] = b[i]
        /\ u[Len(a) + Len(b) + 2] = Semicolon
        /\ u[Len(a) + Len(b) + 3] = e.size
        /\ u[Len(a) + Len(b) + 4] = Semicolon
        /\ \A i \in 1 .. Len(c) : u[Len(a) + Len(b) + 4 + i] = c[i]
    BY SignedIs
  <2>2. u = t
    OBVIOUS
  <2> HIDE DEF u, t, a, b, c
  <2> QED
    BY <2>1, <2>2
<1>4. /\ Len(j) = IF Len(d.refs) = 0 THEN 0 ELSE 3 * Len(d.refs) - 1
      /\ \A k \in 1 .. Len(d.refs) : j[3 * k - 1] = d.refs[k]
      /\ \A i \in 1 .. Len(j) : j[i] # Semicolon
  BY <1>1, JoinedIs
<1> HIDE DEF t, j, a, b, c
<1>5. ASSUME NEW i \in 1 .. Len(t), t[i] = Semicolon PROVE i \in {2, 4, 6}
  <2>1. d.path # Semicolon /\ d.hash # Semicolon /\ d.size # Semicolon
    BY <1>1, SpelledOK DEF Separators, IsDoc
  <2>2. i \in {1, 2, 3, 4, 5, 6} \/ i - 6 \in 1 .. Len(j)
    BY <1>2
  <2>3. CASE i - 6 \in 1 .. Len(j)
    <3>1. t[6 + (i - 6)] = j[i - 6] /\ 6 + (i - 6) = i
      BY <1>2, <2>3
    <3> QED
      BY <1>4, <1>5, <2>3, <3>1
  <2> QED
    BY <1>2, <1>5, <2>1, <2>2, <2>3
<1>6. Len(a) = 1 /\ Len(b) = 1
  <2>1. /\ Len(a) + 1 \in 1 .. Len(t) /\ Len(a) + Len(b) + 2 \in 1 .. Len(t)
        /\ Len(a) + Len(b) + 4 \in 1 .. Len(t)
    BY <1>3
  <2>2. Len(a) + 1 \in {2, 4, 6} /\ Len(a) + Len(b) + 2 \in {2, 4, 6} /\ Len(a) + Len(b) + 4 \in {2, 4, 6}
    BY <1>3, <1>5, <2>1
  <2>3. Len(a) \in Nat /\ Len(b) \in Nat
    BY <1>3
  <2>4. ASSUME NEW m \in Nat, NEW n \in Nat,
               m + 1 \in {2, 4, 6}, m + n + 2 \in {2, 4, 6}, m + n + 4 \in {2, 4, 6}
        PROVE  m = 1 /\ n = 1
    BY <2>4
  <2> QED
    BY <2>2, <2>3, <2>4
<1>7. a[1] = d.path /\ b[1] = d.hash /\ e.size = d.size /\ Len(c) = Len(j)
  <2>1. 1 \in 1 .. 1 /\ 1 + 1 + 1 = 3 /\ 1 + 1 + 3 = 5
    OBVIOUS
  <2>2. Len(c) = Len(j)
    BY <1>2, <1>3, <1>6
  <2> QED
    BY <1>2, <1>3, <1>6, <2>1, <2>2
<1>8. e.path = d.path /\ e.hash = d.hash
  BY <1>1, <1>6, <1>7, OneToken DEF a, b
<1>9. ASSUME Plain(e) PROVE e.refs = d.refs
  <2>1. /\ Len(c) = IF Len(e.refs) = 0 THEN 0 ELSE 3 * Len(e.refs) - 1
        /\ \A k \in 1 .. Len(e.refs) : c[3 * k - 1] = e.refs[k]
    <3>1. ({e.path} \cup ToSet(e.refs)) \cap DOMAIN Spelled = {}
      BY <1>9 DEF Plain
    <3> QED
      BY <3>1, JoinedIs DEF c
  <2>2. e.refs \in Seq(Nat) /\ d.refs \in Seq(Nat) /\ Len(e.refs) \in Nat /\ Len(d.refs) \in Nat
    BY LenProperties DEF IsDoc
  <2>3. Len(e.refs) = Len(d.refs)
    BY <1>4, <1>7, <2>1, <2>2
  <2>4. ASSUME NEW k \in 1 .. Len(e.refs) PROVE e.refs[k] = d.refs[k]
    <3>1. 3 * k - 1 \in 1 .. Len(c)
      BY <2>1, <2>2
    <3>2. t[6 + (3 * k - 1)] = c[3 * k - 1]
      <4>1. Len(a) + Len(b) + 4 = 6
        BY <1>6
      <4> QED
        BY <1>3, <3>1, <4>1
    <3>3. t[6 + (3 * k - 1)] = j[3 * k - 1]
      BY <1>2, <1>7, <3>1
    <3> QED
      BY <1>4, <2>1, <2>3, <3>2, <3>3
  <2> QED
    BY <2>2, <2>3, <2>4, SeqEqual
<1> QED
  BY <1>7, <1>8, <1>9

=============================================================================
