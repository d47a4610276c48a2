----------------------------- MODULE NarInfoText -----------------------------
(***************************************************************************)
(* The narinfo text (narinfo.rs): parse, to_text and the fingerprint that  *)
(* signatures cover.  A text is a sequence of lines, and a line its key,   *)
(* its value and how the two are separated.  Values are taken as given,    *)
(* but for numbers, the reference list, the empty value, and the           *)
(* separators of the fingerprint, which any value may contain.             *)
(***************************************************************************)
EXTENDS Signatures, SequencesExt

CONSTANTS Empty,       \* the empty value
          None,        \* an optional field that is absent
          NotNumber,   \* a value that is no u64
          StoreDir,    \* StoreDir[p]: p up to its last '/', for each StorePath with one
          Semicolon, Comma,   \* the separators of the fingerprint
          Tokens,      \* what a value with separators in it is made of,
          Spelled      \* ... and Spelled[v]: each such value, cut at the separators and
                       \* after each store directory that follows one

Separators == {Semicolon, Comma}

\* A value outside of DOMAIN Spelled contains no separator.
ASSUME SpelledOK == /\ Spelled \in [DOMAIN Spelled -> Seq(Tokens)]
                    /\ \A v \in DOMAIN Spelled :
                         \E i \in DOMAIN Spelled[v] : Spelled[v][i] \in Separators
                    /\ Separators \subseteq DOMAIN Spelled
                    /\ \A p \in DOMAIN StoreDir \ DOMAIN Spelled : StoreDir[p] \notin DOMAIN Spelled
                    /\ Semicolon # Comma /\ \A x \in Separators : x \notin Nat

\* "Key: value", "Key:" without the space, nothing (or only \r), anything else.
Layouts == {"pair", "bare", "blank", "junk"}
Pair(key, value) == [key |-> key, layout |-> "pair", value |-> value]

IsLine(l) == l = [key |-> l.key, layout |-> l.layout, value |-> l.value]
IsText(t) == /\ Len(t) \in Nat
             /\ t = [i \in 1..Len(t) |-> t[i]]
             /\ \A i \in 1..Len(t) : IsLine(t[i])

\* parse's error, which is no document.
Malformed == [error |-> "malformed"]

Always   == {"StorePath", "URL", "Compression", "NarHash", "NarSize"}
Optional == {"FileHash", "FileSize", "Deriver", "System"}
Numbers  == {"FileSize", "NarSize"}
Known    == Always \cup Optional \cup {"References", "Sig", "Sig-PQC"}

\* value.split(' '), but nothing for the empty value; and join(" ").
SplitReferences(value) == IF value = Empty THEN <<>> ELSE value
JoinReferences(refs) == IF refs = <<>> THEN Empty ELSE refs

\* A line that neither bails nor holds a number that does not parse.
ParsesLine(l) == /\ l.layout # "junk"
                 /\ l.key \in Numbers => l.value \in Nat

\* Of a key given twice the last value counts; NarInfo::default() has the rest.
Default(key) == IF key = "NarSize" THEN 0 ELSE IF key \in Always THEN Empty ELSE None
LastValue(text, key, default) ==
  LET at == {i \in DOMAIN text : text[i].key = key}
  IN  IF at = {} THEN default ELSE text[Max(at)].value

Values(text, key) ==
  LET of == Kept(text, {i \in DOMAIN text : text[i].key = key})
  IN  [i \in DOMAIN of |-> of[i].value]
Unknown(text) ==
  LET extra == Kept(text, {i \in DOMAIN text : text[i].key \notin Known})
  IN  [i \in DOMAIN extra |-> Pair(extra[i].key, extra[i].value)]
Written(text) == Kept(text, {i \in DOMAIN text : text[i].layout # "blank"})

\* NarInfo::parse: signatures and unknown keys add up, and two fields are
\* required.
Parse(text) ==
  LET lines == Written(text)
      field == [k \in Always \cup Optional |-> LastValue(lines, k, Default(k))]
  IN  IF (\E i \in DOMAIN text : ~ParsesLine(text[i]))
         \/ Empty \in {field["StorePath"], field["NarHash"]}
      THEN Malformed
      ELSE [field      |-> field,
            references |-> SplitReferences(LastValue(lines, "References", Empty)),
            sigs       |-> Values(lines, "Sig"),
            sig_pqc    |-> Values(lines, "Sig-PQC"),
            extra      |-> Unknown(lines)]

-----------------------------------------------------------------------------
Given(info, key) == IF info.field[key] = None THEN <<>> ELSE <<Pair(key, info.field[key])>>
Each(key, lines) == [i \in DOMAIN lines |-> Pair(key, lines[i])]

\* Mutant: the lines that are not modelled are left out.
ToText_NoExtra(info) ==
  <<Pair("StorePath", info.field["StorePath"]), Pair("URL", info.field["URL"]),
    Pair("Compression", info.field["Compression"])>>
  \o Given(info, "FileHash") \o Given(info, "FileSize")
  \o <<Pair("NarHash", info.field["NarHash"]), Pair("NarSize", info.field["NarSize"]),
       Pair("References", JoinReferences(info.references))>>
  \o Given(info, "Deriver") \o Given(info, "System")
  \o Each("Sig", info.sigs) \o Each("Sig-PQC", info.sig_pqc)

\* to_text: the fields in Nix's order, then extra, Sig and Sig-PQC lines.
ToText(info) ==
  <<Pair("StorePath", info.field["StorePath"]), Pair("URL", info.field["URL"]),
    Pair("Compression", info.field["Compression"])>>
  \o Given(info, "FileHash") \o Given(info, "FileSize")
  \o <<Pair("NarHash", info.field["NarHash"]), Pair("NarSize", info.field["NarSize"]),
       Pair("References", JoinReferences(info.references))>>
  \o Given(info, "Deriver") \o Given(info, "System")
  \o info.extra \o Each("Sig", info.sigs) \o Each("Sig-PQC", info.sig_pqc)

-----------------------------------------------------------------------------
\* Mutant: without '/' the directory is empty and no error.
HasStoreDir_Lenient(info) == TRUE

\* store_dir fails on a path without '/'.
HasStoreDir(info) == info.field["StorePath"] \in DOMAIN StoreDir

\* References are numbered in the order in which their names sort: the n-th of
\* them has fewer than n smaller ones, and the same one may follow it.
InOrder(refs) ==
  [n \in DOMAIN refs |-> CHOOSE r \in ToSet(refs) :
     /\ Cardinality({i \in DOMAIN refs : refs[i] < r}) < n
     /\ n =< Cardinality({i \in DOMAIN refs : refs[i] =< r})]

\* What a document says: the fields that the fingerprint is made of, with the
\* references sorted but not deduplicated.
Doc(info) == [path |-> info.field["StorePath"], hash |-> info.field["NarHash"],
              size |-> info.field["NarSize"], refs |-> InOrder(info.references)]

\* format! and join escape nothing: a separator inside a value becomes one more
\* separator of the text.
Spelling(value) == IF value \in DOMAIN Spelled THEN Spelled[value] ELSE <<value>>
Directory(path) == IF path \in DOMAIN StoreDir THEN Spelling(StoreDir[path]) ELSE <<>>
FullPath(path, ref) == Directory(path) \o Spelling(ref)

\* "{store_dir}/{r}" for each reference, joined with ','.
JoinedRefs(path, refs) ==
  LET upTo[n \in 0..Len(refs)] ==
        IF n = 0 THEN <<>>
        ELSE IF n = 1 THEN FullPath(path, refs[1])
        ELSE upTo[n - 1] \o <<Comma>> \o FullPath(path, refs[n])
  IN  upTo[Len(refs)]

\* Mutant: the size is not covered.
SignedText_NoSize(d) ==
  Spelling(d.path) \o <<Semicolon>> \o Spelling(d.hash)
  \o <<Semicolon, 0, Semicolon>> \o JoinedRefs(d.path, d.refs)

\* The text without the "1;" that all begin with.
SignedText(d) ==
  Spelling(d.path) \o <<Semicolon>> \o Spelling(d.hash)
  \o <<Semicolon, d.size, Semicolon>> \o JoinedRefs(d.path, d.refs)

\* Mutant: the references in the order of the text.
Fingerprint_TextOrder(info) == SignedText([Doc(info) EXCEPT !.refs = info.references])

Fingerprint(info) == SignedText(Doc(info))

\* None of its values contains a separator.
Plain(d) == ({d.path, d.hash} \cup ToSet(d.refs)) \cap DOMAIN Spelled = {}

\* What signing and verifying see of a document, and a document with the
\* lines of view.
View(info) == [print |-> Fingerprint(info), sigs |-> info.sigs, sig_pqc |-> info.sig_pqc]
WithLines(info, view) == [info EXCEPT !.sigs = view.sigs, !.sig_pqc = view.sig_pqc]
=============================================================================
