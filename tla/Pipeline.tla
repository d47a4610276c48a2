------------------------------ MODULE Pipeline ------------------------------
(***************************************************************************)
(* A narinfo on its way from the cache that built it to a client: signed   *)
(* in place by runs of sign, passed on by proxies, each of which parses    *)
(* the text, works on its lines and writes it anew; and reordered, edited, *)
(* cut short or stripped of its Sig-PQC lines by whatever else handles it. *)
(***************************************************************************)
EXTENDS NarInfoText

CONSTANTS Signers,        \* records [name, key]: the key files that sign is run with
          Proxies,        \* ... and those of proxies
          Nix,            \* the key that the original is signed with
          NoDoc,          \* what a text says that is no narinfo or has no fingerprint
          Originals,      \* the texts that Nix publishes, with what each says
          OtherValues,    \* OtherValues[key]: what the value of a line may be changed to
          MaxHops,        \* bound: signatures added
          MaxChanges,     \* bound: changes by the environment that lose something
          MaxLayouts      \* bound: changes by the environment that lose nothing

VARIABLES text,      \* the document in circulation
          doc,       \* what it says, and
          believed,  \* whom a client that runs verify on it believes
          vouched,   \* every <<signer, level, doc>> that was ever signed
          hops, changes, layouts

pipelineVars == <<text, doc, believed, vouched, hops, changes, layouts>>

Everyone == Signers \cup Proxies \cup {Nix}

\* parse and fingerprint both succeed.
Usable(info) == info # Malformed /\ HasStoreDir(info)
DocOf(t) == LET info == Parse(t) IN IF Usable(info) THEN Doc(info) ELSE NoDoc

\* What lines with this key say somewhere, and all that texts may come to say,
\* with the fingerprint of each.
SaysOf(t, key) ==
  {t[i].value : i \in {j \in DOMAIN t : t[j].key = key /\ t[j].layout # "blank"}}
Changed(key) == IF key \in DOMAIN OtherValues THEN OtherValues[key] ELSE {}
Said(key) == Changed(key) \cup UNION {SaysOf(o.text, key) : o \in Originals}
Docs == [path : Said("StorePath") \cap DOMAIN StoreDir,
         hash : Said("NarHash") \ {Empty},
         size : {n \in Said("NarSize") : n \in Nat} \cup {0},
         refs : {InOrder(SplitReferences(v)) : v \in Said("References") \cup {Empty}}]
PrintOf == [d \in Docs |-> SignedText(d)]

\* Nix publishes what it has signed, and nobody else has.
Published(o) ==
  LET info == Parse(o.text)
  IN  /\ IsText(o.text)
      /\ \A i \in DOMAIN o.text : o.text[i].layout = "pair"
      /\ Usable(info)
      /\ o.doc = Doc(info)
      /\ ToSet(info.sigs) = {SigLine(Nix.name, EdSign(Nix.key, Fingerprint(info)))}
      /\ info.sig_pqc = <<>>

\* External: no bytes verify for two keys or two fingerprints.
Unforgeable(Valid) == \A v, w \in Valid : v[3] = w[3] => v = w

ASSUME PipelineOK ==
  /\ Signers \cup Proxies \cup {Nix} \subseteq [name : Names, key : Keys]
  /\ Unforgeable(EdValid) /\ Unforgeable(MlValid)
  /\ \A o \in Originals : Published(o)
  /\ DOMAIN OtherValues \cap {"Sig", "Sig-PQC"} = {}
  /\ Said("References") \subseteq (Seq(Nat) \ {<<>>}) \cup {Empty} /\ Empty \notin Seq(Nat)
  /\ {PrintOf[d] : d \in Docs} \subseteq Prints
  /\ Empty \notin DOMAIN StoreDir /\ NoDoc \notin Docs
  /\ MaxHops \in Nat /\ MaxChanges \in Nat /\ MaxLayouts \in Nat

\* Whom verify believes the text of: with --pubkey, and with --pqc-pubkey and
\* --require-pqc.
Accepted(v) ==
  {<<s, "classical">> : s \in {x \in Everyone : ClassicalOk(v, x.name, x.key)}} \cup
  {<<s, "hybrid">> : s \in {x \in Everyone : VerifyHybrid(v, x.name, x.key)}}
Believed(t) == LET info == Parse(t) IN IF Usable(info) THEN Accepted(View(info)) ELSE {}

\* How many different candidates for verify_hybrid each name has in t, in the
\* list where it has more.
Candidates(t) ==
  [n \in Names |->
     LET ed == Cardinality({l.sig : l \in {x \in SaysOf(t, "Sig") : x.name = n /\ DecodesSig(x)}})
         ml == Cardinality({l.sig : l \in {x \in SaysOf(t, "Sig-PQC") :
                                             x.name = n /\ DecodesSigPqc(x)}})
     IN  IF ed < ml THEN ml ELSE ed]

\* t is now in circulation.
Shows(t) == text' = t /\ doc' = DocOf(t) /\ believed' = Believed(t)

PipelineTypeOK ==
  /\ \A i \in DOMAIN text :
       /\ text[i].layout \in Layouts
       /\ text[i].layout = "pair" /\ text[i].key \in {"Sig", "Sig-PQC"} => text[i].value \in Lines
  /\ doc \in Docs \cup {NoDoc}
  /\ believed \subseteq Everyone \X {"classical", "hybrid"}
  /\ vouched \subseteq Everyone \X {"classical", "hybrid"} \X Docs
  /\ hops \in 0..MaxHops /\ changes \in 0..MaxChanges /\ layouts \in 0..MaxLayouts

Init == /\ \E o \in Originals : /\ text = o.text
                                /\ doc = DocOf(o.text)
                                /\ believed = Believed(o.text)
                                /\ vouched = {<<Nix, "classical", o.doc>>}
        /\ hops = 0 /\ changes = 0 /\ layouts = 0

-----------------------------------------------------------------------------
Hop(s, info, view) ==
  /\ hops < MaxHops
  /\ hops' = hops + 1
  /\ Usable(info)
  /\ Shows(ToText(WithLines(info, view)))
  /\ vouched' = vouched \cup {<<s, l, doc>> : l \in {"classical", "hybrid"}}
  /\ UNCHANGED <<changes, layouts>>

\* cmd_sign on the file the text is in.
SignHop(s) == LET info == Parse(text)
              IN  Hop(s, info, DualSigned(View(info), s.name, s.key))

\* Mutant: the upstream's signature is not checked.
ProxyHop_Unverified(s, u) ==
  LET info == Parse(text) IN Hop(s, info, Vouched(View(info), s.name, s.key))

\* A proxy with the key s in front of an upstream with the key u; a text it
\* refuses stays where it is.
ProxyHop(s, u) == LET info == Parse(text)
                  IN  /\ Hop(s, info, Vouched(View(info), s.name, s.key))
                      /\ ClassicalOk(View(info), u.name, u.key)

-----------------------------------------------------------------------------
Lossless(t) == /\ layouts < MaxLayouts
               /\ layouts' = layouts + 1
               /\ Shows(t)
               /\ UNCHANGED <<vouched, hops, changes>>

\* Tools that write the same document another way: lines in another order,
\* references in another order, an empty line, no space after an empty key.
Reordered(t) == Reverse(t)
Shuffled(t) == [i \in DOMAIN t |->
  IF t[i].key = "References" /\ t[i].value # Empty
  THEN [t[i] EXCEPT !.value = Reverse(@)] ELSE t[i]]
Spaced(t) == Append(t, [key |-> "", layout |-> "blank", value |-> Empty])
Trimmed(t) == [i \in DOMAIN t |->
  IF t[i].value = Empty /\ t[i].layout = "pair" THEN [t[i] EXCEPT !.layout = "bare"] ELSE t[i]]

\* No key is given twice that counts once.
NothingTwice == \A i, j \in DOMAIN text :
  text[i].key = text[j].key /\ text[i].key \in Known \ {"Sig", "Sig-PQC"} => i = j

Relayout == \/ NothingTwice /\ Lossless(Reordered(text))
            \/ Lossless(Shuffled(text))
            \/ Lossless(Spaced(text)) \/ Lossless(Trimmed(text))

Lossy(t) == /\ changes < MaxChanges
            /\ changes' = changes + 1
            /\ Shows(t)
            /\ UNCHANGED <<vouched, hops, layouts>>

\* A value is edited or shortened, or its key given once more.
Edit == \E i \in DOMAIN text :
          /\ text[i].key \in DOMAIN OtherValues
          /\ \E v \in OtherValues[text[i].key] : \/ Lossy([text EXCEPT ![i].value = v])
                                                \/ Lossy(Append(text, Pair(text[i].key, v)))

\* The text ends early, between two lines or in one that is then unreadable.
Truncate == \E n \in 0..Len(text)-1 :
              \/ Lossy(SubSeq(text, 1, n))
              \/ Lossy(Append(SubSeq(text, 1, n),
                              [key |-> "", layout |-> "junk", value |-> Empty]))

\* A program that writes the fields it knows.
DropPqc == Lossy(Kept(text, {i \in DOMAIN text : text[i].key # "Sig-PQC"}))

Next == \/ \E s \in Signers : SignHop(s)
        \/ \E s \in Proxies, u \in Everyone : ProxyHop(s, u)
        \/ Relayout \/ Edit \/ Truncate \/ DropPqc

Spec == Init /\ [][Next]_pipelineVars

-----------------------------------------------------------------------------
\* to_text "preserves verification semantics": after a hop the text parses to
\* what it said before, every field, unknown line and line of another name in
\* its order.
HopsKeepTheRest ==
  [][\A s \in Everyone : SignHop(s) \/ (\E u \in Everyone : ProxyHop(s, u)) =>
       LET old == Parse(text)
           new == Parse(text')
       IN  /\ new # Malformed
           /\ new.field = old.field
           /\ new.references = old.references
           /\ new.extra = old.extra
           /\ Others(new.sigs, s.name) = Others(old.sigs, s.name)
           /\ Others(new.sig_pqc, s.name) = Others(old.sig_pqc, s.name)]_pipelineVars

\* README: the order of the lines does not matter, nor (narinfo.rs 38-47 and
\* 141-148) that of the references, nor a trimmed or empty line: the same
\* document is believed of the same signers, but that (keys.rs 353-374) of a name
\* with more candidates than verify_hybrid tries the order tells which they are.
LayoutDoesNotMatter ==
  [][Relayout =>
       /\ doc' = doc
       /\ \A s \in Everyone, l \in {"classical", "hybrid"} :
            l = "classical" \/ Candidates(text)[s.name] =< MaxSigCandidates =>
              (<<s, l>> \in believed <=> <<s, l>> \in believed')]_pipelineVars

Claims == INSTANCE Provenance
  WITH entries <- Candidates(text), Cap <- MaxSigCandidates, Covers <- PrintOf

\* Through any chain of signers, proxies and programs that do not know Sig-PQC,
\* a client believes each signer for exactly what has the fingerprint of
\* something that signer has signed, and for all of it that was not taken out of
\* the text or came after as many other signatures of the same name as
\* verify_hybrid tries.
ImplementsProvenance == Claims!Spec

\* The fingerprint joins with ';' and ',' what may contain them (narinfo.rs
\* 149-159), so it is not of one document alone.  Of a signer that never signed
\* a value with a separator in it a client believes the path, hash and size that
\* it signed, whatever the text was made to say; and if the document has no
\* separator in a value either, the references too.
BelievedAsSigned ==
  \A b \in believed :
    LET signed == {v[3] : v \in {x \in vouched : x[1] = b[1] /\ x[2] = b[2]}}
    IN  (\A d \in signed : Plain(d)) =>
          \E d \in signed : /\ doc.path = d.path /\ doc.hash = d.hash /\ doc.size = d.size
                            /\ Plain(doc) => doc = d
=============================================================================
