----------------------------- MODULE Signatures -----------------------------
(***************************************************************************)
(* The signature lines of a narinfo and what the program computes from     *)
(* them: decoding a line, verifying one classical signature, collecting    *)
(* the candidates of a key name, and the hybrid check (keys.rs, narinfo.rs *)
(* and hybrid.rs).  The two signature schemes are external: EdValid and    *)
(* MlValid say which bytes verify for which key and fingerprint.           *)
(***************************************************************************)
EXTENDS Naturals, Sequences, FiniteSets

CONSTANTS Names,              \* key names (no ':' in any of them)
          Keys,               \* key pairs; both halves of one signer
          Prints,             \* fingerprints
          Bytes,              \* byte strings of the length of a signature
          EdValid, MlValid,   \* sets of <<key, print, bytes>> that verify
          MaxSigCandidates,   \* MAX_SIG_CANDIDATES, 32 in the source
          NoName              \* no name: of a line without ':', of a bare key

ASSUME SignaturesOK ==
  /\ NoName \notin Names
  /\ MaxSigCandidates \in Nat \ {0}
  /\ EdValid \subseteq Keys \X Prints \X Bytes
  /\ MlValid \subseteq Keys \X Prints \X Bytes
  /\ \A k \in Keys, m \in Prints : /\ \E b \in Bytes : <<k, m, b>> \in EdValid
                                   /\ \E b \in Bytes : <<k, m, b>> \in MlValid

-----------------------------------------------------------------------------
\* A line "name:base64" (the value of Sig: or Sig-PQC:), by how far decoding
\* it gets: no ':' at all, no base64, nothing decoded, a Sig-PQC tag this
\* build does not know, bytes of another length, or a signature.
Forms == {"no_colon", "not_base64", "empty", "unknown_tag", "wrong_length", "good"}
Lines == [name : Names \cup {NoName}, form : Forms, sig : Bytes]

\* A narinfo is what it says of the path, which is what its fingerprint
\* covers, and its two lists of signature lines.
NarInfos == [print : Prints, sigs : Seq(Lines), sig_pqc : Seq(Lines)]

ParsesSigEntry(e) == e.form \notin {"no_colon", "not_base64"}

\* bytes.as_slice().try_into(): the 64 bytes of an Ed25519 signature.
DecodesSig(e) == ParsesSigEntry(e) /\ e.form = "good"

\* The tag first, then the length the tag's algorithm prescribes.
KnownTag(e) == e.form \notin {"empty", "unknown_tag"}
DecodesSigPqc(e) == /\ ParsesSigEntry(e)
                    /\ KnownTag(e)
                    /\ e.form # "wrong_length"

\* HybridSigner.sign and encode_sig_pqc; signing is deterministic.
EdSign(k, m) == CHOOSE b \in Bytes : <<k, m, b>> \in EdValid
MlSign(k, m) == CHOOSE b \in Bytes : <<k, m, b>> \in MlValid
SigLine(name, b) == [name |-> name, form |-> "good", sig |-> b]

\* One classical line against one key; expected is a name or NoName.
VerifyEd25519Sig(print, e, expected, key) ==
  /\ ParsesSigEntry(e)
  /\ expected = NoName \/ e.name = expected
  /\ DecodesSig(e)
  /\ <<key, print, e.sig>> \in EdValid

ClassicalOk(info, expected, key) ==
  \E i \in DOMAIN info.sigs : VerifyEd25519Sig(info.print, info.sigs[i], expected, key)

-----------------------------------------------------------------------------
\* The lines of keyname that decode, the first of each signature among them,
\* and of those the first MaxSigCandidates.
SigCandidates(lines, keyname) ==
  {i \in DOMAIN lines : lines[i].name = keyname /\ DecodesSig(lines[i])}

\* Mutant: a line that does not decode ends the search.
PqcCandidates_Aborts(lines, keyname) ==
  {i \in DOMAIN lines : lines[i].name = keyname /\ DecodesSigPqc(lines[i])
                        /\ \A j \in 1..i : lines[j].name = keyname => DecodesSigPqc(lines[j])}

PqcCandidates(lines, keyname) ==
  {i \in DOMAIN lines : lines[i].name = keyname /\ DecodesSigPqc(lines[i])}

\* Mutant: duplicates are kept and use up the cap.
FirstOfEach_NoDedup(lines, C) == {i \in C : i \in DOMAIN lines}

FirstOfEach(lines, C) ==
  {i \in C : \A j \in C : j < i => lines[j].sig # lines[i].sig}
Taken(lines, C) ==
  {i \in FirstOfEach(lines, C) :
     Cardinality({j \in FirstOfEach(lines, C) : j < i}) < MaxSigCandidates}

EdTaken(info, keyname)  == Taken(info.sigs, SigCandidates(info.sigs, keyname))
PqcTaken(info, keyname) == Taken(info.sig_pqc, PqcCandidates(info.sig_pqc, keyname))

\* verify_hybrid: each half on its own, and both must verify.
VerifyHybrid(info, keyname, key) ==
  /\ EdTaken(info, keyname) # {}
  /\ PqcTaken(info, keyname) # {}
  /\ \E i \in EdTaken(info, keyname) :
       <<key, info.print, info.sigs[i].sig>> \in EdValid
  /\ \E i \in PqcTaken(info, keyname) :
       <<key, info.print, info.sig_pqc[i].sig>> \in MlValid

-----------------------------------------------------------------------------
\* hybrid::verify on one Sig: line and one Sig-PQC: line of the same name, and
\* the any-pairing rule that the RFC states: the reference for VerifyHybrid.
PairVerifies(info, keyname, key, i, j) ==
  /\ info.sigs[i].name = keyname /\ info.sig_pqc[j].name = keyname
  /\ DecodesSig(info.sigs[i]) /\ DecodesSigPqc(info.sig_pqc[j])
  /\ <<key, info.print, info.sigs[i].sig>> \in EdValid
  /\ <<key, info.print, info.sig_pqc[j].sig>> \in MlValid

AnyPairing(info, keyname, key) ==
  \E i \in DOMAIN info.sigs, j \in DOMAIN info.sig_pqc :
    PairVerifies(info, keyname, key, i, j)

\* Distinct candidate signatures of keyname, on each half.
Payloads(lines, C) == {lines[i].sig : i \in C}
UnderCap(info, keyname) ==
  /\ Cardinality(Payloads(info.sigs, SigCandidates(info.sigs, keyname)))
       =< MaxSigCandidates
  /\ Cardinality(Payloads(info.sig_pqc, PqcCandidates(info.sig_pqc, keyname)))
       =< MaxSigCandidates

-----------------------------------------------------------------------------
\* retain, and every other filter on the lines of a narinfo: of the first n
\* entries of s those at the positions I, in their order.
KeptAmong(s, I) ==
  LET kept[n \in 0..Len(s)] == IF n = 0 THEN <<>>
                               ELSE IF n \in I THEN Append(kept[n - 1], s[n])
                               ELSE kept[n - 1]
  IN  kept
Kept(s, I) == KeptAmong(s, I)[Len(s)]

\* The lines that do not start with "name:".
Others(lines, name) == Kept(lines, {i \in DOMAIN lines : lines[i].name # name})

\* Mutant: a Sig: line is added where it is missing, and replaces none.
DualSigned_AddsMissing(info, name, key) ==
  LET line == SigLine(name, EdSign(key, info.print))
  IN  [print   |-> info.print,
       sigs    |-> IF \E i \in DOMAIN info.sigs : info.sigs[i] = line THEN info.sigs
                   ELSE Append(info.sigs, line),
       sig_pqc |-> Append(Others(info.sig_pqc, name), SigLine(name, MlSign(key, info.print)))]

\* Mutant: the Sig-PQC lines of every name are dropped.
DualSigned_Clears(info, name, key) ==
  [print   |-> info.print,
   sigs    |-> Append(Others(info.sigs, name), SigLine(name, EdSign(key, info.print))),
   sig_pqc |-> <<SigLine(name, MlSign(key, info.print))>>]

\* What cmd_sign makes of a narinfo: its lines replace those of its name.
DualSigned(info, name, key) ==
  [print   |-> info.print,
   sigs    |-> Append(Others(info.sigs, name), SigLine(name, EdSign(key, info.print))),
   sig_pqc |-> Append(Others(info.sig_pqc, name), SigLine(name, MlSign(key, info.print)))]

\* What the proxy makes of it: its lines follow those there are.
Vouched(info, name, key) ==
  [print   |-> info.print,
   sigs    |-> Append(info.sigs, SigLine(name, EdSign(key, info.print))),
   sig_pqc |-> Append(info.sig_pqc, SigLine(name, MlSign(key, info.print)))]
=============================================================================
