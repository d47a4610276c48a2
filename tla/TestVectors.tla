---------------------------- MODULE TestVectors ----------------------------
(***************************************************************************)
(* The signature vectors that the repository publishes for independent     *)
(* implementations (examples/generate_test_vectors.rs): for each the lines *)
(* of one narinfo and whether the hybrid check must pass.                  *)
(***************************************************************************)
EXTENDS VerifyCmd, TLC

CONSTANTS VectorName, VectorKey,   \* "test-vector-key-1"
          Sample,                  \* the fingerprint of sample_narinfo
          Flipped,                 \* a signature with a bit flipped
          Noise                    \* sequences of lines to mix in

ASSUME VectorsOK == /\ VectorName \in Names /\ VectorKey \in Keys
                    /\ Sample \in Prints /\ Flipped \in Bytes
                    /\ <<VectorKey, Sample, Flipped>> \notin EdValid \cup MlValid

SigOf    == SigLine(VectorName, EdSign(VectorKey, Sample))
SigPqcOf == SigLine(VectorName, MlSign(VectorKey, Sample))

Corrupted(line) == [line EXCEPT !.sig = Flipped]
WithForm(line, form) == [line EXCEPT !.form = form]

Vector(sigs, pqc, valid) ==
  [info |-> [print |-> Sample, sigs |-> sigs, sig_pqc |-> pqc], hybrid_valid |-> valid]

\* sig-pqc-001 to -008, in their order.
Vectors ==
  {Vector(<<SigOf>>, <<SigPqcOf>>, TRUE),
   Vector(<<SigOf>>, <<Corrupted(SigPqcOf)>>, FALSE),
   Vector(<<SigOf>>, <<WithForm(SigPqcOf, "unknown_tag")>>, FALSE),
   Vector(<<>>, <<SigPqcOf>>, FALSE),
   Vector(<<Corrupted(SigOf), SigOf>>, <<Corrupted(SigPqcOf), SigPqcOf>>, TRUE),
   Vector(<<SigOf>>, <<WithForm(SigPqcOf, "not_base64")>>, FALSE),
   Vector(<<SigOf>>, <<WithForm(SigPqcOf, "wrong_length")>>, FALSE),
   Vector(<<SigOf>>, <<WithForm(SigPqcOf, "unknown_tag"), SigPqcOf>>, TRUE)}

\* The lines of a vector in any order, with noise among them.
Shuffles(lines) ==
  {[i \in DOMAIN lines |-> lines[o[i]]] : o \in Permutations(DOMAIN lines)}
Variants(v) ==
  {Vector(a, b, v.hybrid_valid) :
     a \in UNION {Shuffles(v.info.sigs \o x) : x \in Noise},
     b \in UNION {Shuffles(v.info.sig_pqc \o x) : x \in Noise}}
Cases == UNION {Variants(v) : v \in Vectors}

\* Given the vector's hybrid key and --require-pqc, verify answers what the
\* vector expects, however its lines are ordered and whatever lines of other
\* names and of unknown encodings stand among them.
VectorsHold ==
  exit # "running" /\ opts.pubkey = NoKey /\ opts.require_pqc
    /\ opts.pqc_pubkey = [name |-> VectorName, key |-> VectorKey] =>
  \A c \in Cases : info = c.info => (exit = "ok" <=> c.hybrid_valid)
=============================================================================
