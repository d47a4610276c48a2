--------------------------- MODULE VerifyCmdProofs ---------------------------
(***************************************************************************)
(* Proofs about VerifyCmd: whatever the narinfo, the keys, the cap and the *)
(* validity of signatures, cmd_verify accepts only what the definition     *)
(* that tries every pairing accepts, and with few candidates refuses no    *)
(* other.                                                                  *)
(***************************************************************************)
EXTENDS VerifyCmd, SignatureProofs

\* What each stage has established when cmd_verify gets there.
ClassicalDone == opts.pubkey # NoKey => ClassicalOk(info, opts.pubkey.name, opts.pubkey.key)

VInv == /\ stage \in Stages
        /\ exit \in {"running", "ok", "fail"}
        /\ stage # "done" => exit = "running"
        /\ stage \in {"hybrid", "required"} \/ exit = "ok" => ClassicalDone
        /\ pqc_ok = TRUE => Loaded /\ Pairing
        /\ exit = "ok" /\ opts.require_pqc => Loaded /\ Pairing

\* What each stage has established holds at the start and after each step.
LEMMA InitVInv == Init => VInv
BY DEF Init, VInv, Stages

LEMMA StepVInv == VInv /\ [Next]_verifyVars => VInv'
<1> SUFFICES ASSUME VInv, [Next]_verifyVars PROVE VInv'
  OBVIOUS
<1> USE DEF VInv, Stages, ClassicalDone, GoOn, Stop, Loaded, Pairing
<1>1. CASE CheckPolicy
  BY <1>1 DEF CheckPolicy
<1>2. CASE ReadNarInfo
  BY <1>2 DEF ReadNarInfo
<1>3. CASE CheckClassical
  BY <1>3 DEF CheckClassical
<1>4. CASE CheckHybrid
  BY <1>4, HalvesMakeAPair DEF CheckHybrid, HybridOk
<1>5. CASE CheckRequired
  BY <1>5 DEF CheckRequired
<1>6. CASE UNCHANGED verifyVars
  BY <1>6 DEF verifyVars
<1> QED
  BY <1>1, <1>2, <1>3, <1>4, <1>5, <1>6 DEF Next

\* For all inputs, keys and caps: exit 0 with --pubkey means that a line of
\* the key's name verified, exit 0 with --require-pqc that one Sig: line and
\* one Sig-PQC: line of the hybrid key's name verified together.
THEOREM AcceptanceTheorem == Spec => []AcceptsOnlyVerified
<1>1. VInv => AcceptsOnlyVerified
  BY DEF VInv, ClassicalDone, AcceptsOnlyVerified
<1> QED
  BY <1>1, InitVInv, StepVInv, PTL DEF Spec

-----------------------------------------------------------------------------
\* The state keeps its declared shape.
THEOREM TypeTheorem == Spec => []TypeOK
<1>1. Init => TypeOK
  BY DEF Init, TypeOK, Stages
<1>2. TypeOK /\ [Next]_verifyVars => TypeOK'
  BY DEF TypeOK, Next, CheckPolicy, ReadNarInfo, CheckClassical, CheckHybrid, CheckRequired,
     GoOn, Stop, Stages, verifyVars
<1> QED
  BY <1>1, <1>2, PTL DEF Spec

\* The hybrid check is passed with --require-pqc only by a key that verified,
\* so nothing but a check that found no pairing refuses what the table trusts.
RInv == /\ TypeOK
        /\ stage = "required" /\ Loaded /\ opts.require_pqc => pqc_ok = TRUE
        /\ RefusesOnlyBrokenPqc

\* No step refuses without a cause.
LEMMA StepRInv == RInv /\ [Next]_verifyVars => RInv'
<1> SUFFICES ASSUME RInv, [Next]_verifyVars PROVE RInv'
  OBVIOUS
<1>1. UNCHANGED <<info, opts>> /\ TypeOK'
  BY DEF RInv, TypeOK, Next, CheckPolicy, ReadNarInfo, CheckClassical, CheckHybrid,
     CheckRequired, GoOn, Stop, Stages, verifyVars
<1> DEFINE Trusted == SameKeyGiven /\ info # Malformed /\ FewCandidates /\ TableSaysYes
           Excused == ~opts.require_pqc /\ ~Pairing /\ info.sig_pqc # <<>>
<1>2. (Trusted' <=> Trusted) /\ (Excused' <=> Excused) /\ (Loaded' <=> Loaded)
  BY <1>1 DEF SameKeyGiven, Loaded, FewCandidates, TableSaysYes, Pairing
<1>3. SUFFICES /\ (stage = "required" /\ Loaded /\ opts.require_pqc => pqc_ok = TRUE)'
               /\ exit' = "fail" /\ Trusted => Excused
  BY <1>1, <1>2 DEF RInv, RefusesOnlyBrokenPqc
<1>4. exit = "fail" /\ Trusted => Excused
  BY DEF RInv, RefusesOnlyBrokenPqc
<1>5. CASE CheckPolicy
  BY <1>4, <1>5 DEF CheckPolicy, GoOn, Stop, SameKeyGiven, Loaded
<1>6. CASE ReadNarInfo
  BY <1>4, <1>6 DEF ReadNarInfo, GoOn, Stop
<1>7. CASE CheckClassical
  BY <1>4, <1>7 DEF CheckClassical, GoOn, Stop, TableSaysYes
<1>8. CASE CheckHybrid
  <2>1. (stage = "required" /\ Loaded /\ opts.require_pqc => pqc_ok = TRUE)'
    BY <1>8 DEF CheckHybrid, GoOn, Stop, Loaded
  <2>2. ASSUME exit' = "fail", Trusted PROVE Excused
    <3>1. CASE exit = "fail"
      BY <1>4, <2>2, <3>1
    <3>2. CASE exit # "fail"
      <4>1. Loaded /\ ~HybridOk /\ (opts.require_pqc \/ info.sig_pqc # <<>>)
        BY <1>8, <2>2, <3>2 DEF CheckHybrid, GoOn, Stop, SameKeyGiven, Loaded
      <4>2. info \in NarInfos
        BY <2>2, VerifyOK DEF RInv, TypeOK
      <4>3. ~Pairing
        BY <2>2, <4>1, <4>2, PairIsFound DEF HybridOk, Pairing, FewCandidates
      <4> QED
        BY <2>2, <4>1, <4>3 DEF TableSaysYes
    <3> QED
      BY <3>1, <3>2
  <2> QED
    BY <2>1, <2>2
<1>9. CASE CheckRequired
  BY <1>4, <1>9 DEF CheckRequired, Stop, RInv, SameKeyGiven
<1>10. CASE UNCHANGED verifyVars
  BY <1>4, <1>10 DEF verifyVars, RInv, Loaded
<1> QED
  BY <1>5, <1>6, <1>7, <1>8, <1>9, <1>10 DEF Next

\* For all inputs, keys and caps: with no more distinct candidates than the cap
\* a narinfo that the policy table trusts is refused only for Sig-PQC lines none
\* of which completes a pairing; duplicates, decoys and lines that do not decode
\* hide no valid signature.
THEOREM RefusalTheorem == Spec => []RefusesOnlyBrokenPqc
<1>1. Init => RInv
  BY DEF Init, RInv, TypeOK, Stages, RefusesOnlyBrokenPqc
<1>2. RInv => RefusesOnlyBrokenPqc
  BY DEF RInv
<1> QED
  BY <1>1, <1>2, StepRInv, PTL DEF Spec
=============================================================================
