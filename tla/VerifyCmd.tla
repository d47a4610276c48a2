------------------------------ MODULE VerifyCmd ------------------------------
(***************************************************************************)
(* The verify subcommand (cmd_verify in main.rs): one narinfo, an optional *)
(* classical key, an optional hybrid key file and --require-pqc, decided   *)
(* in the order the code decides, each early return an exit with an error. *)
(***************************************************************************)
EXTENDS Signatures

CONSTANTS Inputs,      \* the narinfo files, Malformed for one that does not parse
          Malformed,
          NoKey,       \* the option is not given
          Unreadable   \* a key file that is missing or does not load

\* --pubkey is "name:base64" or bare base64 (name NoName); --pqc-pubkey names
\* a file with the key and its own name.
NamedKeys == [name : Names \cup {NoName}, key : Keys]
Options == [pubkey : NamedKeys \cup {NoKey},
            pqc_pubkey : {k \in NamedKeys : k.name # NoName} \cup {NoKey, Unreadable},
            require_pqc : BOOLEAN]

ASSUME VerifyOK == /\ Inputs \subseteq NarInfos \cup {Malformed}
                   /\ Malformed \notin NarInfos
                   /\ NoKey \notin NamedKeys
                   /\ Unreadable \notin NamedKeys \cup {NoKey}

VARIABLES info,     \* the narinfo file
          opts,     \* the command line
          stage,    \* the next thing cmd_verify does
          pqc_ok,   \* its variable of that name
          exit      \* "running", "ok" or "fail"

verifyVars == <<info, opts, stage, pqc_ok, exit>>

Stages == {"policy", "parse", "classical", "hybrid", "required", "done"}

TypeOK == /\ info \in Inputs
          /\ opts \in Options
          /\ stage \in Stages
          /\ pqc_ok \in BOOLEAN
          /\ exit \in {"running", "ok", "fail"}
          /\ stage = "done" <=> exit # "running"

Init == /\ info \in Inputs
        /\ opts \in Options
        /\ stage = "policy"
        /\ pqc_ok = FALSE
        /\ exit = "running"

GoOn(next) == stage' = next /\ UNCHANGED <<info, opts, exit>>

\* Mutant: the exit code is set and the checks go on.
Stop_GoesOn(code) == exit' = code /\ UNCHANGED <<info, opts, stage, pqc_ok>>

Stop(code) == stage' = "done" /\ exit' = code /\ UNCHANGED <<info, opts, pqc_ok>>

\* Neither key given: nothing to verify, which is an error.
CheckPolicy == /\ stage = "policy"
               /\ IF opts.pubkey = NoKey /\ opts.pqc_pubkey = NoKey
                  THEN Stop("fail")
                  ELSE GoOn("parse") /\ UNCHANGED pqc_ok

ReadNarInfo == /\ stage = "parse"
               /\ IF info = Malformed THEN Stop("fail")
                  ELSE GoOn("classical") /\ UNCHANGED pqc_ok

CheckClassical ==
  /\ stage = "classical"
  /\ IF opts.pubkey # NoKey /\ ~ClassicalOk(info, opts.pubkey.name, opts.pubkey.key)
     THEN Stop("fail")
     ELSE GoOn("hybrid") /\ UNCHANGED pqc_ok

HybridOk == VerifyHybrid(info, opts.pqc_pubkey.name, opts.pqc_pubkey.key)

\* A hybrid key that verifies nothing is an error only when --require-pqc is
\* set or the narinfo has some Sig-PQC line, of whatever name.
CheckHybrid ==
  /\ stage = "hybrid"
  /\ \/ opts.pqc_pubkey = NoKey /\ GoOn("required") /\ UNCHANGED pqc_ok
     \/ opts.pqc_pubkey = Unreadable /\ Stop("fail")
     \/ /\ opts.pqc_pubkey \notin {NoKey, Unreadable}
        /\ IF HybridOk THEN GoOn("required") /\ pqc_ok' = TRUE
           ELSE IF opts.require_pqc \/ info.sig_pqc # <<>> THEN Stop("fail")
           ELSE GoOn("required") /\ UNCHANGED pqc_ok

\* Mutant: --require-pqc matters in the hybrid check only.
CheckRequired_Dropped == stage = "required" /\ Stop("ok")

CheckRequired == /\ stage = "required"
                 /\ Stop(IF opts.require_pqc /\ ~pqc_ok THEN "fail" ELSE "ok")

Next == \/ CheckPolicy \/ ReadNarInfo \/ CheckClassical
        \/ CheckHybrid \/ CheckRequired

Spec == Init /\ [][Next]_verifyVars /\ WF_verifyVars(Next)

-----------------------------------------------------------------------------
\* The RFC's verification policy for one trusted hybrid key: the classical
\* half must verify, and with require-pqc-sigs some pairing of both halves.
Loaded == opts.pqc_pubkey \notin {NoKey, Unreadable}
Pairing == AnyPairing(info, opts.pqc_pubkey.name, opts.pqc_pubkey.key)
SameKeyGiven == Loaded /\ opts.pubkey = opts.pqc_pubkey
TableSaysYes == /\ ClassicalOk(info, opts.pubkey.name, opts.pubkey.key)
                /\ opts.require_pqc => Pairing
FewCandidates == UnderCap(info, opts.pqc_pubkey.name)

\* An accepted narinfo deserves it by the definition that tries every pairing:
\* exit 0 with --pubkey means a line of that name verified, exit 0 with
\* --require-pqc that one Sig: and one Sig-PQC: of the key's name did.
AcceptsOnlyVerified == exit = "ok" =>
  /\ opts.pubkey # NoKey => ClassicalOk(info, opts.pubkey.name, opts.pubkey.key)
  /\ opts.require_pqc => Loaded /\ Pairing

\* With at most MAX_SIG_CANDIDATES distinct candidates per half, duplicates,
\* decoys and malformed or unknown-tag lines in any order keep no valid
\* signature from being found: a narinfo the policy table trusts is refused
\* only for Sig-PQC lines none of which completes a pairing (README, findings).
RefusesOnlyBrokenPqc ==
  exit = "fail" /\ SameKeyGiven /\ info # Malformed /\ FewCandidates /\ TableSaysYes
    => ~opts.require_pqc /\ ~Pairing /\ info.sig_pqc # <<>>

\* What the comment at the top of cmd_verify wants: exit code 0 means that
\* something was verified.
SuccessChecksSomething == exit = "ok" =>
  \/ opts.pubkey # NoKey /\ ClassicalOk(info, opts.pubkey.name, opts.pubkey.key)
  \/ Loaded /\ Pairing

\* Row 4 of the RFC's table: a valid classical signature is enough without
\* require-pqc-sigs, even if a Sig-PQC line is broken.
TableYesAccepted ==
  SameKeyGiven /\ info # Malformed /\ TableSaysYes /\ FewCandidates => exit # "fail"

=============================================================================
