# A verification project for nix-signature-policy

The repository holds `nix-pqc-cache-proxy`, a prototype that adds hybrid
Ed25519 + ML-DSA-65 signatures (`Sig-PQC:` lines) to Nix binary caches: a
library (`src/hybrid.rs`, `src/keys.rs`, `src/narinfo.rs`, `src/proxy.rs`) and
a command line (`src/main.rs`) with `keygen`, `sign`, `verify` and `proxy`.
This directory models it in TLA+, checks the models with TLC and proves the
central results with TLAPS. Source paths below are relative to the repository.

## The system

| Component | State it keeps | Operations |
|---|---|---|
| atomic file writes (`src/keys.rs` 185-245) | a directory: destinations and temporary files `.<name>.tmp-<pid>` | `write_new_atomic`, `write_atomic_overwrite`, both through `write_via_temp_rename` |
| signature lines, hybrid check (`src/keys.rs` 247-401, `src/narinfo.rs` 163-213, `src/hybrid.rs`) | none | encode and decode a line, verify one line, `verify_hybrid` with dedup and `MAX_SIG_CANDIDATES` |
| narinfo text (`src/narinfo.rs` 14-161) | none | `parse`, `to_text`, `fingerprint` |
| key files (`src/keys.rs` 33-137) | `<name>.secret`, `<name>.pub` | save, load |
| `keygen` (`src/main.rs` 96-118) | the two key files | generate, save one, save the other |
| `sign` (`src/main.rs` 120-159) | the cache directory | per narinfo: read, replace own lines, overwrite |
| `verify` (`src/main.rs` 161-221) | none | five checks with early returns, one exit code |
| `proxy` (`src/proxy.rs`) | shared: configuration only; per request: a buffer, a deadline | narinfo (buffer, verify, sign), `nix-cache-info` (buffer), NAR (stream) |

How they interact: `keygen` writes the key files that `sign`, `proxy` and
`verify` load; `sign` rewrites narinfos in place while other programs read,
publish and sign there; the proxy is a client of an upstream cache and serves
narinfos that end up in front of `verify` or of `nix`. There is no lock and no
message between processes: they share a directory, and process ids keep their
temporary files apart.

What is hard: system calls of several processes interleave on one directory;
processes die between any two of them and their ids are handed out again; each
call may fail and the code ignores two failures (`sync_all`, `remove_file`) and
returns on the others; power may be lost; a directory scan sees files that the
same loop just replaced; keygen's result is two files written one after the
other; verify reaches one exit code from six inputs; candidates are cut off at a
cap; the proxy's upstream may stall, break off or overrun under a deadline, and a
body without a length that is closed early looks complete; a narinfo passes
through programs that parse it, change it and write it anew, any number of times,
and through some that know nothing of `Sig-PQC:`; the fingerprint joins its parts
without escaping them.

What makes each component correct:

- atomic file writes: each path is a register. A call publishes all of its
  content or nothing, exactly when it answers `Ok`; leftovers never block a path
  for good and never get published; a *new* file replaces nothing.
- hybrid check: it accepts exactly what some pairing of one `Sig:` and one
  `Sig-PQC:` line would be accepted for, whatever surrounds them, up to the cap.
- `verify`: exit 0 only for what the RFC's policy table trusts, and refusal only
  for what it does not.
- `sign`: what it publishes verifies and carries each signer's lines once; it
  loses nothing that was there and success means everything listed is signed,
  except for what overlapped; what a failed run left undone, reruns finish.
- `keygen`: never a secret and a public key that do not belong together, unless
  the user took the right secret away; never a secret replaced; no stop that
  removing the visible files does not get out of.
- narinfo text: writing a parsed text loses nothing, and the fingerprint depends
  on what is said and not on how it is laid out.
- `proxy`: it signs only what verified under the upstream key, which is all of
  the document or at least what that signature covers; it refuses only for a
  cause; every request ends, unless its own client does not read on.
- all together: a client believes a signer for exactly what has the fingerprint
  of something that signer signed, and that is the document itself where no value
  contains a separator of the fingerprint.

## Modules

| Module | What it is | Lines it models |
|---|---|---|
| `FileRegister` | abstract: what `keys.rs` promises of its two write functions | `keys.rs` 185-207 |
| `AtomicFile` | the system calls behind them, by several processes | `keys.rs` 193-245 |
| `AtomicFileProofs` | TLAPS: typing, `Untorn`, refinement of `FileRegister` | |
| `Signatures` | lines, candidates, `verify_hybrid`, the any-pairing reference | `keys.rs`, `narinfo.rs`, `hybrid.rs` |
| `SignatureProofs` | TLAPS: filters, candidates, what a signed narinfo verifies for | |
| `VerifyCmd` | `cmd_verify`, one action per check | `main.rs` 161-221 |
| `VerifyCmdProofs` | TLAPS: what is accepted deserves it, and what is refused | |
| `TestVectors` | the published signature vectors, extends `VerifyCmd` | `examples/generate_test_vectors.rs` 129-348 |
| `NarInfoText` | `parse`, `to_text`, `fingerprint`, extends `Signatures` | `narinfo.rs` 11-161 |
| `NarInfoTextProofs` | TLAPS: `parse` undoes `to_text`, what `parse` finds in a text, sorting, what shares a fingerprint | |
| `Provenance` | abstract: what signatures promise the client of a cache | |
| `Pipeline` | signers, proxies, verifier and other programs over one text; implements `Provenance` | `main.rs` 131-221, `proxy.rs` 182-216 |
| `PipelineProofs` | TLAPS: `Provenance` is implemented, belief is as signed, layout does not matter, hops keep the rest | |
| `SignCmd` | `cmd_sign`, extends `AtomicFile` and `Signatures` | `main.rs` 120-159 |
| `SignCmdProofs` | TLAPS: success, commits and other signers' lines | |
| `KeygenCmd` | `cmd_keygen`, extends `AtomicFile` | `main.rs` 96-118, `keys.rs` 33-137 |
| `KeygenCmdProofs` | TLAPS: pairs and secrets | |
| `Proxy` | the handlers, extends `Signatures` | `proxy.rs` |
| `ProxyProofs` | TLAPS: what is vouched for, what is refused | |
| `MC...` | constants for TLC | |

Definitions whose names have the form `Of_What` are mutants: the definition
`Of` with a plausible bug. No specification uses them; each shows that some
property notices that bug.

### AtomicFile and FileRegister

A *destination* and a *temporary name* each hold no file or an inode: the
content it is meant to hold, whether all of it was written (`body`), whether it
is on disk (`disk`), and which process has a descriptor open on it (`fd`). A
write goes to the inode behind the descriptor, wherever it has been renamed to
meanwhile, which is what makes shared temporary names dangerous. `pc[p]` walks
through `write_via_temp_rename`: `check` (only `write_new_atomic`), `open`
(`create_new`), `write`, `sync`, `rename`, with `cleanup` for the error path
that removes the temporary name; `ok` and `err` are what it answers. `Faults`
says which calls may fail and whether processes crash or power is lost; after a
crash the temporary file stays, and any process id of a dead process may be
handed out again. Power loss takes an arbitrary part of every file that was not
synced and keeps directory entries (a file system that journals metadata in
order; on one that may forget a rename, the old file comes back, which is not
modelled). `OneNamespace = FALSE` lets live processes share an id.

`FileRegister` has one value per path, a call per process, and `Commit` as the
one step that changes a value. The refinement maps a torn file to a value that
no call writes, so a step of the protocol that publishes one is no step of the
register.

### Signatures

A narinfo is the part that its fingerprint covers (`print`) and two sequences
of lines. A line has a name, how far decoding gets (`Forms`) and the signature.
`EdValid` and `MlValid` are arbitrary relations between keys, fingerprints and
bytes with the one assumption that every key can sign everything; only
`Pipeline` assumes that signatures are unforgeable. Signing is a function of key
and message. `generate_test_vectors.rs` 7-8 calls it randomised; with one of
several signatures in its place every property reads the same, as all of them ask
whether lines verify and not which bytes they hold. The function only means that a
key which signs a document twice makes one line and not two candidates;
`HybridIsAPairing` and `Provenance` allow for both.
Key names contain no `:` (`validate_key_name`), so comparing the name is the
same as the code's `starts_with("name:")`. `AnyPairing` is the RFC's rule and
the reference; `VerifyHybrid` is the code's.

### VerifyCmd, SignCmd, KeygenCmd, Proxy

`VerifyCmd`: `Init` ranges over inputs and command lines, each action is one
stage of `cmd_verify`. The narinfo is read once, so nothing can change under it.
`TestVectors` builds the eight vectors from the same operations as the generator
(sign, flip a byte, set the tag, cut short), and `Cases` every order of their
lines with a line of another name or of an unknown encoding mixed in.

`SignCmd`: `SignEntry` reads a file and hands `AtomicFile` the overwrite; reading
and computing is one step since only the read touches shared state. The races
that matter lie between this step and the rename, which is `Commits`. Each run
picks one of the key files `Signers`. `yields` counts how often a scan yields a
path (bound `MaxYields`), and it yields every path that was there when the run
began, although entries are replaced meanwhile: POSIX leaves this open for
`readdir`, and `FinishedMeansSigned` rests on it. Other programs publish narinfos at any path at any
time. No lock is held, so a rename undoes what came between the read and itself;
the code does not exclude this, and the properties say exactly how far it goes:
`behind[p]` is who has written the path of `p` since `p` read it, and `lost[p]`
the listed paths that were written again without regard to what `p` made of
them, by a publication, a run that was behind, or another key of the same name.
Both are history: no guard reads them.

`KeygenCmd`: each run generates a key pair that is nowhere around. Both saves
are calls of `write_new_atomic`. `Load` gives the key of a complete file and an
error for a shorter one, which the length checks in the load functions catch.
Between runs the user may remove either file (`Remove`). `orphan` records that
this took the secret from a public key that stayed: the next `keygen` then writes
a new secret and fails at the public key, which is the one way to a mismatched
pair. `made` is the pair of the last success.

`Proxy`: a request is `asking` until the head of the upstream's response, then
`reading` (buffered kinds) or `streaming` (NAR). `clock` counts ticks of the
client's total timeout; when it reaches `Timeout` the deadline fires. From the
end of a narinfo to the answer the handler does not wait, so it is one action.
Handlers share nothing that changes, so one connection shows everything; it
serves any number of requests one after the other.

A response is `framed` if a `Content-Length` or the chunked coding says where the
body ends. Then an early end is an error (`Breaks`). Otherwise only the end of the
connection ends the body, and `read_capped` (`proxy.rs` 57-67) takes what has come
by then for all of it: `EndsWith` chooses any body of `Cut[b]`, what `b` may read
as without its end. The comment at `proxy.rs` 53-54 expects that a truncated narinfo
fails to parse; one that is cut between two lines after the `Sig:` line parses
and verifies (the fingerprint does not cover what follows it), and the proxy
vouches for it. `VouchesOnlyForVerified` therefore says that what was read verifies
under the upstream key, and that it is complete if it was framed. With "complete"
for every body TLC finds the cut one. `read` is the body as the handler read it,
`faults` what others did wrong. A client may stop reading a NAR (`Stalls`) and
read on (`Resumes`); meanwhile nobody asks the stream for more, so neither the
upstream's error nor the deadline is noticed.

### NarInfoText, Pipeline and Provenance

A text is a sequence of lines, each a key, a value and a layout (`Key: value`,
`Key:` without the space, blank, or none of these). Values are opaque, except
where the code looks into them: numbers, the reference list with `split(' ')` and
`join(" ")`, signature lines, the empty value, and the fingerprint's separators
(below). References are numbers in the
order of their names. `InOrder` says which of them is the n-th by counting those
before it, equal ones included: `SortSeq` is built in a way that the prover
cannot see into. That it sorts is a theorem (`OrderSorts`), and TLC compares it
with its own sort on every list of up to four (`Sorts`).

The fingerprint (`narinfo.rs` 137-160) is text: path, hash, size and references
joined with `;` and `,`, and none of them escaped, although `parse` takes any text
for a value. `SignedText` is that text as a sequence of tokens. A value with no
separator in it is one token; for the others `Spelled` gives the tokens, cut at the
separators, and at the end of each store directory that follows one, so that two
values are spelled alike exactly where the code writes the same text. The single
reference `a,/nix/store/b` thus has the fingerprint of the two references `a` and
`b`, and a signature on one document verifies on the other. `Plain` documents have no
separator in a value. The lines that Nix writes are plain; `parse` does not ask for it.

`Pipeline` has one text in circulation. `SignHop` is what `sign` makes of it (the
file system part is `SignCmd`'s), `ProxyHop` what a proxy does, with any of the
other keys as its upstream key (the transport part is `Proxy`'s): parse, check,
change the lines, `to_text`. In between other programs change it without loss
(`Relayout`: lines or references in another order, a blank line, a trimmed empty
value) or with it (`Edit` a value, or give its key once more; `Truncate`;
`DropPqc`). `believed` is whom `verify` believes the text of, with `--pubkey` and
with `--require-pqc`; `vouched` is the history of who signed what.

`Provenance` knows no text: a document says something, signers add belief in
themselves, and any change of the document leaves belief only in those who signed
what no signature tells from what it says now (`Covers`; here the fingerprint). A signer of the `sign` kind takes the place of its name; a
proxy's key is added, and only where somebody is believed already. `entries`
counts the different signatures of each name and `Cap` is how many of them a
client tries: where a name has that many, a proxy of it may sign and still be
believed by the classical algorithm only, since `verify_hybrid` never gets to its
line (`proxy.rs` 206, `keys.rs` 358). Everybody who was believed before stays so.
The refinement maps `entries` to `Candidates(text)` and `Cap` to
`MaxSigCandidates`, `Covers` to `SignedText`, the other variables to those of the
same names. What belief in a fingerprint is worth is `BelievedAsSigned`: of a signer
that signed plain documents only, a client believes a path, hash and size that
the signer signed together, whatever the text was turned into, and in a plain
document also the references. Without the last condition TLC finds the document
with `a,/nix/store/b`, believed of the signer of the one with `a` and `b`.

## What is checked

| Run | Shows |
|---|---|
| `FileCrash` | two processes, one path, calls fail, crashes with id reuse, power loss (with syncs that work): no torn file, refinement of the register |
| `VerifyTable` | all narinfos with up to 3 lines of each kind, cap 2, every undecodable form next to a good line, and the published vectors in every order with noise: `verify` accepts and refuses as the RFC says, up to the findings below |
| `SignTogether` | two overlapping runs with one key, two keys of a name or two names, on a path republished and re-yielded meanwhile, malformed files, failing renames: one verifying pair, only overlapping loses lines, success means signed |
| `SignAgain` | runs of two keys one after the other, two paths, failing writes and renames, crashes, power loss: success means signed, and reruns end with every narinfo signed by both |
| `KeygenRerun` | reruns after failures, crashes, power loss and removals, with leftovers under two process ids: pairs match, secrets stay, and cleaning up the visible files always leads to a pair |
| `Pipeline` | two documents through all chains of two signatures with two lossy changes and one change of layout between them, up to more signatures of a name than the cap: hops keep the rest, layout does not matter, `Provenance` is implemented, and what is believed is as signed but for references with separators |
| `ProxyServe` | any upstream document at any pace, framed or not, cut short or broken off, one connection whose client may stop reading: what is vouched for was verified, refusals have a cause, requests end |

Two facts about `AtomicFile` have no run of their own, since a run above fails
without them: failed calls free their temporary name, so that a leftover never
blocks a path for good (`EventuallySigned`, `EventuallyPaired`), and
`write_new_atomic` replaces nothing as long as it runs alone (`SecretStays`). Two
writers between the check and the rename are outside of that: the comment at
`keys.rs` 188-190 excludes them, and no property covers them.

Bounds and why they are enough. Two processes and two ids suffice for every
interference of `AtomicFile` (a writer and one other, an id live and an id
handed out again), and the proofs drop the bound. Contents are compared for
equality only, so two do. The candidate cap is 2 instead of 32, with up to 3
lines, so that lists below, at and above the cap occur. Two paths in
`SignAgain` make a run end between files; one path is enough where the property
is about one file. `SignAgain` has one process, since its runs do not overlap,
and one process id, so each run meets the temporary files of the one before.
`SignTogether` has three key files, two of one name, and is symmetric in
processes and ids, which no definition tells apart and no liveness property of
that run depends on. Crashes and the other faults are left to `FileCrash` and
`SignAgain`: in `SignTogether` a failing rename is what ends a run early.
`KeygenRerun` has one process too, with `Exclusive` as its meaning; two ids keep
leftovers that are not in the next run's way, and nine key pairs are more than
can be around at once, so that `Generated` always finds one. In `Pipeline` two
signatures give every pair of signer and proxy in both orders, two lossy changes
give a change and its reversal, and one layout change is enough as
`LayoutDoesNotMatter` is about single steps. The cap is 2, and the name that the
original is signed under gets a third candidate by two hops; every property runs
below, at and above the cap. A key that signs twice (Nix's, as a proxy) makes a
repeated line, which must not count towards it. One original has two references,
and one edit makes a single one of them that is spelled alike, so that belief in a
document nobody signed occurs; values with a `;` are left to the theorems. The
proxy's caps are 4 and 3 bytes with bodies of 0, 1, 3, 4 and 5 and chunks of up to
2, so that bodies meet a cap exactly and chunks straddle it; three ticks let an
upstream be steady or quiet. Its documents are closed under being cut short between
two lines, and a cut in the middle of a line leaves none. No run uses a state
constraint. `CHECK_DEADLOCK FALSE` appears for `verify`, which
exits, and for `Pipeline`, which comes to rest at its bounds.

Fairness. `SignFair` says that a run of `sign` goes on (the scheduler), and that
each signer keeps running it again (strong fairness, since the other may be
running at any moment): that is the premise of the claim, not of the code.
`EventuallySigned` is conditional on faults and publications to stop. A run that
ends with an error of its own (a leftover temporary file in its way) is not
such a fault, so the property covers the recovery from leftovers.
`KeygenFair` says the same of `keygen`, and that the user removes what is left
where there is no pair (the two named files, never a temporary one).
`EventuallyPaired` is conditional on faults to stop, and on nobody taking a pair
apart for ever.
`Proxy` assumes only that time passes and the deadline fires, and nothing about
the upstream or the client. A client that never reads on keeps its request: the
deadline is in the stream that nobody polls then. `EveryRequestEnds` excuses that
and nothing else.

### Findings

Five runs check a statement of the repository that the code does not satisfy.

1. `VerifyNothing`: `verify --pqc-pubkey K` on a narinfo without `Sig-PQC:`
   lines exits 0 and has verified nothing (`main.rs` 208), which the comment at
   `main.rs` 167-169 rules out.
2. `VerifyRowFour`: a `Sig-PQC:` line that does not verify, even of another key
   name, makes `verify` fail without `--require-pqc`; the RFC's table (line 224)
   says trusted, with a warning.
3. `FileSharedPid`: two processes with one id publish a half-written file.
4. `FileSyncIgnored`: a failed sync is ignored (`keys.rs` 235), and power loss
   then leaves a torn file. Both against `keys.rs` 187-188 and 200-201.
5. `ProxyNarCut`: the 30 s total timeout (`proxy.rs` 135) cuts off long NARs
   from an upstream that never pauses, against `proxy.rs` 11-13.

## What is proved

`AtomicFileProofs`, for any number of processes, ids, paths and contents:

- `TypeTheorem`: `Spec => []TypeOK`.
- `UntornTheorem`: `Sound => (Spec => []Untorn)`.
- `Refinement`: `Sound => (Spec => ImplementsRegister)`.

`Sound` is the pair of conditions that findings 3 and 4 show to be necessary:
live processes have distinct ids, and power is not lost where syncs fail.

`Untorn` says only what is published and is not inductive. What makes a rename
safe is that the temporary file under a caller's name is the one it created and
wrote. `IInv` adds this (`OwnTemp`), where descriptors can be open
(`OwnDescriptor`), that published files are closed, whole and on disk
(`Published`), distinct ids (`IdsDistinct`) and `JobKnown`. The step lemmas go
action by action; those that change only the caller's temporary file share
`OwnStep`, whose core is `TmpNamesDistinct`: no other live process has that
name. For the refinement the rename is the commit, error returns are refusals,
returns and deaths forget calls, everything else stutters.

`SignatureProofs`, for any cap, any validity relations and lines in any number:

- `HybridIsAPairing`: `VerifyHybrid` accepts no more than `AnyPairing`, and the
  same while the different candidates are no more than the cap.
- `HybridSurvives`: `sign` and the proxy change the verdict for no other name, and
  whoever is accepted stays so when a proxy adds its lines, beyond the cap too.
  `TriesAfter` is the reason: a line at the end takes no earlier candidate out of
  the first `MaxSigCandidates` distinct ones, and leaving out the lines of one
  name leaves the candidates of all others in their order.

`VerifyCmdProofs`, for all inputs, keys, caps and validity relations:

- `TypeTheorem`, and `AcceptanceTheorem`: `Spec => []AcceptsOnlyVerified`, by an
  invariant of what each stage has established and `HalvesMakeAPair`: checking
  the halves separately accepts no more than pairing them.
- `RefusalTheorem`: `Spec => []RefusesOnlyBrokenPqc`. The invariant `RInv` adds
  that with `--require-pqc` the last stage is only reached verified. The weight
  is in `PairIsFound`: while the distinct candidates are no more than the cap,
  collecting them misses no signature. The first lines of each signature are as
  many as the distinct signatures, so fewer than the cap come before any of them.

`SignCmdProofs`, for any number of processes, paths, key files and narinfos,
with every interleaving and fault that `SignOK` admits (it contains `Sound`):

- `FinishedTheorem`: `SignSpec => []FinishedMeansSigned`.
- `OnePairTheorem` and `KeepsTheRestTheorem`: the action properties
  `CommitsOnePair` and `KeepsTheRest`. `SignTypeTheorem`: typing.

`FinishedMeansSigned` speaks of runs that have ended. `SInv` says what makes it
true meanwhile: what a run is about to publish was made from a narinfo
(`RunInv`), from the one that is there unless somebody is recorded in `behind`
(`UpToDate`), and everything that a run has passed carries its pair, both in the
file and in whatever another run, which read it later, is about to put in its
place (`SignedBy`). The last part is where two runs of different keys meet; the
only exceptions are the rival keys of one name and the overlaps that `lost`
records. `IInv` is a conjunct: without it a rename could publish something else
than the job. What a pair of lines means is `MarkedVerifies`: a narinfo whose
only lines of a name are the ones its key makes verifies, however many lines of
other names surround them, by the lemmas on `Kept` and the cap.

`KeygenCmdProofs`, for any number of processes, ids and key pairs, under
`Exclusive /\ Durable` (runs do not overlap, which is what the comment at `keys.rs`
188-190 asks of callers, and finding 4 is excluded):

- `PairTheorem`, `SuccessTheorem`, `SecretTheorem`: `PairMatches`,
  `SuccessLeavesPair` and the action property `SecretStays`;
  `KeygenTypeTheorem`: typing.

`write_new_atomic` looks first and renames later. `KInv` says that between the
two the path of a live run stays empty, that the secret of a run that is at its
public key is its own, and how the two files are related whatever runs there
were (`PairInv`), with `IInv` for the files' content.

`ProxyProofs`, for any number of connections, documents, caps and timeouts:

- `VouchTheorem`, `RefusalTheorem`, `TypeTheorem`: `VouchesOnlyForVerified`,
  `RefusesWithCause`, typing. `PInv` says what a handler knows at each place it
  waits: its buffer holds all that arrived and no more than the cap, and once the
  stream has ended what was read is the body, or a cut one that nothing framed.

`NarInfoTextProofs`, for all documents and texts:

- `RoundTrip`: `Parse(ToText(info)) = info` for every document that `parse` can
  return (`Parsed`; `ParseGives` shows that it returns no other). `ToText` is a
  concatenation; `Says` is what a part of it says of some keys, and `BothSay`
  joins two parts with different keys. Signature and unknown lines are read back
  by filters, one part at a time.
- the lemmas that the pipeline's proofs use: `ParseSays` and `ParseFails`, what
  `parse` finds in any text at all, from the last line of each key; `InOrderIs`
  and `OrderOfReverse`, that sorting is well defined and forgets the order it
  started from; `SameTextReads`, that two texts that say the same parse alike.
- `OrderSorts`: `InOrder` of a list of any length never descends and has each
  reference as often as the list. Counting takes the place of an induction over
  the list: the positions at which a value comes up are one segment, whose length
  is how often the list has that value.
- `PlainPrint`: what has the fingerprint of a plain document has its path, hash and
  size, and is that document if it is plain too. The fingerprint of a plain document has
  semicolons at three places only (`JoinedIs`: none among its references), every
  other one has at least three (`SignedIs`), so its path and hash are one token
  each; the references are read off at every third place.

`PipelineProofs`, for all originals, edits, keys, names and bounds:

- `Refinement`: `Spec => ImplementsProvenance`. Whatever chain of signers, proxies
  and other programs a document went through, and however many signatures it has,
  a client believes each signer for exactly what has the fingerprint of something
  that signer has signed; only a proxy that comes to a name which has reached the cap may miss belief by both
  algorithms.
- `ExactTheorem`: `Spec => []BelievedAsSigned`, from `BelievedFrom` and `PlainPrint`.
- `LayoutTheorem`: `Spec => LayoutDoesNotMatter`: belief by the classical algorithm
  never depends on the layout, belief by both only where a name has more
  candidates than the cap.
- `PipelineTypeTheorem`: typing, and `PipeInvariant`: the invariant of them all.
- `HopsTheorem`: `Spec => HopsKeepTheRest`, from `RoundTrip`.

`Provenance` speaks of who is believed, which `verify` computes anew from each
text. `PipeInv` relates the two: each line that verifies for a signer and a
fingerprint stands for a signature in `vouched` on a document that has it
(`Behind`), and every field says what some original or edit said, so each text
says one of `Docs` (`PrintSayable`). So whoever is believed has signed something
with that fingerprint (`BelievedFrom`), with no bound on the lines, since `verify` believes nobody whose
lines are not there (`BeliefIs`). The other direction is where the cap
matters: which lines count is a question of their order and not only of the set of
them. A hop adds one line on each side and may take out the signer's own
(`HopText`), and `TriesAfter` says what that does to the candidates that are tried
(`HybridOfHop`, `HopBelief`): nobody else gains or loses, and the signer itself is
believed unless its name was at the cap before. `HopCandidates` counts the
entries. All other steps add no signature line (`FromIsOK`) and are alterations.
The step of a proxy needs that somebody is believed already: its upstream, whose
signature it has checked.
For `LayoutTheorem`, `Rearranged` maps the lines of the old text to those of the
new one; the last line of each key is the same, and so are the signature lines.

Nothing is assumed of the fingerprint being injective; it is not. `SpelledOK` says
only that the values outside of `DOMAIN Spelled` are those without a separator.
Two assumptions of `PipelineOK` matter. No signature verifies for two keys or
two fingerprints (`Unforgeable`): without it a client would believe somebody for
what another has signed. Originals verify under Nix's key and have no `Sig-PQC:`
lines (`Published`).

All these invariants were checked by TLC on the instances of the runs before
they were proved (`PipeInv` as it is, `SInv` with `NarInfos` cut down to the
run's contents, and for `SignTogether` with two of its three keys at a time and
one yield).

Assumptions of the proofs are the `ASSUME`s of the modules; TLC evaluates them in
every run. They ask of constants only what the code makes true: a body that does
not parse is no narinfo, `sign` overwrites and `keygen` writes new files, what
`sign` makes of a content is a content, an original is signed by Nix. Nothing
is assumed about the number of lines, and outside `Pipeline` of the signature
schemes only that every key can sign.

Sequences. The models filter with `Kept`, the entries of a sequence at some
positions, by a recursive function: `SelectSeq` is defined by a recursive
operator that the prover cannot unfold. `KeptRec` gives the recursion, and facts
about all lengths follow from the least position where they would fail
(`LeastNumber`, `InductionUpTo`), which takes the place of an induction rule.

What only TLC checks. Liveness (`EventuallySigned`, `EventuallyPaired`,
`EveryRequestEnds`), since the prover does not reason about `ENABLED`.
`VectorsHold`, which is about eight given narinfos: whether each is accepted
follows from evaluating the operators on it, and a theorem would only repeat
that. Every other property of a passing run is a theorem as well.

## Not modelled

The signature schemes are assumed. File modes, key-name characters
(`validate_key_name`: every name of the models is a valid one), HTTP headers other
than those that frame a body, output and clap are left out, since no property is about them. Also outside: lost
renames after power loss; two overlapping `keygen` runs (the code claims nothing
there); what a client makes of the proxy's 404 for any upstream failure;
references given twice, which the fingerprint keeps and Nix's set would not;
writing the test vectors' files, and the benches; and the modules the
repository's README describes that are not in this tree.

## Plan

1. Done: `FileRegister`, `AtomicFile` with proofs; `Signatures`, `VerifyCmd` with
   its first theorem; `SignCmd`, `KeygenCmd`, `Proxy`.
2. Done: `NarInfoText`, `Provenance`, `Pipeline`, `TestVectors`; `sign` with
   overlapping keys and republished narinfos; `keygen` with removals and recovery.
3. Done: proofs of the safety properties of `VerifyCmd`, `SignCmd`, `KeygenCmd`,
   `Proxy` and `Pipeline`, and that `Pipeline` implements `Provenance`.
4. Done: `Pipeline` beyond the candidate cap, with `entries` and `Cap` in
   `Provenance`, and the proofs without any bound on the number of signatures.
5. Done: `InOrder` proved to sort its argument, for every length.
6. Done: the fingerprint as the unescaped text it is, with what belief in it is
   worth; bodies without a length, and clients that stop reading.
