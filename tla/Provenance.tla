----------------------------- MODULE Provenance -----------------------------
(***************************************************************************)
(* What hybrid signatures on narinfos promise to the client of a cache:    *)
(* whatever happens to a document on its way, a signer is believed for     *)
(* exactly the documents that no signature tells from what that signer has *)
(* put its name to, by both algorithms or by the classical one alone; a    *)
(* signer that puts its name to a document takes no belief from signers of *)
(* other names; and it is itself believed by both algorithms unless its    *)
(* name already has as many signatures there as a client tries.            *)
(***************************************************************************)
EXTENDS Naturals

CONSTANTS Names,       \* the names of signers
          Signers,     \* records [name, key]: who signs on their own authority
          Proxies,     \* ... and who signs only what somebody is believed of
          Nix,         \* the signer of the original, by the classical algorithm
          Docs,        \* what a document can say of a path
          NoDoc,       \* a text that says nothing
          Covers,      \* Covers[d]: what a signature on d covers
          Cap          \* how many signatures of a name a client tries

VARIABLES doc,       \* what the document in circulation says
          vouched,   \* every <<signer, level, doc>> that was ever signed
          believed,  \* the <<signer, level>> a client believes the document of
          entries    \* how many different signatures each name has there

vars == <<doc, vouched, believed, entries>>

Levels == {"classical", "hybrid"}
Everyone == Signers \cup Proxies \cup {Nix}

Init == /\ doc \in Docs
        /\ vouched = {<<Nix, "classical", doc>>}
        /\ believed = {<<Nix, "classical">>}
        /\ entries = [n \in Names |-> IF n = Nix.name THEN 1 ELSE 0]

Both(s) == {<<s, l>> : l \in Levels}
Vouch(s) == vouched' = vouched \cup {<<s, l, doc>> : l \in Levels}

\* s signs in place of whatever carries its name.
Sign(s) == /\ Vouch(s)
           /\ doc # NoDoc
           /\ believed' = {b \in believed : b[1].name # s.name} \cup Both(s)
           /\ entries' = [entries EXCEPT ![s.name] = 1]
           /\ UNCHANGED doc

\* s adds its signature to a document that somebody is believed of.  Beyond the
\* cap a client may not get to see that s signed by both algorithms.
Countersign(s) == /\ Vouch(s)
                  /\ doc # NoDoc
                  /\ believed # {}
                  /\ \/ believed' = believed \cup Both(s)
                     \/ entries[s.name] >= Cap /\ believed' = believed \cup {<<s, "classical">>}
                  /\ \E more \in {0, 1} : entries' = [entries EXCEPT ![s.name] = @ + more]
                  /\ UNCHANGED doc

\* The document is changed or damaged on its way: it may come to say anything,
\* but nobody is believed for what differs in what signatures cover from all
\* that they have signed, and no signature comes from nowhere.
Alter == /\ UNCHANGED vouched
         /\ doc' \in Docs \cup {NoDoc}
         /\ \A b \in believed' :
              /\ doc' \in Docs
              /\ \E d \in Docs : <<b[1], b[2], d>> \in vouched /\ Covers[d] = Covers[doc']
         /\ entries' \in [Names -> Nat] /\ \A n \in Names : entries'[n] =< entries[n]

Next == \/ \E s \in Signers : Sign(s)
        \/ \E s \in Proxies : Countersign(s)
        \/ Alter

Spec == Init /\ [][Next]_vars
=============================================================================
