----------------------------- MODULE MCPipeline -----------------------------
EXTENDS Pipeline

CONSTANTS c, s, kc, k1, k2, k3, p, h, dir, Rootless

SomeKeys == {kc, k1, k2, k3}

\* A signer with a name of its own and one that takes over the name which the
\* original is signed under.  All proxies have that name, with Nix's key, with the
\* second signer's and with another one: more than verify_hybrid tries.
AllSigners == {[name |-> s, key |-> k1], [name |-> c, key |-> k2]}
AllProxies == {[name |-> c, key |-> k] : k \in {kc, k2, k3}}
TheNix == [name |-> c, key |-> kc]

\* Reference 12 is the text "a,/nix/store/b" where 11 is "a" and 13 is "b".
AllTokens == {11, 13, Comma, Semicolon, dir}
Spellings == (Semicolon :> <<Semicolon>>) @@ (Comma :> <<Comma>>) @@
             (12 :> <<11, Comma, dir, 13>>)
Dirs == (p :> dir)

SomeDoc(size, refs) == [path |-> p, hash |-> h, size |-> size, refs |-> refs]
AllPrints == {SignedText(SomeDoc(size, refs)) :
                size \in 0..2, refs \in {<<>>, <<12>>, <<11, 13>>}}

\* A signature verifies for its key and fingerprint only.
AllBytes == SomeKeys \X AllPrints
ValidBytes == {v \in SomeKeys \X AllPrints \X AllBytes : v[3] = <<v[1], v[2]>>}

\* External: a narinfo of a cache, with all optional fields or with none.
Small(d) == <<Pair("StorePath", d.path), Pair("NarHash", d.hash), Pair("NarSize", d.size),
              Pair("References", JoinReferences(d.refs)),
              Pair("Sig", SigLine(c, <<kc, SignedText(d)>>))>>
Full(d) == <<Pair("StorePath", d.path), Pair("URL", "nar"), Pair("Compression", "xz"),
             Pair("FileHash", "fh"), Pair("FileSize", 1),
             Pair("NarHash", d.hash), Pair("NarSize", d.size),
             Pair("References", JoinReferences(d.refs)),
             Pair("Deriver", "d"), Pair("System", Empty),
             Pair("Sig", SigLine(c, <<kc, SignedText(d)>>)), Pair("CA", "ca")>>

\* With two references, and with none (fingerprint-001 and -002 of the
\* repository's test vectors).
AllOriginals ==
  {[doc |-> d, text |-> Small(d)] : d \in {SomeDoc(1, <<>>)}} \cup
  {[doc |-> d, text |-> Full(d)] : d \in {SomeDoc(1, <<11, 13>>)}}

\* InOrder is what TLC's sort makes of every short list.
ASSUME Sorts == \A refs \in BoundedSeq(0..3, 4) : InOrder(refs) = SortSeq(refs, <)

\* No path, another size or none, no references, or one whose name is spelled
\* like the two of the original.
Edits == [StorePath |-> {Rootless}, NarSize |-> {1, 2, NotNumber},
          References |-> {Empty, <<12>>}]
=============================================================================
