-------------------------------- MODULE Proxy --------------------------------
(***************************************************************************)
(* The reverse proxy (proxy.rs).  Each request of a client has a handler   *)
(* that asks the upstream cache and reads its response chunk by chunk      *)
(* under one deadline: nix-cache-info and narinfo are buffered up to a     *)
(* cap, a narinfo is parsed, verified, signed and answered, a NAR is       *)
(* passed on as it comes.  The upstream may refuse, stall, break off, send *)
(* anything, or close the connection early, which a body without a length  *)
(* does not tell from its end.  Handlers share only what serve sets up     *)
(* once.                                                                   *)
(***************************************************************************)
EXTENDS Signatures

CONSTANTS Requests,                   \* connections, each serving one request at a time
          UpstreamName, UpstreamKey,  \* --upstream-pubkey; NoName if bare
          OwnName, OwnKey,            \* the key file
          Docs,                       \* the narinfos the upstream may send
          NotUtf8, Malformed,         \* ... and bodies that are none
          Cut,                        \* Cut[b]: what b may read as when its end is missing
          Sizes,                      \* bound: body lengths
          MaxChunk,                   \* bound: bytes that arrive at once
          MaxNarinfoBytes,            \* MAX_NARINFO_BYTES, 64 KiB
          MaxCacheInfoBytes,          \* MAX_CACHE_INFO_BYTES, 4 KiB
          Timeout,                    \* the client's total timeout, 30 s, in ticks
          NoBody

Kinds == {"cache_info", "narinfo", "nar", "other"}
Statuses == {"ok", "not_found", "bad_gateway"}
Bodies == Docs \cup {NotUtf8, Malformed}

\* What the upstream answers: its length and its content matter separately.  A
\* body is framed if a Content-Length or the chunked coding tells where it ends.
Responses == [status : Statuses, size : Sizes, body : Bodies, framed : BOOLEAN]

ASSUME ProxyOK == /\ UpstreamName \in Names \cup {NoName}
                  /\ UpstreamKey \in Keys
                  /\ OwnName \in Names
                  /\ OwnKey \in Keys
                  /\ Docs \subseteq NarInfos
                  /\ NotUtf8 \notin NarInfos /\ Malformed \notin NarInfos
                  /\ Cut \in [Bodies -> SUBSET Bodies] /\ NoBody \notin Bodies
                  /\ Sizes \subseteq Nat
                  /\ {MaxChunk, MaxNarinfoBytes, MaxCacheInfoBytes, Timeout} \subseteq Nat \ {0}

VARIABLES place,   \* place[r]: where the handler of r is
          kind,    \* kind[r]: the route it took
          resp,    \* resp[r]: the upstream's response, once its head is in
          got,     \* got[r]: how many bytes of its body have arrived
          held,    \* held[r]: how many of those are in the handler's buffer
          read,    \* read[r]: the whole body, once the stream has ended
          clock,   \* clock[r]: ticks since the request was sent upstream
          idle,    \* idle[r]: no byte since the last tick
          stalled, \* stalled[r]: the client does not read the NAR now
          faults,  \* faults[r]: what others did wrong during the request
          answer   \* answer[r]: what the client got: [status, body]

vars == <<place, kind, resp, got, held, read, clock, idle, stalled, faults, answer>>

\* The upstream gave an error; let a tick pass without a byte; the client did
\* not read.
Faults == {"broke", "quiet", "stalled"}

NoAnswer == [status |-> "none", body |-> NoBody]
Waiting == {"asking", "reading", "streaming"}

TypeOK == /\ place \in [Requests -> Waiting \cup {"free", "done", "cut"}]
          /\ kind \in [Requests -> Kinds]
          /\ \A r \in Requests : resp[r] \in Responses \cup {NoBody}
          /\ got \in [Requests -> Nat]
          /\ held \in [Requests -> Nat]
          /\ clock \in [Requests -> 0..Timeout]
          /\ read \in [Requests -> Bodies \cup {NoBody}]
          /\ idle \in [Requests -> BOOLEAN]
          /\ stalled \in [Requests -> BOOLEAN]
          /\ faults \in [Requests -> SUBSET Faults]
          /\ \A r \in Requests : answer[r].status \in Statuses \cup {"none"}

Init == /\ place = [r \in Requests |-> "free"]
        /\ kind = [r \in Requests |-> "other"]
        /\ resp = [r \in Requests |-> NoBody]
        /\ got = [r \in Requests |-> 0]
        /\ held = [r \in Requests |-> 0]
        /\ read = [r \in Requests |-> NoBody]
        /\ clock = [r \in Requests |-> 0]
        /\ idle = [r \in Requests |-> FALSE]
        /\ stalled = [r \in Requests |-> FALSE]
        /\ faults = [r \in Requests |-> {}]
        /\ answer = [r \in Requests |-> NoAnswer]

-----------------------------------------------------------------------------
CapOf(k) == IF k = "narinfo" THEN MaxNarinfoBytes ELSE MaxCacheInfoBytes

Reply(r, status, body) ==
  /\ place' = [place EXCEPT ![r] = "done"]
  /\ answer' = [answer EXCEPT ![r] = [status |-> status, body |-> body]]
  /\ held' = [held EXCEPT ![r] = 0]

\* An AppError, wherever it comes from, is a 502.
BadGateway(r) == Reply(r, "bad_gateway", NoBody)

\* A request comes in: a name without ".narinfo" is answered at once, the
\* rest is sent on upstream, which starts the clock.
Accept(r, k) ==
  /\ place[r] \in {"free", "done", "cut"}
  /\ kind' = [kind EXCEPT ![r] = k]
  /\ resp' = [resp EXCEPT ![r] = NoBody]
  /\ got' = [got EXCEPT ![r] = 0]
  /\ read' = [read EXCEPT ![r] = NoBody]
  /\ clock' = [clock EXCEPT ![r] = 0]
  /\ idle' = [idle EXCEPT ![r] = FALSE]
  /\ faults' = [faults EXCEPT ![r] = {}]
  /\ UNCHANGED stalled
  /\ IF k = "other" THEN Reply(r, "not_found", NoBody)
     ELSE /\ place' = [place EXCEPT ![r] = "asking"]
          /\ answer' = [answer EXCEPT ![r] = NoAnswer]
          /\ held' = [held EXCEPT ![r] = 0]

\* The head of the response: only handle_narinfo looks at the status, and
\* handle_nar answers with it before any byte of the body.
HeadArrives(r, p) ==
  /\ place[r] = "asking"
  /\ resp' = [resp EXCEPT ![r] = p]
  /\ idle' = [idle EXCEPT ![r] = FALSE]
  /\ \/ kind[r] = "narinfo" /\ p.status # "ok" /\ Reply(r, "not_found", NoBody)
     \/ /\ kind[r] = "nar"
        /\ place' = [place EXCEPT ![r] = "streaming"]
        /\ answer' = [answer EXCEPT ![r] = [status |-> p.status, body |-> NoBody]]
        /\ UNCHANGED held
     \/ /\ kind[r] = "cache_info" \/ (kind[r] = "narinfo" /\ p.status = "ok")
        /\ place' = [place EXCEPT ![r] = "reading"]
        /\ UNCHANGED <<answer, held>>
  /\ UNCHANGED <<kind, got, read, clock, stalled, faults>>

Arrives(r, n) == /\ n \in 1..MaxChunk
                 /\ got[r] + n =< resp[r].size
                 /\ got' = [got EXCEPT ![r] = @ + n]
                 /\ idle' = [idle EXCEPT ![r] = FALSE]

\* Mutant: a body of exactly the cap's size is refused.
Buffer_CapExcluded(r, n) ==
  /\ place[r] = "reading"
  /\ Arrives(r, n)
  /\ IF held[r] + n >= CapOf(kind[r]) THEN BadGateway(r)
     ELSE held' = [held EXCEPT ![r] = @ + n] /\ UNCHANGED <<place, answer>>
  /\ UNCHANGED <<kind, resp, read, clock, stalled, faults>>

\* read_capped: a chunk is kept before the length is compared with the cap.
Buffer(r, n) ==
  /\ place[r] = "reading"
  /\ Arrives(r, n)
  /\ IF held[r] + n > CapOf(kind[r]) THEN BadGateway(r)
     ELSE held' = [held EXCEPT ![r] = @ + n] /\ UNCHANGED <<place, answer>>
  /\ UNCHANGED <<kind, resp, read, clock, stalled, faults>>

\* handle_nar's body stream passes a chunk on and keeps none.
Forward(r, n) == /\ place[r] = "streaming" /\ ~stalled[r]
                 /\ Arrives(r, n)
                 /\ UNCHANGED <<place, kind, resp, held, read, clock, stalled, faults, answer>>

Complete(r) == resp[r] # NoBody /\ got[r] = resp[r].size

\* The stream has ended and has given t: all that the upstream sends, or, if
\* only the end of the connection ends the body, what had come by then.
EndsWith(r, t) == /\ \/ Complete(r) /\ t = resp[r].body
                     \/ ~Complete(r) /\ ~resp[r].framed /\ t \in Cut[resp[r].body]
                  /\ read' = [read EXCEPT ![r] = t]
                  /\ UNCHANGED <<kind, resp, got, clock, idle, stalled, faults>>

\* Mutant: the upstream's own signature is not checked.
NarinfoEnds_Unverified(r) ==
  /\ place[r] = "reading" /\ kind[r] = "narinfo"
  /\ \E t \in Bodies :
       /\ EndsWith(r, t)
       /\ \/ t \in {NotUtf8, Malformed} /\ BadGateway(r)
          \/ t \in Docs /\ Reply(r, "ok", Vouched(t, OwnName, OwnKey))

\* The body has ended.  The handler runs to its answer without waiting again.
NarinfoEnds(r) ==
  /\ place[r] = "reading" /\ kind[r] = "narinfo"
  /\ \E t \in Bodies :
       /\ EndsWith(r, t)
       /\ \/ t \in {NotUtf8, Malformed} /\ BadGateway(r)
          \/ /\ t \in Docs
             /\ IF ClassicalOk(t, UpstreamName, UpstreamKey)
                THEN Reply(r, "ok", Vouched(t, OwnName, OwnKey))
                ELSE BadGateway(r)

CacheInfoEnds(r) ==
  /\ place[r] = "reading" /\ kind[r] = "cache_info"
  /\ \E t \in Bodies : EndsWith(r, t) /\ Reply(r, resp[r].status, t)

NarEnds(r) ==
  /\ place[r] = "streaming" /\ ~stalled[r]
  /\ \E t \in Bodies : EndsWith(r, t) /\ Reply(r, answer[r].status, t)

\* An error from the upstream connection: a 502, unless the answer is already
\* under way, which then breaks off.
UpstreamError(r) ==
  \/ place[r] \in {"asking", "reading"} /\ BadGateway(r)
  \/ /\ place[r] = "streaming"
     /\ place' = [place EXCEPT ![r] = "cut"]
     /\ UNCHANGED <<answer, held>>

\* The upstream refuses the connection, or the connection fails before the end
\* of the body: a reset, or a close that is too early for a framed body.
Breaks(r) == /\ place[r] \in Waiting /\ ~stalled[r]
             /\ ~(place[r] # "asking" /\ Complete(r))
             /\ UpstreamError(r)
             /\ faults' = [faults EXCEPT ![r] = @ \cup {"broke"}]
             /\ UNCHANGED <<kind, resp, got, read, clock, idle, stalled>>

\* A tick without a byte is the upstream's silence.
Silence(r) == IF idle[r] THEN {"quiet"} ELSE {}

\* Mutant: time goes on past the deadline.
Tick_PastDeadline(r) ==
  /\ place[r] \in Waiting
  /\ clock' = [clock EXCEPT ![r] = @ + 1]
  /\ faults' = [faults EXCEPT ![r] = @ \cup Silence(r)]
  /\ idle' = [idle EXCEPT ![r] = TRUE]
  /\ UNCHANGED <<place, kind, resp, got, held, read, stalled, answer>>

Tick(r) == /\ place[r] \in Waiting
           /\ clock[r] < Timeout
           /\ clock' = [clock EXCEPT ![r] = @ + 1]
           /\ faults' = [faults EXCEPT ![r] = @ \cup Silence(r)]
           /\ idle' = [idle EXCEPT ![r] = TRUE]
           /\ UNCHANGED <<place, kind, resp, got, held, read, stalled, answer>>

\* Mutant: a connect timeout in place of the total one.
Expires_ConnectOnly(r) ==
  /\ place[r] = "asking"
  /\ clock[r] = Timeout
  /\ UpstreamError(r)
  /\ UNCHANGED <<kind, resp, got, read, clock, idle, stalled, faults>>

\* The deadline covers the whole exchange, the body included; nobody notices it
\* while the client does not read what there is.
Expires(r) == /\ place[r] \in Waiting /\ ~stalled[r]
              /\ clock[r] = Timeout
              /\ UpstreamError(r)
              /\ UNCHANGED <<kind, resp, got, read, clock, idle, stalled, faults>>

\* The client stops reading a NAR, and goes on: in between nobody asks the
\* stream for more.
Stalls(r) == /\ place[r] = "streaming" /\ ~stalled[r]
             /\ stalled' = [stalled EXCEPT ![r] = TRUE]
             /\ faults' = [faults EXCEPT ![r] = @ \cup {"stalled"}]
             /\ UNCHANGED <<place, kind, resp, got, held, read, clock, idle, answer>>

Resumes(r) == /\ stalled[r]
              /\ stalled' = [stalled EXCEPT ![r] = FALSE]
              /\ UNCHANGED <<place, kind, resp, got, held, read, clock, idle, faults, answer>>

\* The client goes away; the handler's future is dropped.
Hangup(r) == /\ place[r] \in Waiting
             /\ place' = [place EXCEPT ![r] = "free"]
             /\ answer' = [answer EXCEPT ![r] = NoAnswer]
             /\ held' = [held EXCEPT ![r] = 0]
             /\ stalled' = [stalled EXCEPT ![r] = FALSE]
             /\ UNCHANGED <<kind, resp, got, read, clock, idle, faults>>

Upstream(r) == \/ \E p \in Responses : HeadArrives(r, p)
               \/ \E n \in 1..MaxChunk : Buffer(r, n) \/ Forward(r, n)
               \/ NarinfoEnds(r) \/ CacheInfoEnds(r) \/ NarEnds(r)

Next == \E r \in Requests :
          \/ \E k \in Kinds : Accept(r, k)
          \/ Upstream(r) \/ Breaks(r) \/ Tick(r) \/ Expires(r)
          \/ Stalls(r) \/ Resumes(r) \/ Hangup(r)

\* Time passes and deadlines are kept; nothing is assumed of the upstream.
Spec == /\ Init /\ [][Next]_vars
        /\ \A r \in Requests : WF_vars(Tick(r)) /\ WF_vars(Expires(r))

-----------------------------------------------------------------------------
IsPrefixOf(a, b) == Len(a) =< Len(b) /\ SubSeq(b, 1, Len(a)) = a

\* The proxy puts its signatures only on what it read to the end of the stream,
\* within the cap, with a line that verifies for the upstream key: all that the
\* upstream sends if the body is framed, and otherwise at least what the
\* upstream's own signature covers.  It vouches for the same path with all the
\* lines it read, and a client that trusts the proxy's key alone accepts the
\* answer (unless the upstream used up the candidates of that name).
Vouches(r) == kind[r] = "narinfo" /\ answer[r].status = "ok"
VouchesOnlyForVerified == \A r \in Requests : Vouches(r) =>
  LET doc == read[r]
      out == answer[r].body
  IN  /\ doc \in Docs
      /\ \/ Complete(r) /\ doc = resp[r].body
         \/ ~resp[r].framed /\ doc \in Cut[resp[r].body]
      /\ got[r] =< MaxNarinfoBytes
      /\ ClassicalOk(doc, UpstreamName, UpstreamKey)
      /\ out.print = doc.print
      /\ IsPrefixOf(doc.sigs, out.sigs) /\ IsPrefixOf(doc.sig_pqc, out.sig_pqc)
      /\ ClassicalOk(out, OwnName, OwnKey)
      /\ UnderCap(out, OwnName) => VerifyHybrid(out, OwnName, OwnKey)

\* Each refusal has a cause the upstream is responsible for, and a mere pause is
\* none: a document of exactly the cap's size that verifies and arrives in time
\* is served.
RefusesWithCause == \A r \in Requests :
  place[r] = "done" /\ answer[r].status = "bad_gateway" /\ kind[r] = "narinfo" =>
    \/ "broke" \in faults[r] \/ clock[r] = Timeout
    \/ resp[r].size > MaxNarinfoBytes
    \/ read[r] \in {NotUtf8, Malformed}
    \/ read[r] \in Docs /\ ~ClassicalOk(read[r], UpstreamName, UpstreamKey)

\* "Without a timeout a hung or slow upstream would leave a request stuck":
\* with it, every request comes to an end, whatever the upstream does, unless
\* the client itself stops reading what it asked for.
EveryRequestEnds ==
  \A r \in Requests : place[r] \in Waiting ~> place[r] \notin Waiting \/ stalled[r]

\* What "stream chunks straight from upstream", "gigabytes" and all, asks: a
\* NAR breaks off only if the upstream broke off or went quiet, or the client
\* did not read.
NarCutOnlyByUpstream == \A r \in Requests :
  place[r] = "cut" => faults[r] # {} \/ Complete(r)
=============================================================================
