----------------------------- MODULE ProxyProofs -----------------------------
(***************************************************************************)
(* Proofs about Proxy: for any number of requests and whatever the         *)
(* upstream sends, the proxy vouches only for a document within the cap,   *)
(* read to the end of its stream, that verifies for the upstream key, and  *)
(* refuses a narinfo only for a cause on the upstream's side.  Neither is inductive: ReqInv says  *)
(* what the handler knows at each place it waits, above all that its       *)
(* buffer holds all that has arrived and never more than the cap.          *)
(***************************************************************************)
EXTENDS Proxy, SignatureProofs

\* What was true of the document when the handler signed it.
VouchedFor(r) == /\ read[r] \in Docs
                 /\ \/ Complete(r) /\ read[r] = resp[r].body
                    \/ ~resp[r].framed /\ read[r] \in Cut[resp[r].body]
                 /\ got[r] =< MaxNarinfoBytes
                 /\ ClassicalOk(read[r], UpstreamName, UpstreamKey)
                 /\ answer[r].body = Vouched(read[r], OwnName, OwnKey)

Excused(r) == \/ "broke" \in faults[r] \/ clock[r] = Timeout
              \/ resp[r].size > MaxNarinfoBytes
              \/ read[r] \in {NotUtf8, Malformed}
              \/ read[r] \in Docs /\ ~ClassicalOk(read[r], UpstreamName, UpstreamKey)

Refused(r) == place[r] = "done" /\ answer[r].status = "bad_gateway" /\ kind[r] = "narinfo"

\* What the handler of r knows at each of its places.
ReqInv(r) ==
  /\ place[r] = "asking" => got[r] = 0 /\ held[r] = 0
  /\ place[r] \in {"reading", "streaming"} => resp[r] \in Responses
  /\ place[r] = "reading" => kind[r] # "nar" /\ held[r] = got[r] /\ held[r] =< CapOf(kind[r])
  /\ place[r] \in {"streaming", "cut"} => kind[r] = "nar"
  /\ kind[r] = "narinfo" /\ place[r] # "done" => answer[r].status = "none"
  /\ Vouches(r) => VouchedFor(r)
  /\ Refused(r) => Excused(r)

\* TypeOK looks at the entries of these two only.
Shape == DOMAIN resp = Requests /\ DOMAIN answer = Requests

PInv == Shape /\ TypeOK /\ \A r \in Requests : ReqInv(r)

\* The invariant holds at the start.
LEMMA InitPInv == Init => PInv
BY ProxyOK DEF Init, PInv, Shape, TypeOK, ReqInv, Waiting, Kinds, NoAnswer, Vouches, Refused, Statuses

\* The steps of the handler of r and of what happens to it.
ReqStep(r) == \/ \E k \in Kinds : Accept(r, k)
              \/ Upstream(r) \/ Breaks(r) \/ Tick(r) \/ Expires(r)
              \/ Stalls(r) \/ Resumes(r) \/ Hangup(r)

\* They leave the other requests alone.
LEMMA OthersUntouched ==
  ASSUME PInv, NEW r \in Requests, ReqStep(r)
  PROVE  /\ Shape'
         /\ \A q \in Requests : q # r =>
              /\ place'[q] = place[q] /\ kind'[q] = kind[q] /\ resp'[q] = resp[q]
              /\ got'[q] = got[q] /\ held'[q] = held[q] /\ read'[q] = read[q]
              /\ clock'[q] = clock[q] /\ idle'[q] = idle[q] /\ stalled'[q] = stalled[q]
              /\ faults'[q] = faults[q] /\ answer'[q] = answer[q]
<1> USE DEF PInv, TypeOK, Shape, BadGateway, Reply
<1>1. CASE \E k \in Kinds : Accept(r, k)
  BY <1>1 DEF Accept
<1>2. CASE \E p \in Responses : HeadArrives(r, p)
  BY <1>2 DEF HeadArrives
<1>3. CASE \E n \in 1 .. MaxChunk : Buffer(r, n)
  BY <1>3 DEF Buffer, Arrives
<1>4. CASE \E n \in 1 .. MaxChunk : Forward(r, n)
  BY <1>4 DEF Forward, Arrives
<1>5. CASE NarinfoEnds(r)
  BY <1>5 DEF NarinfoEnds, EndsWith
<1>6. CASE CacheInfoEnds(r) \/ NarEnds(r)
  BY <1>6 DEF CacheInfoEnds, NarEnds, EndsWith
<1>7. CASE Breaks(r) \/ Expires(r)
  BY <1>7 DEF Breaks, Expires, UpstreamError
<1>8. CASE Tick(r) \/ Hangup(r)
  BY <1>8 DEF Tick, Hangup
<1>9. CASE Stalls(r) \/ Resumes(r)
  BY <1>9 DEF Stalls, Resumes
<1> QED
  BY <1>1, <1>2, <1>3, <1>4, <1>5, <1>6, <1>7, <1>8, <1>9 DEF ReqStep, Upstream

\* Every step keeps the declared shape.
LEMMA StepTyped == ASSUME PInv, NEW r \in Requests, ReqStep(r) PROVE TypeOK'
<1> USE ProxyOK DEF PInv, TypeOK, Shape, BadGateway, Reply, Waiting, Statuses, NoAnswer
<1>1. CASE \E k \in Kinds : Accept(r, k)
  <2>1. PICK k \in Kinds : Accept(r, k)
    BY <1>1
  <2>2. /\ kind' \in [Requests -> Kinds]
        /\ \A q \in Requests : resp'[q] \in Responses \cup {NoBody}
        /\ got' \in [Requests -> Nat] /\ clock' \in [Requests -> 0 .. Timeout]
        /\ idle' \in [Requests -> BOOLEAN] /\ stalled' \in [Requests -> BOOLEAN]
        /\ faults' \in [Requests -> SUBSET Faults]
        /\ read' \in [Requests -> Bodies \cup {NoBody}]
    BY <2>1 DEF Accept
  <2>3. /\ place' \in [Requests -> Waiting \cup {"free", "done", "cut"}]
        /\ held' \in [Requests -> Nat]
    BY <2>1 DEF Accept
  <2>4. \A q \in Requests : answer'[q].status \in Statuses \cup {"none"}
    BY <2>1 DEF Accept
  <2> QED
    BY <2>2, <2>3, <2>4
<1>2. CASE \E p \in Responses : HeadArrives(r, p)
  <2>1. PICK p \in Responses : HeadArrives(r, p)
    BY <1>2
  <2>2. /\ UNCHANGED <<kind, got, read, clock, stalled, faults>>
        /\ idle' \in [Requests -> BOOLEAN]
    BY <2>1 DEF HeadArrives
  <2>3. \A q \in Requests : resp'[q] \in Responses \cup {NoBody}
    BY <2>1 DEF HeadArrives
  <2>4. /\ place' \in [Requests -> Waiting \cup {"free", "done", "cut"}]
        /\ held' \in [Requests -> Nat]
    BY <2>1 DEF HeadArrives
  <2>5. \A q \in Requests : answer'[q].status \in Statuses \cup {"none"}
    BY <2>1 DEF HeadArrives, Responses
  <2> QED
    BY <2>2, <2>3, <2>4, <2>5
<1>3. CASE \E n \in 1 .. MaxChunk : Buffer(r, n)
  BY <1>3 DEF Buffer, Arrives
<1>4. CASE \E n \in 1 .. MaxChunk : Forward(r, n)
  BY <1>4 DEF Forward, Arrives
<1>5. CASE NarinfoEnds(r)
  <2>1. PICK t \in Bodies : /\ EndsWith(r, t)
                            /\ \/ BadGateway(r)
                               \/ Reply(r, "ok", Vouched(t, OwnName, OwnKey))
    BY <1>5 DEF NarinfoEnds
  <2>2. /\ read' \in [Requests -> Bodies \cup {NoBody}]
        /\ UNCHANGED <<kind, resp, got, clock, idle, stalled, faults>>
    BY <2>1 DEF EndsWith
  <2> QED
    BY <2>1, <2>2
<1>6. CASE CacheInfoEnds(r) \/ NarEnds(r)
  <2>1. PICK t \in Bodies : /\ EndsWith(r, t)
                            /\ \/ place[r] = "reading" /\ Reply(r, resp[r].status, t)
                               \/ Reply(r, answer[r].status, t)
    BY <1>6 DEF CacheInfoEnds, NarEnds
  <2>2. /\ read' \in [Requests -> Bodies \cup {NoBody}]
        /\ UNCHANGED <<kind, resp, got, clock, idle, stalled, faults>>
    BY <2>1 DEF EndsWith
  <2>3. place[r] = "reading" => resp[r].status \in Statuses
    BY DEF ReqInv, Responses
  <2> QED
    BY <2>1, <2>2, <2>3
<1>7. CASE Breaks(r) \/ Expires(r)
  <2>1. UpstreamError(r) /\ UNCHANGED <<kind, resp, got, read, clock, idle, stalled>>
    BY <1>7 DEF Breaks, Expires
  <2>2. faults' \in [Requests -> SUBSET Faults]
    BY <1>7 DEF Breaks, Expires, Faults
  <2> QED
    BY <2>1, <2>2 DEF UpstreamError
<1>8. CASE Tick(r) \/ Hangup(r)
  <2>1. CASE Tick(r)
    <3>1. faults' \in [Requests -> SUBSET Faults]
      BY <2>1 DEF Tick, Silence, Faults
    <3>2. clock' \in [Requests -> 0 .. Timeout] /\ idle' \in [Requests -> BOOLEAN]
      BY <2>1 DEF Tick
    <3> QED
      BY <2>1, <3>1, <3>2 DEF Tick
  <2>2. CASE Hangup(r)
    BY <2>2 DEF Hangup
  <2> QED
    BY <1>8, <2>1, <2>2
<1>9. CASE Stalls(r) \/ Resumes(r)
  <2>1. faults' \in [Requests -> SUBSET Faults]
    <3>1. faults[r] \cup {"stalled"} \in SUBSET Faults
      BY DEF Faults
    <3> QED
      BY <1>9, <3>1 DEF Stalls, Resumes
  <2>2. stalled' \in [Requests -> BOOLEAN]
    BY <1>9 DEF Stalls, Resumes
  <2> QED
    BY <1>9, <2>1, <2>2 DEF Stalls, Resumes
<1> QED
  BY <1>1, <1>2, <1>3, <1>4, <1>5, <1>6, <1>7, <1>8, <1>9 DEF ReqStep, Upstream

\* Every step of a request keeps what its handler knows.
LEMMA StepReqInv == ASSUME PInv, NEW r \in Requests, ReqStep(r) PROVE ReqInv(r)'
<1>0. Shape' /\ TypeOK'
  BY OthersUntouched, StepTyped
<1> USE ProxyOK DEF PInv, TypeOK, Shape, ReqInv, BadGateway, Reply, Waiting, Statuses, NoAnswer, Vouches, Refused
<1>1. CASE \E k \in Kinds : Accept(r, k)
  BY <1>1 DEF Accept
<1>2. CASE \E p \in Responses : HeadArrives(r, p)
  BY <1>2 DEF HeadArrives, Responses, CapOf
<1>3. CASE \E n \in 1 .. MaxChunk : Buffer(r, n)
  <2>1. PICK n \in 1 .. MaxChunk : Buffer(r, n)
    BY <1>3
  <2>2. /\ n \in Nat /\ got[r] \in Nat /\ held[r] = got[r] /\ kind[r] # "nar"
        /\ resp[r] \in Responses /\ resp[r].size \in Nat
        /\ got[r] + n =< resp[r].size
    <3>1. place[r] = "reading" /\ got[r] + n =< resp[r].size
      BY <2>1 DEF Buffer, Arrives
    <3>2. resp[r] \in Responses /\ held[r] = got[r] /\ kind[r] # "nar"
      BY <3>1
    <3>3. resp[r].size \in Nat
      BY <3>2 DEF Responses
    <3> QED
      BY <3>1, <3>2, <3>3
  <2>3. CASE held[r] + n > CapOf(kind[r])
    <3>1. kind[r] = "narinfo" => resp[r].size > MaxNarinfoBytes
      BY <2>2, <2>3 DEF CapOf
    <3> QED
      BY <2>1, <2>3, <3>1 DEF Buffer, Excused
  <2>4. CASE ~(held[r] + n > CapOf(kind[r]))
    <3>1. /\ got'[r] = held'[r] /\ held'[r] =< CapOf(kind[r])
          /\ UNCHANGED <<place, kind, resp, read, clock, faults, answer>>
      BY <2>1, <2>2, <2>4 DEF Buffer, Arrives, CapOf
    <3> QED
      BY <2>1, <2>2, <3>1 DEF Buffer, CapOf
  <2> QED
    BY <2>3, <2>4
<1>4. CASE \E n \in 1 .. MaxChunk : Forward(r, n)
  BY <1>4 DEF Forward, Arrives
<1>5. CASE NarinfoEnds(r)
  <2>1. PICK t \in Bodies :
          /\ EndsWith(r, t)
          /\ \/ t \in {NotUtf8, Malformed} /\ BadGateway(r)
             \/ /\ t \in Docs
                /\ IF ClassicalOk(t, UpstreamName, UpstreamKey)
                   THEN Reply(r, "ok", Vouched(t, OwnName, OwnKey))
                   ELSE BadGateway(r)
    BY <1>5 DEF NarinfoEnds
  <2>2. /\ read'[r] = t /\ UNCHANGED <<kind, resp, got, clock, idle, stalled, faults>>
        /\ \/ Complete(r)' /\ t = resp'[r].body
           \/ ~resp'[r].framed /\ t \in Cut[resp'[r].body]
    BY <2>1 DEF EndsWith, Complete
  <2>3. got[r] \in Nat /\ got[r] =< MaxNarinfoBytes
    BY <1>5 DEF NarinfoEnds, CapOf
  <2>4. place'[r] = "done"
    BY <2>1
  <2>5. CASE t \in {NotUtf8, Malformed} /\ BadGateway(r)
    <3>1. Excused(r)' /\ answer'[r].status = "bad_gateway"
      BY <2>2, <2>5 DEF Excused
    <3> QED
      BY <2>2, <2>4, <3>1
  <2>6. CASE t \in Docs /\ ClassicalOk(t, UpstreamName, UpstreamKey)
    <3>1. Reply(r, "ok", Vouched(t, OwnName, OwnKey))
      BY <2>1, <2>6
    <3>2. VouchedFor(r)' /\ answer'[r].status = "ok"
      BY <2>2, <2>3, <2>6, <3>1 DEF VouchedFor
    <3> QED
      BY <2>2, <2>4, <3>2
  <2>7. CASE t \in Docs /\ ~ClassicalOk(t, UpstreamName, UpstreamKey) /\ BadGateway(r)
    <3>1. Excused(r)' /\ answer'[r].status = "bad_gateway"
      BY <2>2, <2>7 DEF Excused
    <3> QED
      BY <2>2, <2>4, <3>1
  <2> QED
    BY <2>1, <2>5, <2>6, <2>7
<1>6. CASE CacheInfoEnds(r) \/ NarEnds(r)
  BY <1>6 DEF CacheInfoEnds, NarEnds, EndsWith
<1>7. CASE Breaks(r) \/ Expires(r)
  BY <1>7 DEF Breaks, Expires, UpstreamError, Excused
<1>8. CASE Tick(r) \/ Hangup(r)
  BY <1>8 DEF Tick, Hangup
<1>9. CASE Stalls(r) \/ Resumes(r)
  <2>1. /\ UNCHANGED <<place, kind, resp, got, held, read, clock, answer>>
        /\ faults[r] \subseteq faults'[r]
    BY <1>9 DEF Stalls, Resumes
  <2>2. VouchedFor(r) => VouchedFor(r)'
    BY <2>1 DEF VouchedFor, Complete
  <2>3. Excused(r) => Excused(r)'
    BY <2>1 DEF Excused
  <2> QED
    BY <2>1, <2>2, <2>3
<1> QED
  BY <1>1, <1>2, <1>3, <1>4, <1>5, <1>6, <1>7, <1>8, <1>9 DEF ReqStep, Upstream

\* All requests and all steps together.
LEMMA StepPInv == PInv /\ [Next]_vars => PInv'
<1> SUFFICES ASSUME PInv, [Next]_vars PROVE PInv'
  OBVIOUS
<1>1. CASE UNCHANGED vars
  BY <1>1 DEF vars, PInv, Shape, TypeOK, ReqInv, Vouches, VouchedFor, Complete, Refused, Excused
<1>2. ASSUME NEW r \in Requests, ReqStep(r) PROVE PInv'
  <2>1. ASSUME NEW q \in Requests, q # r PROVE ReqInv(q)'
    <3>1. ReqInv(q)
      BY DEF PInv
    <3> QED
      BY <1>2, <2>1, <3>1, OthersUntouched
         DEF ReqInv, Vouches, VouchedFor, Complete, Refused, Excused
  <2> QED
    BY <1>2, <2>1, OthersUntouched, StepTyped, StepReqInv DEF PInv
<1> QED
  BY <1>1, <1>2 DEF Next, ReqStep

\* The strengthened invariant.
LEMMA Invariant == Spec => []PInv
BY InitPInv, StepPInv, PTL DEF Spec

\* The state keeps its declared shape.
THEOREM TypeTheorem == Spec => []TypeOK
<1>1. PInv => TypeOK
  BY DEF PInv
<1> QED
  BY <1>1, Invariant, PTL

\* For any documents, keys, caps and ways to cut a body: a narinfo the proxy
\* answers was read to the end of its stream, within the cap, with a line that
\* verifies for the upstream key; if the body is framed that is all of it.  The
\* answer keeps the path and all lines, and the proxy's own pair verifies in it.
THEOREM VouchTheorem == Spec => []VouchesOnlyForVerified
<1>1. ASSUME PInv, NEW r \in Requests, Vouches(r)
      PROVE  LET doc == read[r]
                 out == answer[r].body
             IN  /\ doc \in Docs
                 /\ \/ Complete(r) /\ doc = resp[r].body
                    \/ ~resp[r].framed /\ doc \in Cut[resp[r].body]
                 /\ got[r] =< MaxNarinfoBytes
                 /\ ClassicalOk(doc, UpstreamName, UpstreamKey)
                 /\ out.print = doc.print
                 /\ IsPrefixOf(doc.sigs, out.sigs) /\ IsPrefixOf(doc.sig_pqc, out.sig_pqc)
                 /\ ClassicalOk(out, OwnName, OwnKey)
                 /\ UnderCap(out, OwnName) => VerifyHybrid(out, OwnName, OwnKey)
  <2>1. VouchedFor(r)
    BY <1>1 DEF PInv, ReqInv
  <2>2. read[r] \in NarInfos /\ OwnName \in Names /\ OwnKey \in Keys
    BY <2>1, ProxyOK DEF VouchedFor
  <2> QED
    BY <2>1, <2>2, VouchedVerifies DEF VouchedFor, IsPrefixOf
<1>2. PInv => VouchesOnlyForVerified
  BY <1>1 DEF VouchesOnlyForVerified
<1> QED
  BY <1>2, Invariant, PTL

\* A narinfo that arrives in time, without an error, within the cap (its last
\* byte included) and with a line that verifies is never answered with a 502,
\* with whatever pauses it comes.
THEOREM RefusalTheorem == Spec => []RefusesWithCause
<1>1. PInv => RefusesWithCause
  BY DEF PInv, ReqInv, RefusesWithCause, Refused, Excused
<1> QED
  BY <1>1, Invariant, PTL
=============================================================================
