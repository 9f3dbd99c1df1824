-------------------------- MODULE StreamMuxProofs --------------------------
(***************************************************************************)
(* Proofs about StreamMux for any number of requests and tunnels, without  *)
(* the raw streams: their inner dispatchers do send into streams of        *)
(* others, as a run of the model checker shows.                            *)
(***************************************************************************)
EXTENDS StreamMux, FiniteSetTheorems, TLAPS

Current == {r \in Reqs : req[r].ep = epoch}

\* Streams of the current tunnel have ids of their own; an older request has
\* none that the tunnel knows.
IdsInv ==
    /\ nextId = Cardinality(Current) + 1
    /\ \A r \in Reqs :
          /\ req[r].ep <= epoch
          /\ req[r].ep = epoch => req[r].id < nextId
          /\ req[r].cl = "idle" <=> req[r].ep = 0
          /\ req[r].cl = "idle" => up[r] = "none" /\ req[r].seen = "none"
          /\ req[r].hh <=> req[r].cl = "active"
          /\ req[r].kind # "raw"
    /\ \A r, s \in Current : req[r].id = req[s].id => r = s

\* What is on its way goes down with the tunnel.
LinkInv == link # "up" => toG = <<>> /\ toH = <<>>

TableOf(k) == IF k = "post" THEN "gated" ELSE k

\* An entry belongs to a request of the current tunnel and leads to an upstream
\* that works for it, except that a gated request has none yet.
TablesInv ==
    \A i \in Ids :
        /\ tab[i].r = None => tab[i].tab = "none"
        /\ tab[i].r # None =>
              /\ tab[i].r \in Current /\ link # "down"
              /\ req[tab[i].r].id = i
              /\ tab[i].tab = TableOf(req[tab[i].r].kind)
              /\ IF req[tab[i].r].kind = "post" THEN up[tab[i].r] = "none"
                 ELSE up[tab[i].r] \in Live

\* An OPEN comes before everything else of its request, when nothing has been
\* done for it yet.
ToGatewayInv ==
    \A k \in 1..Len(toG) :
        /\ toG[k].r \in Current
        /\ toG[k].t = "OPEN" =>
              /\ up[toG[k].r] = "none" /\ ~InTables(toG[k].r)
              /\ \A j \in 1..Len(toG) : toG[j].r = toG[k].r => k <= j
        /\ toG[k].t = "CLOSE0" => req[toG[k].r].kind \in {"http", "post"}
        /\ toG[k].t = "CLOSE1" => req[toG[k].r].cl # "active"

\* Who has gone is forgotten, or the frame that does it is on its way.
Opening(r) == \E k \in 1..Len(toG) : toG[k].r = r /\ toG[k].t = "OPEN"
Aborting(r) == \E k \in 1..Len(toG) : toG[k].r = r /\ toG[k].t = "CLOSE1"

GoneInv ==
    \A r \in Current :
        req[r].cl \in {"gone", "closed"} /\ link = "up"
            => Aborting(r) \/ (~InTables(r) /\ ~Opening(r))

\* Every frame towards the hub names the stream of the request whose upstream
\* produced it.
ToHubInv ==
    \A k \in 1..Len(toH) :
        toH[k].from \in Current /\ toH[k].id = req[toH[k].from].id

\* A response whose upstream was not stopped and did not break off before its
\* head: it never closes without a head.
HeadSent(q, r, n) == \E j \in 1..n : q[j].from = r /\ q[j].t = "OPEN"

Answering(r) == req[r].kind = "http" /\ up[r] \notin {"destroyed", "cut"}

AnswerInv ==
    \A r \in Reqs : Answering(r) =>
        /\ req[r].seen = "ok" => req[r].head
        /\ r \in Current /\ link = "up" /\ req[r].hh /\ ~req[r].head =>
              /\ up[r] = "streaming" => HeadSent(toH, r, Len(toH))
              /\ \A k \in 1..Len(toH) :
                    toH[k].from = r /\ toH[k].t = "CLOSE" => HeadSent(toH, r, k)

MuxInv ==
    /\ TypeOK /\ IdsInv /\ LinkInv /\ TablesInv /\ ToGatewayInv /\ GoneInv
    /\ ToHubInv /\ NoOrphanUpstream /\ KeptWhileWanted /\ AnswerInv

-----------------------------------------------------------------------------
(* Sequences of frames                                                     *)

FrameG == [t: {"OPEN", "DATA", "CLOSE0", "CLOSE1"}, r: Reqs]
FrameH == [t: {"OPEN", "DATA", "CLOSE", "ERROR"}, id: Ids, from: Reqs]

LEMMA TailFacts ==
    ASSUME NEW S, NEW s \in Seq(S), s # <<>>
    PROVE  /\ Head(s) = s[1] /\ Len(s) >= 1 /\ Len(s) \in Nat
           /\ Tail(s) \in Seq(S) /\ Len(Tail(s)) = Len(s) - 1
           /\ \A k \in 1..Len(Tail(s)) : k + 1 \in 1..Len(s) /\ Tail(s)[k] = s[k + 1]
           /\ \A k \in 1..Len(s) : k # 1 => k - 1 \in 1..Len(Tail(s))
                                          /\ Tail(s)[k - 1] = s[k]
  OBVIOUS

LEMMA AppendFacts ==
    ASSUME NEW S, NEW s \in Seq(S), NEW e \in S
    PROVE  /\ Append(s, e) \in Seq(S) /\ Len(Append(s, e)) = Len(s) + 1 /\ Len(s) \in Nat
           /\ \A k \in 1..Len(s) : k \in 1..Len(Append(s, e)) /\ Append(s, e)[k] = s[k]
           /\ Append(s, e)[Len(s) + 1] = e
  OBVIOUS

LEMMA ConcatFacts ==
    ASSUME NEW S, NEW s \in Seq(S), NEW u \in Seq(S)
    PROVE  /\ s \o u \in Seq(S) /\ Len(s \o u) = Len(s) + Len(u)
           /\ Len(s) \in Nat /\ Len(u) \in Nat
           /\ \A k \in 1..Len(s) : k \in 1..Len(s \o u) /\ (s \o u)[k] = s[k]
           /\ \A k \in 1..Len(s \o u) : k \notin 1..Len(s)
                 => k - Len(s) \in 1..Len(u) /\ (s \o u)[k] = u[k - Len(s)]
           /\ \A j \in 1..Len(u) : Len(s) + j \in 1..Len(s \o u)
                 /\ (s \o u)[Len(s) + j] = u[j]
  OBVIOUS

LEMMA FrameTypes ==
    ASSUME TypeOK
    PROVE  /\ toG \in Seq(FrameG) /\ toH \in Seq(FrameH)
           /\ Len(toG) \in Nat /\ Len(toH) \in Nat
           /\ \A k \in 1..Len(toG) : toG[k] \in FrameG /\ toG[k].r \in Reqs
           /\ \A k \in 1..Len(toH) : toH[k] \in FrameH /\ toH[k].from \in Reqs
                                     /\ toH[k].id \in Ids
<1>1. toG \in Seq(FrameG) /\ toH \in Seq(FrameH)
  BY DEF TypeOK, FrameG, FrameH
<1>2. \A f \in FrameG : f.r \in Reqs
  BY DEF FrameG
<1>3. \A f \in FrameH : f.from \in Reqs /\ f.id \in Ids
  BY DEF FrameH
<1>4. QED
  BY <1>1, <1>2, <1>3

-----------------------------------------------------------------------------
(* The hub's side                                                          *)

\* What the hub may do to its requests: no stream changes its name, and what
\* has ended stays so.
Goes(s) ==
    /\ req'[s] \in ReqRec
    /\ req'[s].ep = req[s].ep /\ req'[s].id = req[s].id /\ req'[s].kind = req[s].kind
    /\ req'[s].cl = "idle" <=> req[s].cl = "idle"
    /\ req'[s].hh <=> req'[s].cl = "active"
    /\ req'[s].cl = "active" => req[s].cl = "active"
    /\ req[s].cl = "idle" => req'[s] = req[s]

\* What it sends on a stream.
Tells(r, t) ==
    /\ t \in {"DATA", "CLOSE0", "CLOSE1"}
    /\ t = "CLOSE0" => req[r].kind \in {"http", "post"}
    /\ t = "CLOSE1" => req'[r].cl # "active"
    /\ toG' = IF link = "up" /\ r \in Current THEN Append(toG, Frame(t, r)) ELSE toG

\* Who goes has told the gateway.
GoesTelling(s) == req'[s].cl \in {"gone", "closed"} /\ req[s].cl \notin {"gone", "closed"}
                      => Tells(s, "CLOSE1")

LEMMA TellsFacts ==
    ASSUME MuxInv, NEW r \in Reqs, NEW t, Tells(r, t)
    PROVE  /\ toG' \in Seq(FrameG) /\ Len(toG) \in Nat /\ Len(toG') \in Nat
           /\ \A k \in 1..Len(toG) : k \in 1..Len(toG') /\ toG'[k] = toG[k]
           /\ \A k \in 1..Len(toG') : k \notin 1..Len(toG)
                 => /\ toG'[k].r = r /\ toG'[k].t = t /\ k = Len(toG) + 1
                    /\ r \in Current /\ link = "up"
           /\ link = "up" /\ r \in Current
                 => \E k \in 1..Len(toG') : toG'[k].r = r /\ toG'[k].t = t
<1>1. toG \in Seq(FrameG) /\ Frame(t, r) \in FrameG
  BY FrameTypes DEF MuxInv, Tells, Frame, FrameG
<1>2. Frame(t, r).r = r /\ Frame(t, r).t = t
  BY DEF Frame
<1>3. CASE link = "up" /\ r \in Current
  <2>1. toG' = Append(toG, Frame(t, r))
    BY <1>3 DEF Tells
  <2>2. Len(toG) + 1 \in 1..Len(toG')
    BY <1>1, <2>1, AppendFacts
  <2>3. QED
    BY <1>1, <1>2, <1>3, <2>1, <2>2, AppendFacts
<1>4. CASE ~(link = "up" /\ r \in Current)
  BY <1>1, <1>4 DEF Tells
<1>5. QED
  BY <1>3, <1>4

LEMMA HubKeeps ==
    ASSUME MuxInv, UNCHANGED <<epoch, link, hubOn, nextId, tab, up, inner>>,
           req' \in [Reqs -> ReqRec], \A s \in Reqs : Goes(s) /\ GoesTelling(s),
           toG' = toG \/ \E r \in Reqs, t \in {"DATA", "CLOSE0", "CLOSE1"} : Tells(r, t),
           toH' = toH \/ (toH # <<>> /\ toH' = Tail(toH))
    PROVE  TypeOK' /\ IdsInv' /\ LinkInv' /\ TablesInv' /\ ToGatewayInv' /\ GoneInv'
           /\ ToHubInv' /\ NoOrphanUpstream' /\ KeptWhileWanted'
<1>1. toH' \in Seq(FrameH) /\ \A k \in 1..Len(toH') : \E j \in 1..Len(toH) : toH'[k] = toH[j]
  <2>1. toH \in Seq(FrameH) /\ Len(toH) \in Nat
    BY FrameTypes DEF MuxInv
  <2>2. CASE toH # <<>> /\ toH' = Tail(toH)
    <3>1. toH' \in Seq(FrameH)
      BY <2>1, <2>2, TailFacts
    <3>2. \A k \in 1..Len(toH') : k + 1 \in 1..Len(toH) /\ toH'[k] = toH[k + 1]
      BY <2>1, <2>2, TailFacts
    <3>3. QED
      BY <3>1, <3>2
  <2>3. QED
    BY <2>1, <2>2
<1>2. Current' = Current
  BY DEF Current, Goes
<1>3. TypeOK'
  BY <1>1, TellsFacts DEF MuxInv, TypeOK, FrameG, FrameH
<1>4. IdsInv'
  <2>1. Current \subseteq Reqs
    BY DEF Current
  <2>2. QED
    BY <1>2, <2>1 DEF MuxInv, IdsInv, Goes
<1>5. LinkInv'
  BY DEF MuxInv, LinkInv, Tells
<1>6. TablesInv'
  BY <1>2 DEF MuxInv, TablesInv, Goes, TypeOK
<1>7. \A r \in Reqs : InTables(r)' <=> InTables(r)
  BY DEF InTables
<1>8. ToGatewayInv'
  <2>1. CASE toG' = toG
    BY <1>2, <1>7, <2>1, FrameTypes DEF MuxInv, ToGatewayInv, Goes, FrameG
  <2>2. ASSUME NEW r \in Reqs, NEW t \in {"DATA", "CLOSE0", "CLOSE1"}, Tells(r, t)
        PROVE  ToGatewayInv'
    <3>1. ASSUME NEW k \in 1..Len(toG'), k \in 1..Len(toG)
          PROVE  /\ toG[k].r \in Current'
                 /\ toG[k].t = "OPEN" =>
                      /\ up'[toG[k].r] = "none" /\ ~InTables(toG[k].r)'
                      /\ \A j \in 1..Len(toG') : toG'[j].r = toG[k].r => k <= j
                 /\ toG[k].t = "CLOSE0" => req'[toG[k].r].kind \in {"http", "post"}
                 /\ toG[k].t = "CLOSE1" => req'[toG[k].r].cl # "active"
      <4>1. toG[k].r \in Reqs
        BY <3>1, FrameTypes DEF MuxInv, FrameG
      <4>2. \A j \in 1..Len(toG') : j \notin 1..Len(toG) => k <= j
        BY <2>2, <3>1, TellsFacts
      <4>3. QED
        BY <1>2, <1>7, <2>2, <3>1, <4>1, <4>2, TellsFacts DEF MuxInv, ToGatewayInv, Goes
    <3>2. ASSUME NEW k \in 1..Len(toG'), k \notin 1..Len(toG)
          PROVE  /\ toG'[k].r \in Current'
                 /\ toG'[k].t # "OPEN"
                 /\ toG'[k].t = "CLOSE0" => req'[toG'[k].r].kind \in {"http", "post"}
                 /\ toG'[k].t = "CLOSE1" => req'[toG'[k].r].cl # "active"
      BY <1>2, <2>2, <3>2, TellsFacts DEF Tells, Goes
    <3>3. \A k \in 1..Len(toG) : k \in 1..Len(toG') => toG'[k] = toG[k]
      BY <2>2, TellsFacts
    <3>4. QED
      BY <3>1, <3>2, <3>3 DEF ToGatewayInv
  <2>3. QED
    BY <2>1, <2>2
<1>9. GoneInv'
  <2> SUFFICES ASSUME NEW s \in Current', req'[s].cl \in {"gone", "closed"}, link' = "up"
               PROVE  Aborting(s)' \/ (~InTables(s)' /\ ~Opening(s)')
    BY DEF GoneInv
  <2>1. s \in Current /\ s \in Reqs /\ link = "up"
    BY <1>2 DEF Current
  <2>2. CASE req[s].cl \notin {"gone", "closed"}
    <3>1. Tells(s, "CLOSE1")
      BY <2>1, <2>2 DEF GoesTelling
    <3>2. Aborting(s)'
      BY <2>1, <3>1, TellsFacts DEF Aborting
    <3>3. QED
      BY <3>2
  <2>3. CASE req[s].cl \in {"gone", "closed"}
    <3>1. Aborting(s) \/ (~InTables(s) /\ ~Opening(s))
      BY <2>1, <2>3 DEF MuxInv, GoneInv
    <3>2. CASE toG' = toG
      BY <1>7, <2>1, <3>1, <3>2 DEF Aborting, Opening
    <3>3. ASSUME NEW r \in Reqs, NEW t \in {"DATA", "CLOSE0", "CLOSE1"}, Tells(r, t)
          PROVE  Aborting(s)' \/ (~InTables(s)' /\ ~Opening(s)')
      <4>1. Aborting(s) => Aborting(s)'
        BY <3>3, TellsFacts DEF Aborting
      <4>2. ~Opening(s) => ~Opening(s)'
        BY <3>3, TellsFacts DEF Opening
      <4>3. QED
        BY <1>7, <2>1, <3>1, <4>1, <4>2
    <3>4. QED
      BY <3>2, <3>3
  <2>4. QED
    BY <2>2, <2>3
<1>10. ToHubInv'
  <2>1. ASSUME NEW k \in 1..Len(toH')
        PROVE  toH'[k].from \in Current' /\ toH'[k].id = req'[toH'[k].from].id
    <3>1. PICK j \in 1..Len(toH) : toH'[k] = toH[j]
      BY <1>1
    <3>2. toH[j].from \in Reqs /\ toH[j].from \in Current /\ toH[j].id = req[toH[j].from].id
      BY FrameTypes DEF MuxInv, ToHubInv
    <3>3. QED
      BY <1>2, <3>1, <3>2 DEF Goes
  <2>2. QED
    BY <2>1 DEF ToHubInv
<1>11. NoOrphanUpstream' /\ KeptWhileWanted'
  BY DEF MuxInv, NoOrphanUpstream, KeptWhileWanted, Goes
<1>12. QED
  BY <1>3, <1>4, <1>5, <1>6, <1>8, <1>9, <1>10, <1>11
LEMMA OneFrame ==
    ASSUME TypeOK, NEW r \in Reqs, NEW t, ToGateway(r, <<t>>)
    PROVE  toG' = IF link = "up" /\ r \in Current THEN Append(toG, Frame(t, r)) ELSE toG
<1>1. [k \in 1..Len(<<t>>) |-> Frame(<<t>>[k], r)] = <<Frame(t, r)>>
  OBVIOUS
<1>2. toG \in Seq(FrameG)
  BY FrameTypes
<1>3. toG \o <<Frame(t, r)>> = Append(toG, Frame(t, r))
  BY <1>2
<1>4. QED
  BY <1>1, <1>3 DEF ToGateway, Current

\* The responses are not concerned.
LEMMA AnswersStay ==
    ASSUME MuxInv, UNCHANGED <<epoch, link, up, toH>>,
           \A s \in Reqs : /\ req'[s].kind = req[s].kind /\ req'[s].ep = req[s].ep
                           /\ req'[s].seen = req[s].seen /\ req'[s].head = req[s].head
                           /\ req'[s].hh => req[s].hh
    PROVE  AnswerInv'
<1>1. Current' = Current
  BY DEF Current
<1>2. \A s \in Reqs : Answering(s)' => Answering(s)
  BY DEF Answering
<1>3. QED
  BY <1>1, <1>2 DEF MuxInv, AnswerInv

LEMMA BrowserKeeps ==
    ASSUME MuxInv, NEW r \in Reqs, Body(r) \/ BodyEnd(r) \/ Abort(r) \/ Closed(r)
    PROVE  MuxInv'
<1>1. /\ UNCHANGED <<epoch, link, hubOn, nextId, tab, up, inner, toH>>
      /\ req[r] \in ReqRec /\ req \in [Reqs -> ReqRec]
      /\ req[r].hh <=> req[r].cl = "active"
  BY DEF Body, BodyEnd, Abort, Closed, MuxInv, TypeOK, IdsInv
<1>2. /\ req' \in [Reqs -> ReqRec]
      /\ \A s \in Reqs : Goes(s) /\ (s # r => req'[s] = req[s])
      /\ req'[r].seen = req[r].seen /\ req'[r].head = req[r].head
      /\ Abort(r) \/ Closed(r) => req'[r].cl # "active"
  <2>1. CASE Body(r)
    <3>1. req' = req /\ req[r].cl = "active" /\ ~Closed(r)
      BY <2>1 DEF Body, Closed
    <3>2. ~Abort(r)
      BY <1>1, <3>1 DEF Abort, ReqRec
    <3>3. QED
      BY <1>1, <3>1, <3>2 DEF Goes, MuxInv, IdsInv
  <2>2. CASE BodyEnd(r)
    <3>1. req' = [req EXCEPT ![r].body = FALSE]
      BY <2>2 DEF BodyEnd
    <3>2. req'[r].cl = req[r].cl /\ ~Abort(r) /\ ~Closed(r) /\ req[r].cl # "idle"
      BY <1>1, <2>2, <3>1 DEF Abort, Closed, BodyEnd, ReqRec
    <3>3. /\ req' \in [Reqs -> ReqRec] /\ \A s \in Reqs \ {r} : req'[s] = req[s]
          /\ req'[r] = [req[r] EXCEPT !.body = FALSE]
      BY <1>1, <3>1 DEF ReqRec
    <3>4. Goes(r)
      BY <1>1, <3>2, <3>3 DEF Goes, MuxInv, IdsInv, ReqRec
    <3>5. \A s \in Reqs \ {r} : Goes(s)
      BY <1>1, <3>3 DEF Goes, MuxInv, IdsInv
    <3>6. QED
      BY <1>1, <3>2, <3>3, <3>4, <3>5 DEF ReqRec
  <2>3. CASE Abort(r)
    <3>1. /\ req' = [req EXCEPT ![r].cl = "gone", ![r].hh = FALSE, ![r].body = FALSE]
          /\ req[r].cl = "active"
      BY <2>3 DEF Abort
    <3>2. QED
      BY <1>1, <3>1 DEF Goes, MuxInv, IdsInv, ReqRec
  <2>4. CASE Closed(r)
    <3>1. req' = [req EXCEPT ![r].cl = "closed", ![r].body = FALSE] /\ req[r].cl = "ended"
      BY <2>4 DEF Closed
    <3>2. QED
      BY <1>1, <3>1, ZenonT(30) DEF Goes, MuxInv, IdsInv, ReqRec
  <2>5. QED
    BY <2>1, <2>2, <2>3, <2>4
<1>3. \A s \in Reqs : GoesTelling(s)
  <2>1. CASE Body(r)
    BY <2>1 DEF Body, GoesTelling
  <2>2. CASE BodyEnd(r)
    BY <1>1, <2>2 DEF BodyEnd, GoesTelling
  <2>3. CASE Abort(r) \/ Closed(r)
    <3>1. ToGateway(r, <<"CLOSE1">>) /\ req'[r].cl # "active"
      BY <1>2, <2>3 DEF Abort, Closed
    <3>2. Tells(r, "CLOSE1")
      BY <3>1, OneFrame DEF Tells, MuxInv
    <3>3. QED
      BY <1>2, <3>2 DEF GoesTelling
  <2>4. QED
    BY <2>1, <2>2, <2>3
<1>4. \E t \in {"DATA", "CLOSE0", "CLOSE1"} : Tells(r, t)
  <2>1. CASE Body(r)
    <3>1. ToGateway(r, <<"DATA">>)
      BY <2>1 DEF Body
    <3>2. Tells(r, "DATA")
      BY <3>1, OneFrame DEF Tells, MuxInv
    <3>3. QED
      BY <3>2
  <2>2. CASE BodyEnd(r)
    <3>1. ToGateway(r, <<"CLOSE0">>) /\ req[r].kind \in {"http", "post"}
      BY <2>2 DEF BodyEnd
    <3>2. Tells(r, "CLOSE0")
      BY <3>1, OneFrame DEF Tells, MuxInv
    <3>3. QED
      BY <3>2
  <2>3. CASE Abort(r) \/ Closed(r)
    <3>1. ToGateway(r, <<"CLOSE1">>) /\ req'[r].cl # "active"
      BY <1>2, <2>3 DEF Abort, Closed
    <3>2. Tells(r, "CLOSE1")
      BY <3>1, OneFrame DEF Tells, MuxInv
    <3>3. QED
      BY <3>2
  <2>4. QED
    BY <2>1, <2>2, <2>3
<1>5. AnswerInv'
  BY <1>1, <1>2, AnswersStay DEF Goes, MuxInv, IdsInv
<1>6. QED
  BY <1>1, <1>2, <1>3, <1>4, <1>5, HubKeeps DEF MuxInv

\* A frame that arrives may be the head of its own response.
LEMMA ReceivedAnswer ==
    ASSUME MuxInv, UNCHANGED <<epoch, link, up>>, toH # <<>>, toH' = Tail(toH),
           NEW r \in Reqs, r = toH[1].from,
           \A s \in Reqs : req'[s].kind = req[s].kind /\ req'[s].ep = req[s].ep
                           /\ (s # r => req'[s] = req[s]),
           \/ req'[r] = req[r] /\ (~req[r].hh \/ r \notin Current \/ toH[1].t # "OPEN")
           \/ req'[r].kind = "http" => req'[r].head
           \/ ~req'[r].hh /\ (Answering(r)' /\ req'[r].seen = "ok" => req'[r].head)
    PROVE  AnswerInv'
<1>1. Current' = Current
  BY DEF Current
<1>2. \A s \in Reqs : Answering(s)' => Answering(s)
  BY DEF Answering
<1>3. toH \in Seq(FrameH)
  BY FrameTypes DEF MuxInv
<1>4. /\ Len(toH') = Len(toH) - 1 /\ Len(toH) \in Nat /\ Len(toH) >= 1
      /\ \A k \in 1..Len(toH') : k + 1 \in 1..Len(toH) /\ toH'[k] = toH[k + 1]
      /\ \A k \in 1..Len(toH) : k # 1 => k - 1 \in 1..Len(toH') /\ toH'[k - 1] = toH[k]
  BY <1>3, TailFacts
<1>5. ASSUME NEW s \in Reqs, s # r \/ toH[1].t # "OPEN", NEW n \in 0..Len(toH'), HeadSent(toH, s, n + 1)
      PROVE  HeadSent(toH', s, n)
  <2>1. PICK j \in 1..(n + 1) : toH[j].from = s /\ toH[j].t = "OPEN"
    BY <1>5 DEF HeadSent
  <2>2. j # 1
    BY <1>5, <2>1
  <2>3. j \in 1..Len(toH) /\ j - 1 \in 1..n
    BY <1>4, <2>1, <2>2
  <2>4. toH'[j - 1] = toH[j]
    BY <1>4, <2>2, <2>3
  <2>5. QED
    BY <2>1, <2>3, <2>4 DEF HeadSent
<1>6. ASSUME NEW s \in Reqs, req'[s] = req[s],
             s # r \/ ~req[r].hh \/ r \notin Current \/ toH[1].t # "OPEN",
             Answering(s)'
      PROVE  /\ req'[s].seen = "ok" => req'[s].head
             /\ s \in Current' /\ link' = "up" /\ req'[s].hh /\ ~req'[s].head =>
                  /\ up'[s] = "streaming" => HeadSent(toH', s, Len(toH'))
                  /\ \A k \in 1..Len(toH') :
                        toH'[k].from = s /\ toH'[k].t = "CLOSE" => HeadSent(toH', s, k)
  <2>1. /\ req[s].seen = "ok" => req[s].head
        /\ s \in Current /\ link = "up" /\ req[s].hh /\ ~req[s].head =>
              /\ up[s] = "streaming" => HeadSent(toH, s, Len(toH))
              /\ \A k \in 1..Len(toH) :
                    toH[k].from = s /\ toH[k].t = "CLOSE" => HeadSent(toH, s, k)
    BY <1>2, <1>6 DEF MuxInv, AnswerInv
  <2>2. ASSUME s \in Current, link = "up", req[s].hh, ~req[s].head, up[s] = "streaming"
        PROVE  HeadSent(toH', s, Len(toH'))
    <3>1. Len(toH') \in 0..Len(toH') /\ Len(toH') + 1 = Len(toH)
      BY <1>4
    <3>2. HeadSent(toH, s, Len(toH') + 1)
      BY <2>1, <2>2, <3>1
    <3>3. HeadSent(toH', s, Len(toH'))
      BY <1>5, <1>6, <2>2, <3>1, <3>2
    <3>4. QED
      BY <3>3 DEF HeadSent
  <2>3. ASSUME s \in Current, link = "up", req[s].hh, ~req[s].head, NEW k \in 1..Len(toH'),
               toH'[k].from = s, toH'[k].t = "CLOSE"
        PROVE  HeadSent(toH', s, k)
    <3>1. k + 1 \in 1..Len(toH) /\ toH[k + 1].from = s /\ toH[k + 1].t = "CLOSE"
      BY <1>4, <2>3
    <3>2. HeadSent(toH, s, k + 1) /\ k \in 0..Len(toH')
      BY <1>4, <2>1, <2>3, <3>1
    <3>3. QED
      BY <1>5, <1>6, <2>3, <3>2
  <2>4. QED
    BY <1>1, <1>6, <2>1, <2>2, <2>3
<1>7. \A s \in Reqs : s # r => req'[s] = req[s]
  OBVIOUS
<1>8. CASE req'[r] = req[r] /\ (~req[r].hh \/ r \notin Current \/ toH[1].t # "OPEN")
  BY <1>6, <1>7, <1>8 DEF AnswerInv
<1>9. CASE \/ req'[r].kind = "http" => req'[r].head
           \/ ~req'[r].hh /\ (Answering(r)' /\ req'[r].seen = "ok" => req'[r].head)
  BY <1>6, <1>7, <1>9 DEF AnswerInv, Answering
<1>10. QED
  BY <1>8, <1>9

LEMMA HubRecvKeeps == ASSUME MuxInv, HubRecv PROVE MuxInv'
<1> DEFINE f == Head(toH)
<1>1. /\ UNCHANGED <<epoch, link, hubOn, nextId, tab, up, inner>>
      /\ toH # <<>> /\ toH' = Tail(toH) /\ link = "up"
      /\ req \in [Reqs -> ReqRec]
  BY DEF HubRecv, MuxInv, TypeOK
<1>2. /\ toH \in Seq(FrameH) /\ f = toH[1] /\ f.from \in Current /\ f.id = req[f.from].id
      /\ f.from \in Reqs
  <2>1. toH \in Seq(FrameH)
    BY FrameTypes DEF MuxInv
  <2>2. Len(toH) >= 1 /\ Len(toH) \in Nat /\ f = toH[1]
    BY <1>1, <2>1, TailFacts
  <2>3. QED
    BY <2>1, <2>2 DEF MuxInv, ToHubInv, Current
<1> HIDE DEF f
<1>3. \A r \in Reqs : Handles(r, f.id) => r = f.from
  BY <1>2 DEF Handles, MuxInv, IdsInv, Current
<1>4. CASE req' = req /\ toG' = toG /\ (~Handles(f.from, f.id) \/ f.t = "DATA")
  <2>1. \A s \in Reqs : Goes(s) /\ GoesTelling(s)
    BY <1>1, <1>4 DEF Goes, GoesTelling, MuxInv, IdsInv
  <2>2. AnswerInv'
    BY <1>1, <1>2, <1>4, ReceivedAnswer DEF Handles, Current
  <2>3. QED
    BY <1>1, <1>4, <2>1, <2>2, HubKeeps DEF MuxInv
<1>5. ASSUME Handles(f.from, f.id), f.t = "OPEN", HubOpen(f.from) PROVE MuxInv'
  <2> DEFINE r == f.from
             b == req[r].kind \in {"http", "post"}
  <2>0. b \in BOOLEAN
    OBVIOUS
  <2>1. /\ req' = [req EXCEPT ![r].head = b] /\ toG' = toG
        /\ req[r].kind = "http" => b = TRUE
        /\ req[r] \in ReqRec /\ r \in Reqs
    BY <1>1, <1>2, <1>5 DEF HubOpen
  <2> HIDE DEF r, b
  <2>2. /\ req' \in [Reqs -> ReqRec] /\ \A s \in Reqs \ {r} : req'[s] = req[s]
        /\ req'[r] = [req[r] EXCEPT !.head = b]
    BY <1>1, <2>0, <2>1 DEF ReqRec
  <2>3. \A s \in Reqs : Goes(s) /\ GoesTelling(s)
    <3>1. req[r].cl = "active"
      BY <1>2, <1>5 DEF r, Handles, MuxInv, IdsInv
    <3>2. Goes(r) /\ GoesTelling(r)
      BY <1>1, <2>1, <2>2, <3>1 DEF Goes, GoesTelling, MuxInv, IdsInv, ReqRec
    <3>3. \A s \in Reqs \ {r} : Goes(s) /\ GoesTelling(s)
      BY <1>1, <2>2 DEF Goes, GoesTelling, MuxInv, IdsInv
    <3>4. QED
      BY <3>2, <3>3
  <2>4. req'[r].kind = "http" => req'[r].head
    BY <2>1, <2>2 DEF ReqRec
  <2>5. AnswerInv'
    BY <1>1, <1>2, <2>1, <2>2, <2>3, <2>4, ReceivedAnswer, SMTT(30) DEF Goes, r
  <2>6. QED
    BY <1>1, <2>1, <2>2, <2>3, <2>5, HubKeeps DEF MuxInv
<1>6. ASSUME Handles(f.from, f.id),
             (f.t = "CLOSE" /\ HubClose(f.from)) \/ (f.t = "ERROR" /\ HubError(f.from))
      PROVE  MuxInv'
  <2>0. PICK r \in Reqs : r = f.from
    BY <1>2
  <2>1. /\ req[r] \in ReqRec /\ r \in Reqs /\ req[r].cl = "active"
        /\ req[r].kind \in {"ws", "raw"} => ToGateway(r, <<"CLOSE1">>)
        /\ req[r].kind \notin {"ws", "raw"} => toG' = toG
        /\ \E x \in {"ok", "502"} :
              /\ req' = [req EXCEPT ![r].cl = "ended", ![r].hh = FALSE, ![r].seen = x]
              /\ f.t = "ERROR" => x = IF req[r].head THEN "ok" ELSE "502"
    BY <1>1, <1>2, <1>6, <2>0 DEF HubClose, HubError, Handles, MuxInv, IdsInv
  <2>2. PICK x \in {"ok", "502"} :
              /\ req' = [req EXCEPT ![r].cl = "ended", ![r].hh = FALSE, ![r].seen = x]
              /\ f.t = "ERROR" => x = IF req[r].head THEN "ok" ELSE "502"
    BY <2>1
  <2>3. /\ req' \in [Reqs -> ReqRec] /\ \A s \in Reqs \ {r} : req'[s] = req[s]
        /\ req'[r] = [req[r] EXCEPT !.cl = "ended", !.hh = FALSE, !.seen = x]
    BY <1>1, <2>1, <2>2 DEF ReqRec
  <2>4. \A s \in Reqs : Goes(s) /\ GoesTelling(s)
    BY <1>1, <2>1, <2>3 DEF Goes, GoesTelling, MuxInv, IdsInv, ReqRec
  <2>5. toG' = toG \/ \E s \in Reqs, t \in {"DATA", "CLOSE0", "CLOSE1"} : Tells(s, t)
    <3>1. ToGateway(r, <<"CLOSE1">>) => Tells(r, "CLOSE1")
      BY <2>1, <2>3, OneFrame DEF Tells, MuxInv, ReqRec
    <3>2. QED
      BY <2>1, <3>1
  <2>6. AnswerInv'
    <3>1. Answering(r) /\ f.t = "CLOSE" => req[r].head
      <4>1. r = toH[1].from /\ toH[1].t = f.t /\ r \in Current /\ r \in Reqs /\ req[r].hh
        BY <1>2, <1>6, <2>0 DEF Handles, Current
      <4>2. Len(toH) \in Nat /\ Len(toH) # 0
        BY <1>1, <1>2, TailFacts
      <4>3. Answering(r) /\ ~req[r].head /\ f.t = "CLOSE" => HeadSent(toH, r, 1)
        BY <1>1, <4>1, <4>2 DEF MuxInv, AnswerInv
      <4>4. HeadSent(toH, r, 1) => toH[1].t = "OPEN"
        BY DEF HeadSent
      <4>5. QED
        BY <4>1, <4>3, <4>4
    <3>2. Answering(r)' /\ req'[r].seen = "ok" => req'[r].head
      <4>1. /\ req'[r].head = req[r].head /\ req'[r].seen = x /\ req'[r].kind = req[r].kind
            /\ up' = up
        BY <1>1, <2>1, <2>3 DEF ReqRec
      <4>2. x = "ok" /\ f.t = "ERROR" => req[r].head
        BY <2>2
      <4>3. QED
        BY <1>6, <3>1, <4>1, <4>2 DEF Answering
    <3>3. ~req'[r].hh
      BY <2>1, <2>3 DEF ReqRec
    <3>4. QED
      <4>1. \A s \in Reqs : req'[s].kind = req[s].kind /\ req'[s].ep = req[s].ep
                               /\ (s # r => req'[s] = req[s])
        BY <2>3, <2>4 DEF Goes
      <4>2. r = toH[1].from /\ r \in Reqs
        BY <1>2, <2>0
      <4>3. QED
        BY <1>1, <3>2, <3>3, <4>1, <4>2, ReceivedAnswer
  <2>7. QED
    BY <1>1, <2>3, <2>4, <2>5, <2>6, HubKeeps DEF MuxInv
<1>7. QED
  <2>1. CASE \E r \in Reqs : Handles(r, f.id)
    BY <1>2, <1>3, <1>4, <1>5, <1>6, <2>1 DEF HubRecv, f
  <2>2. CASE ~\E r \in Reqs : Handles(r, f.id)
    BY <1>2, <1>4, <2>2 DEF HubRecv, f
  <2>3. QED
    BY <2>1, <2>2
LEMMA OpenKeeps == ASSUME Kinds \subseteq {"http", "post", "ws"}, MuxInv, NEW r \in Reqs, Open(r)
                   PROVE  MuxInv'
<1>1. /\ UNCHANGED <<epoch, link, hubOn, tab, up, inner, toH>> /\ nextId' = nextId + 1
      /\ req \in [Reqs -> ReqRec] /\ req[r] \in ReqRec /\ req[r].cl = "idle"
      /\ toG' = IF link = "up" THEN Append(toG, Frame("OPEN", r)) ELSE toG
      /\ epoch \in 1..MaxTunnels /\ nextId \in Nat /\ nextId \in 1..(Cardinality(Reqs) + 1)
  BY DEF Open, MuxInv, TypeOK
<1>2. PICK k \in Kinds : 
         req' = [req EXCEPT ![r].cl = "active", ![r].kind = k, ![r].ep = epoch,
                            ![r].id = nextId, ![r].hh = TRUE]
  BY DEF Open, AssignStreamId
<1>3. Current' = Current \cup {r} /\ r \notin Current /\ req[r].ep = 0
  <2>1. req[r].ep = 0 /\ epoch # 0
    BY <1>1, StreamMuxAssumption DEF MuxInv, IdsInv
  <2>2. req'[r].ep = epoch /\ \A s \in Reqs \ {r} : req'[s] = req[s]
    BY <1>1, <1>2 DEF ReqRec
  <2>3. QED
    BY <1>1, <2>1, <2>2 DEF Current
<1>4. /\ Cardinality(Current') = Cardinality(Current) + 1
      /\ Cardinality(Current') <= Cardinality(Reqs)
      /\ Cardinality(Reqs) \in Nat /\ Cardinality(Current) \in Nat
  <2>1. IsFiniteSet(Reqs) /\ Current' \subseteq Reqs /\ Current \subseteq Reqs
    BY StreamMuxAssumption DEF Current
  <2>2. IsFiniteSet(Current) /\ Cardinality(Current') <= Cardinality(Reqs)
    BY <2>1, FS_Subset
  <2>3. Cardinality(Current') = Cardinality(Current) + 1
    BY <1>3, <2>2, FS_AddElement
  <2>4. QED
    BY <2>1, <2>2, <2>3, FS_CardinalityType
<1>5. nextId = Cardinality(Current) + 1 /\ nextId \in Ids /\ nextId' \in 1..(Cardinality(Reqs) + 1)
  BY <1>1, <1>4 DEF MuxInv, IdsInv, Ids
<1>6. /\ req' \in [Reqs -> ReqRec] /\ \A s \in Reqs \ {r} : req'[s] = req[s]
      /\ req'[r] = [req[r] EXCEPT !.cl = "active", !.kind = k, !.ep = epoch,
                                  !.id = nextId, !.hh = TRUE]
  <2>1. epoch \in 0..MaxTunnels /\ k \in {"http", "post", "ws", "raw"}
    BY <1>1, StreamMuxAssumption
  <2>2. QED
    BY <1>1, <1>2, <1>5, <2>1 DEF ReqRec
<1>7. /\ req'[r].cl = "active" /\ req'[r].kind = k /\ req'[r].ep = epoch /\ req'[r].id = nextId
      /\ req'[r].hh = TRUE /\ k \in {"http", "post", "ws"}
  BY <1>1, <1>6 DEF ReqRec
<1>8. /\ \A s \in Current : s \in Reqs /\ s # r /\ req'[s] = req[s]
      /\ ~InTables(r)
  BY <1>3, <1>6, StreamMuxAssumption DEF Current, InTables, MuxInv, TablesInv
<1>9. /\ toG' \in Seq(FrameG) /\ Len(toG) \in Nat /\ Len(toG') \in Nat
      /\ \A j \in 1..Len(toG) : j \in 1..Len(toG') /\ toG'[j] = toG[j] /\ toG[j].r \in Current
      /\ \A j \in 1..Len(toG') : j \notin 1..Len(toG)
            => toG'[j].r = r /\ toG'[j].t = "OPEN" /\ j = Len(toG) + 1 /\ link = "up"
  <2>1. toG \in Seq(FrameG) /\ Frame("OPEN", r) \in FrameG /\ Len(toG) \in Nat
    BY FrameTypes DEF MuxInv, Frame, FrameG
  <2>2. Frame("OPEN", r).r = r /\ Frame("OPEN", r).t = "OPEN"
    BY DEF Frame
  <2>3. \A j \in 1..Len(toG) : toG[j].r \in Current
    BY DEF MuxInv, ToGatewayInv
  <2>4. CASE link = "up"
    BY <1>1, <2>1, <2>2, <2>3, <2>4, AppendFacts
  <2>5. CASE link # "up"
    BY <1>1, <2>1, <2>3, <2>5
  <2>6. QED
    BY <2>4, <2>5
<1>10. TypeOK'
  BY <1>1, <1>5, <1>6, <1>9 DEF MuxInv, TypeOK, FrameG
<1>11. IdsInv'
  <2>1. nextId' = Cardinality(Current') + 1
    BY <1>1, <1>4, <1>5
  <2>2. ASSUME NEW s \in Reqs
        PROVE  /\ req'[s].ep <= epoch'
               /\ req'[s].ep = epoch' => req'[s].id < nextId'
               /\ req'[s].cl = "idle" <=> req'[s].ep = 0
               /\ req'[s].cl = "idle" => up'[s] = "none" /\ req'[s].seen = "none"
               /\ req'[s].hh <=> req'[s].cl = "active"
               /\ req'[s].kind # "raw"
    <3>1. CASE s = r
      BY <1>1, <1>7, <3>1
    <3>2. CASE s # r
      <4>1. req'[s] = req[s] /\ req[s].id \in Nat
        BY <1>1, <1>6, <3>2 DEF ReqRec, Ids
      <4>2. QED
        BY <1>1, <4>1 DEF MuxInv, IdsInv
    <3>3. QED
      BY <3>1, <3>2
  <2>3. ASSUME NEW s \in Current', NEW q \in Current', req'[s].id = req'[q].id PROVE s = q
    <3>1. \A u \in Current : req'[u].id < nextId
      BY <1>8 DEF MuxInv, IdsInv, Current
    <3>2. CASE s = r \/ q = r
      BY <1>3, <1>5, <1>7, <2>3, <3>1, <3>2 DEF Ids
    <3>3. CASE s # r /\ q # r
      BY <1>3, <1>8, <2>3, <3>3 DEF MuxInv, IdsInv
    <3>4. QED
      BY <3>2, <3>3
  <2>4. QED
    BY <2>1, <2>2, <2>3 DEF IdsInv
<1>12. LinkInv'
  BY <1>1 DEF MuxInv, LinkInv
<1>13. TablesInv' /\ \A s \in Reqs : InTables(s)' <=> InTables(s)
  BY <1>1, <1>3, <1>8 DEF MuxInv, TablesInv, InTables
<1>14. ToGatewayInv'
  <2>1. up[r] = "none"
    BY <1>1 DEF MuxInv, IdsInv
  <2>2. ASSUME NEW j \in 1..Len(toG)
        PROVE  /\ toG[j].r \in Current'
               /\ toG[j].t = "OPEN" =>
                    /\ up'[toG[j].r] = "none" /\ ~InTables(toG[j].r)'
                    /\ \A i \in 1..Len(toG') : toG'[i].r = toG[j].r => j <= i
               /\ toG[j].t = "CLOSE0" => req'[toG[j].r].kind \in {"http", "post"}
               /\ toG[j].t = "CLOSE1" => req'[toG[j].r].cl # "active"
    BY <1>1, <1>3, <1>8, <1>9, <1>13 DEF MuxInv, ToGatewayInv
  <2>3. ASSUME NEW j \in 1..Len(toG'), j \notin 1..Len(toG)
        PROVE  /\ toG'[j].r = r /\ r \in Current' /\ toG'[j].t = "OPEN"
               /\ up'[r] = "none" /\ ~InTables(r)'
               /\ \A i \in 1..Len(toG') : toG'[i].r = r => j <= i
    <3>1. \A i \in 1..Len(toG) : toG'[i].r # r
      BY <1>8, <1>9
    <3>2. QED
      BY <1>1, <1>3, <1>8, <1>9, <1>13, <2>1, <2>3, <3>1
  <2>4. QED
    BY <1>9, <2>2, <2>3 DEF ToGatewayInv
<1>15. GoneInv'
  <2>1. ASSUME NEW s \in Current', req'[s].cl \in {"gone", "closed"}, link' = "up"
        PROVE  Aborting(s)' \/ (~InTables(s)' /\ ~Opening(s)')
    <3>1. s \in Current /\ s # r /\ s \in Reqs /\ req'[s] = req[s]
      BY <1>3, <1>7, <1>8, <2>1
    <3>2. Aborting(s) \/ (~InTables(s) /\ ~Opening(s))
      BY <1>1, <2>1, <3>1 DEF MuxInv, GoneInv
    <3>3. (Aborting(s) => Aborting(s)') /\ (~Opening(s) => ~Opening(s)')
      BY <1>9, <3>1 DEF Aborting, Opening
    <3>4. QED
      BY <1>13, <3>1, <3>2, <3>3
  <2>2. QED
    BY <2>1 DEF GoneInv
<1>16. ToHubInv' /\ \A j \in 1..Len(toH) : toH[j].from # r
  BY <1>1, <1>3, <1>8 DEF MuxInv, ToHubInv
<1>17. NoOrphanUpstream' /\ KeptWhileWanted'
  <2>1. up[r] = "none"
    BY <1>1 DEF MuxInv, IdsInv
  <2>2. QED
    BY <1>1, <1>6, <2>1 DEF MuxInv, NoOrphanUpstream, KeptWhileWanted, Live
<1>18. AnswerInv'
  <2>1. ASSUME NEW s \in Reqs, Answering(s)'
        PROVE  /\ req'[s].seen = "ok" => req'[s].head
               /\ s \in Current' /\ link' = "up" /\ req'[s].hh /\ ~req'[s].head =>
                    /\ up'[s] = "streaming" => HeadSent(toH', s, Len(toH'))
                    /\ \A j \in 1..Len(toH') :
                          toH'[j].from = s /\ toH'[j].t = "CLOSE" => HeadSent(toH', s, j)
    <3>1. CASE s # r
      <4>1. req'[s] = req[s] /\ (s \in Current' => s \in Current) /\ Answering(s)
        BY <1>1, <1>3, <1>6, <2>1, <3>1 DEF Answering
      <4>2. QED
        BY <1>1, <4>1 DEF MuxInv, AnswerInv
    <3>2. CASE s = r
      <4>1. req'[r].seen = req[r].seen /\ up'[r] = "none" /\ req[r].seen = "none"
        BY <1>1, <1>6 DEF MuxInv, IdsInv, ReqRec
      <4>2. QED
        BY <1>1, <1>16, <3>2, <4>1
    <3>3. QED
      BY <3>1, <3>2
  <2>2. QED
    BY <2>1 DEF AnswerInv
<1>19. QED
  BY <1>10, <1>11, <1>12, <1>13, <1>14, <1>15, <1>16, <1>17, <1>18 DEF MuxInv
-----------------------------------------------------------------------------
(* The gateway's side                                                      *)

\* What can become of a request on the gateway: it goes on, it ends, or it
\* begins.
GoesOn(r) ==
    /\ tab' = tab /\ up' \in [Reqs -> UpStates] /\ \A s \in Reqs \ {r} : up'[s] = up[s]
    /\ up'[r] = up[r] \/ {up[r], up'[r]} \subseteq Live

Ends(r) ==
    /\ tab' = [tab EXCEPT ![req[r].id] = Empty]
    /\ tab[req[r].id].r = r
    /\ up' \in [Reqs -> UpStates] /\ \A s \in Reqs \ {r} : up'[s] = up[s]
    /\ up'[r] \notin Live
    /\ up'[r] = "destroyed" => up[r] = "destroyed" \/ req[r].cl # "active"

Begins(r) ==
    /\ tab' = [tab EXCEPT ![req[r].id] = [tab |-> TableOf(req[r].kind), r |-> r]]
    /\ up' = [up EXCEPT ![r] = IF req[r].kind \in {"http", "ws"} THEN "asked" ELSE @]
    /\ up[r] = "none" /\ ~InTables(r) /\ link = "up"

LEMMA TablesKeep ==
    ASSUME MuxInv, UNCHANGED <<epoch, link, hubOn, nextId, req>>, NEW r \in Current,
           GoesOn(r) \/ Ends(r) \/ Begins(r)
    PROVE  /\ tab' \in [Ids -> [tab: Tables, r: Reqs \cup {None}]] /\ up' \in [Reqs -> UpStates]
           /\ IdsInv' /\ TablesInv' /\ NoOrphanUpstream' /\ KeptWhileWanted'
           /\ \A s \in Reqs \ {r} : up'[s] = up[s] /\ (InTables(s)' <=> InTables(s))
           /\ Ends(r) => ~InTables(r)'
           /\ GoesOn(r) => (InTables(r)' <=> InTables(r))
<1> DEFINE i == req[r].id
<1>1. /\ r \in Reqs /\ i \in Ids /\ req[r].ep = epoch /\ req[r].cl # "idle"
      /\ req[r].kind \in {"http", "post", "ws"} /\ None \notin Reqs
      /\ tab \in [Ids -> [tab: Tables, r: Reqs \cup {None}]] /\ up \in [Reqs -> UpStates]
  <2>1. r \in Reqs /\ req[r] \in ReqRec /\ req[r].ep = epoch /\ epoch \in 1..MaxTunnels
    BY DEF Current, MuxInv, TypeOK
  <2>2. req[r].kind # "raw" /\ (req[r].cl = "idle" <=> req[r].ep = 0)
    BY <2>1 DEF MuxInv, IdsInv
  <2>3. QED
    BY <2>1, <2>2, StreamMuxAssumption DEF MuxInv, TypeOK, ReqRec
<1>2. Current' = Current
  BY DEF Current
<1> HIDE DEF i
<1>3. \A j \in Ids : tab[j].r = r => j = i
  BY <1>1 DEF MuxInv, TablesInv, i
<1>4. IdsInv'
  <2>1. \A s \in Reqs : req[s].cl = "idle" => up'[s] = up[s]
    BY <1>1 DEF GoesOn, Ends, Begins
  <2>2. QED
    BY <1>2, <2>1 DEF MuxInv, IdsInv
<1>5. CASE GoesOn(r)
  <2>1. TablesInv'
    BY <1>1, <1>2, <1>5 DEF GoesOn, MuxInv, TablesInv, Live
  <2>2. NoOrphanUpstream' /\ KeptWhileWanted'
    BY <1>1, <1>5 DEF GoesOn, MuxInv, NoOrphanUpstream, KeptWhileWanted, Live
  <2>3. ~Ends(r)
    BY <1>1, <1>5 DEF GoesOn, Ends, Empty, i
  <2>4. \A s \in Reqs : InTables(s)' <=> InTables(s)
    BY <1>5 DEF GoesOn, InTables
  <2>5. QED
    BY <1>1, <1>4, <1>5, <2>1, <2>2, <2>3, <2>4 DEF GoesOn
<1>6. CASE Ends(r)
  <2>1. /\ tab' \in [Ids -> [tab: Tables, r: Reqs \cup {None}]]
        /\ tab'[i] = Empty /\ \A j \in Ids \ {i} : tab'[j] = tab[j]
    BY <1>1, <1>6 DEF Ends, Empty, Tables, i
  <2>2. Empty.r = None /\ Empty.tab = "none"
    BY DEF Empty
  <2>3. TablesInv'
    <3>1. \A j \in Ids \ {i} : tab[j].r # r
      BY <1>3
    <3>2. \A j \in Ids \ {i} : tab[j].r # None => tab[j].r \in Reqs /\ up'[tab[j].r] = up[tab[j].r]
      BY <1>1, <1>6, <3>1 DEF Ends
    <3>3. QED
      BY <1>2, <2>1, <2>2, <3>2 DEF MuxInv, TablesInv
  <2>4. NoOrphanUpstream'
    <3>1. ASSUME NEW s \in Reqs, up'[s] \in Live PROVE tab'[req[s].id].r = s /\ req[s].ep = epoch
      <4>1. s # r /\ up[s] \in Live
        BY <1>6, <3>1 DEF Ends
      <4>2. tab[req[s].id].r = s /\ req[s].ep = epoch /\ req[s].id \in Ids
        BY <4>1 DEF MuxInv, NoOrphanUpstream, TypeOK, ReqRec
      <4>3. req[s].id # i
        BY <1>6, <4>1, <4>2 DEF Ends, i
      <4>4. QED
        BY <2>1, <4>2, <4>3
    <3>2. QED
      BY <3>1 DEF NoOrphanUpstream
  <2>5. KeptWhileWanted'
    BY <1>6 DEF Ends, MuxInv, KeptWhileWanted
  <2>6. \A s \in Reqs \ {r} : InTables(s)' <=> InTables(s)
    BY <1>1, <1>6, <2>1, <2>2 DEF InTables, Ends, i
  <2>7. ~InTables(r)'
    BY <1>1, <1>3, <2>1, <2>2 DEF InTables
  <2>8. QED
    BY <1>4, <1>6, <2>1, <2>3, <2>4, <2>5, <2>6, <2>7 DEF Ends, GoesOn, InTables
<1>7. CASE Begins(r)
  <2> DEFINE e == [tab |-> TableOf(req[r].kind), r |-> r]
  <2>1. /\ e \in [tab: Tables, r: Reqs \cup {None}] /\ e.r = r /\ e.tab = TableOf(req[r].kind)
    BY <1>1 DEF TableOf, Tables
  <2>2. /\ tab' \in [Ids -> [tab: Tables, r: Reqs \cup {None}]]
        /\ tab'[i] = e /\ \A j \in Ids \ {i} : tab'[j] = tab[j]
    BY <1>1, <1>7, <2>1 DEF Begins, i
  <2>3. /\ up' \in [Reqs -> UpStates] /\ \A s \in Reqs \ {r} : up'[s] = up[s]
        /\ up'[r] = IF req[r].kind \in {"http", "ws"} THEN "asked" ELSE "none"
    BY <1>1, <1>7 DEF Begins, UpStates, Live
  <2>4. \A j \in Ids : tab[j].r # r
    BY <1>7 DEF Begins, InTables
  <2>5. tab[i].r = None
    <3>1. ASSUME tab[i].r # None PROVE FALSE
      <4>1. tab[i].r \in Current /\ req[tab[i].r].id = req[r].id
        BY <1>1, <3>1 DEF MuxInv, TablesInv, i
      <4>2. QED
        BY <1>1, <2>4, <4>1 DEF MuxInv, IdsInv
    <3>2. QED
      BY <3>1
  <2> HIDE DEF e
  <2>6. TablesInv'
    <3>1. \A j \in Ids \ {i} : tab[j].r # None => tab[j].r \in Reqs /\ up'[tab[j].r] = up[tab[j].r]
      BY <1>1, <2>3, <2>4
    <3>2. \A j \in Ids \ {i} :
        /\ tab'[j].r = None => tab'[j].tab = "none"
        /\ tab'[j].r # None =>
              /\ tab'[j].r \in Current' /\ link' # "down"
              /\ req'[tab'[j].r].id = j
              /\ tab'[j].tab = TableOf(req'[tab'[j].r].kind)
              /\ IF req'[tab'[j].r].kind = "post" THEN up'[tab'[j].r] = "none"
                 ELSE up'[tab'[j].r] \in Live
      BY <1>2, <2>2, <3>1 DEF MuxInv, TablesInv
    <3>3. link' # "down" /\ r # None
      BY <1>1, <1>7 DEF Begins
    <3>4. IF req[r].kind = "post" THEN up'[r] = "none" ELSE up'[r] \in Live
      BY <1>1, <2>3 DEF Live
    <3>5. QED
      BY <1>2, <2>1, <2>2, <3>2, <3>3, <3>4 DEF TablesInv, i
  <2>7. NoOrphanUpstream'
    <3>1. ASSUME NEW s \in Reqs, up'[s] \in Live PROVE tab'[req[s].id].r = s /\ req[s].ep = epoch
      <4>1. CASE s = r
        BY <1>1, <2>1, <2>2, <4>1 DEF i
      <4>2. CASE s # r
        <5>1. tab[req[s].id].r = s /\ req[s].ep = epoch /\ req[s].id \in Ids
          BY <2>3, <3>1, <4>2 DEF MuxInv, NoOrphanUpstream, TypeOK, ReqRec
        <5>2. req[s].id # i
          BY <1>1, <2>5, <5>1
        <5>3. QED
          BY <2>2, <5>1, <5>2
      <4>3. QED
        BY <4>1, <4>2
    <3>2. QED
      BY <3>1 DEF NoOrphanUpstream
  <2>8. KeptWhileWanted'
    BY <2>3 DEF MuxInv, KeptWhileWanted
  <2>9. \A s \in Reqs \ {r} : InTables(s)' <=> InTables(s)
    BY <1>1, <2>1, <2>2, <2>5 DEF InTables
  <2>10. ~Ends(r) /\ ~GoesOn(r)
    BY <1>1, <1>7, <2>1, <2>2, <2>4, <2>5 DEF Ends, GoesOn, i
  <2>11. QED
    BY <1>4, <2>2, <2>3, <2>6, <2>7, <2>8, <2>9, <2>10
<1>8. QED
  BY <1>5, <1>6, <1>7

LEMMA QueueKeeps ==
    ASSUME MuxInv, UNCHANGED <<epoch, link, hubOn, nextId, req>>, NEW r \in Current,
           \A s \in Reqs \ {r} : up'[s] = up[s] /\ (InTables(s)' <=> InTables(s)),
           InTables(r)' => InTables(r) \/ (toG' # toG /\ Head(toG).t = "OPEN"),
           \/ toG' = toG /\ up[r] # "none"
           \/ /\ toG # <<>> /\ toG' = Tail(toG) /\ Head(toG).r = r
              /\ Head(toG).t = "CLOSE1" => ~InTables(r)'
    PROVE  toG' \in Seq(FrameG) /\ ToGatewayInv' /\ GoneInv'
<1>1. /\ Current' = Current /\ r \in Reqs /\ Current \subseteq Reqs
      /\ toG \in Seq(FrameG) /\ Len(toG) \in Nat
  BY FrameTypes DEF Current, MuxInv
<1>2. CASE toG' = toG /\ up[r] # "none"
  <2>1. ToGatewayInv'
    BY <1>1, <1>2 DEF MuxInv, ToGatewayInv
  <2>2. GoneInv'
    <3>1. \A s \in Reqs : (Aborting(s)' <=> Aborting(s)) /\ (Opening(s)' <=> Opening(s))
      BY <1>2 DEF Aborting, Opening
    <3>2. \A s \in Reqs : InTables(s)' => InTables(s)
      BY <1>2
    <3>3. QED
      BY <1>1, <3>1, <3>2 DEF MuxInv, GoneInv
  <2>3. QED
    BY <1>1, <1>2, <2>1, <2>2
<1>3. CASE /\ toG # <<>> /\ toG' = Tail(toG) /\ Head(toG).r = r
           /\ Head(toG).t = "CLOSE1" => ~InTables(r)'
  <2>1. /\ Head(toG) = toG[1] /\ Len(toG) >= 1 /\ 1 \in 1..Len(toG)
        /\ toG' \in Seq(FrameG) /\ Len(toG') = Len(toG) - 1
        /\ \A k \in 1..Len(toG') : k + 1 \in 1..Len(toG) /\ toG'[k] = toG[k + 1]
        /\ \A k \in 1..Len(toG) : k # 1 => k - 1 \in 1..Len(toG') /\ toG'[k - 1] = toG[k]
    BY <1>1, <1>3, TailFacts
  <2>2. ASSUME NEW k \in 1..Len(toG'), toG'[k].t = "OPEN" PROVE toG'[k].r # r
    <3>1. k + 1 \in 1..Len(toG) /\ toG'[k] = toG[k + 1] /\ 1 \in 1..Len(toG) /\ k \in Nat
          /\ k >= 1
      BY <1>1, <2>1
    <3>2. toG[1].r = toG[k + 1].r => k + 1 <= 1
      BY <2>2, <3>1 DEF MuxInv, ToGatewayInv
    <3>3. toG[1].r # toG[k + 1].r
      BY <3>1, <3>2
    <3>4. toG[1].r = r
      BY <1>3, <2>1
    <3>5. QED
      BY <3>1, <3>3, <3>4
  <2>3. ToGatewayInv'
    <3>1. ASSUME NEW k \in 1..Len(toG')
          PROVE  /\ toG'[k].r \in Current
                 /\ toG'[k].t = "OPEN" =>
                      /\ up'[toG'[k].r] = "none"
                      /\ ~\E i \in Ids : tab'[i].r = toG'[k].r
                      /\ \A j \in 1..Len(toG') : toG'[j].r = toG'[k].r => k <= j
                 /\ toG'[k].t = "CLOSE0" => req[toG'[k].r].kind \in {"http", "post"}
                 /\ toG'[k].t = "CLOSE1" => req[toG'[k].r].cl # "active"
      <4>1. k + 1 \in 1..Len(toG) /\ toG'[k] = toG[k + 1] /\ toG[k + 1].r \in Current
            /\ toG[k + 1].r \in Reqs
        BY <1>1, <2>1 DEF MuxInv, ToGatewayInv
      <4>2. ASSUME toG'[k].t = "OPEN", NEW j \in 1..Len(toG'), toG'[j].r = toG'[k].r PROVE k <= j
        <5>1. j + 1 \in 1..Len(toG) /\ toG[j + 1].r = toG[k + 1].r /\ toG[k + 1].t = "OPEN"
          BY <2>1, <4>1, <4>2
        <5>2. k + 1 <= j + 1
          BY <4>1, <5>1 DEF MuxInv, ToGatewayInv
        <5>3. QED
          BY <5>2
      <4>3. ASSUME toG'[k].t = "OPEN"
            PROVE  up'[toG'[k].r] = "none" /\ ~\E i \in Ids : tab'[i].r = toG'[k].r
        <5>1. toG[k+1].r # r
          BY <2>2, <4>1, <4>3
        <5>2. up[toG[k+1].r] = "none" /\ ~InTables(toG[k+1].r)
          BY <4>1, <4>3 DEF MuxInv, ToGatewayInv
        <5>3. PICK s \in Reqs \ {r} : s = toG[k+1].r
          BY <4>1, <5>1
        <5>4. QED
          BY <4>1, <5>2, <5>3 DEF InTables
      <4>4. QED
        BY <4>1, <4>2, <4>3 DEF MuxInv, ToGatewayInv
    <3>2. QED
      BY <1>1, <3>1 DEF ToGatewayInv, InTables
  <2>4. GoneInv'
    <3>1. ASSUME NEW s \in Current, req[s].cl \in {"gone", "closed"}, link = "up"
          PROVE  Aborting(s)' \/ (~InTables(s)' /\ ~Opening(s)')
      <4>1. Aborting(s) \/ (~InTables(s) /\ ~Opening(s))
        BY <3>1 DEF MuxInv, GoneInv
      <4>2. Opening(s)' => Opening(s) /\ s # r
        BY <2>1, <2>2, SMTT(30) DEF Opening
      <4>3. ASSUME Aborting(s), ~Aborting(s)' PROVE s = r /\ Head(toG).t = "CLOSE1"
        <5>1. PICK k \in 1..Len(toG) : toG[k].r = s /\ toG[k].t = "CLOSE1"
          BY <4>3 DEF Aborting
        <5>2. k = 1
          BY <2>1, <4>3, <5>1 DEF Aborting
        <5>3. QED
          BY <1>3, <2>1, <5>1, <5>2
      <4>4. Head(toG).t = "OPEN" => Opening(r)
        BY <1>1, <1>3, <2>1 DEF Opening
      <4>5. CASE s = r
        BY <1>3, <4>1, <4>2, <4>3, <4>4, <4>5
      <4>6. CASE s # r
        BY <1>1, <4>1, <4>2, <4>3, <4>6
      <4>7. QED
        BY <4>5, <4>6
    <3>2. QED
      BY <1>1, <3>1 DEF GoneInv
  <2>5. QED
    BY <2>1, <2>3, <2>4
<1>4. QED
  BY <1>2, <1>3

\* What is reported of a request, under its stream id.
Reports(r, fs) ==
    /\ fs \in Seq(FrameH)
    /\ \A j \in 1..Len(fs) : fs[j].from = r /\ fs[j].id = req[r].id
    /\ toH' = IF link = "up" THEN toH \o fs ELSE toH

\* Only a response that has a head is closed.
Answers(r, fs) ==
    req[r].kind = "http" /\ up'[r] \notin {"destroyed", "cut"} =>
        /\ up[r] \notin {"destroyed", "cut"}
        /\ up'[r] = "streaming" => up[r] = "streaming" \/ HeadSent(fs, r, Len(fs))
        /\ \A k \in 1..Len(fs) :
              fs[k].t = "CLOSE" => up[r] = "streaming" \/ HeadSent(fs, r, k)

LEMMA ReportsKeep ==
    ASSUME MuxInv, UNCHANGED <<epoch, link, req>>, NEW r \in Current, NEW fs,
           Reports(r, fs), Answers(r, fs), \A s \in Reqs \ {r} : up'[s] = up[s]
    PROVE  toH' \in Seq(FrameH) /\ ToHubInv' /\ AnswerInv'
<1>1. /\ Current' = Current /\ r \in Reqs /\ Current \subseteq Reqs
      /\ toH \in Seq(FrameH) /\ Len(toH) \in Nat
  BY FrameTypes DEF Current, MuxInv
<1>2. /\ fs \in Seq(FrameH) /\ Len(fs) \in Nat
      /\ \A j \in 1..Len(fs) : fs[j].from = r /\ fs[j].id = req[r].id
  BY DEF Reports
<1>3. /\ toH' \in Seq(FrameH) /\ Len(toH') \in Nat /\ Len(toH') >= Len(toH)
      /\ \A k \in 1..Len(toH) : k \in 1..Len(toH') /\ toH'[k] = toH[k]
      /\ \A k \in 1..Len(toH') : k \notin 1..Len(toH)
            => k - Len(toH) \in 1..Len(fs) /\ toH'[k] = fs[k - Len(toH)]
  <2>1. CASE link = "up"
    BY <1>1, <1>2, <2>1, ConcatFacts DEF Reports
  <2>2. CASE link # "up"
    BY <1>1, <2>2 DEF Reports
  <2>3. QED
    BY <2>1, <2>2
<1>4. link = "up" => /\ Len(toH') = Len(toH) + Len(fs)
                     /\ \A j \in 1..Len(fs) : Len(toH) + j \in 1..Len(toH')
                                              /\ toH'[Len(toH) + j] = fs[j]
  BY <1>1, <1>2, ConcatFacts DEF Reports
<1>5. ToHubInv'
  <2>1. ASSUME NEW k \in 1..Len(toH')
        PROVE  toH'[k].from \in Current /\ toH'[k].id = req[toH'[k].from].id
    <3>1. CASE k \in 1..Len(toH)
      <4>1. toH[k].from \in Current /\ toH[k].id = req[toH[k].from].id
        BY <3>1 DEF MuxInv, ToHubInv
      <4>2. QED
        BY <1>3, <3>1, <4>1
    <3>2. CASE k \notin 1..Len(toH)
      BY <1>2, <1>3, <3>2
    <3>3. QED
      BY <3>1, <3>2
  <2>2. QED
    BY <1>1, <2>1 DEF ToHubInv
<1>6. ASSUME NEW s, NEW n \in 1..Len(toH), HeadSent(toH, s, n) PROVE HeadSent(toH', s, n)
  BY <1>1, <1>3, <1>6 DEF HeadSent
<1>7. ASSUME NEW s, HeadSent(toH, s, Len(toH)), NEW n \in Nat, n >= Len(toH)
      PROVE  HeadSent(toH', s, n)
  BY <1>1, <1>3, <1>7 DEF HeadSent
<1>8. ASSUME NEW n \in 0..Len(fs), HeadSent(fs, r, n), link = "up"
      PROVE  HeadSent(toH', r, Len(toH) + n)
  <2>1. PICK j \in 1..n : fs[j].from = r /\ fs[j].t = "OPEN"
    BY <1>8 DEF HeadSent
  <2>2. j \in 1..Len(fs) /\ Len(toH) + j \in 1..(Len(toH) + n)
    BY <1>1, <1>2, <2>1
  <2>3. toH'[Len(toH) + j] = fs[j]
    BY <1>4, <1>8, <2>2
  <2>4. QED
    BY <2>1, <2>2, <2>3 DEF HeadSent
<1>9. ASSUME NEW s \in Reqs, Answering(s)'
      PROVE  /\ req[s].seen = "ok" => req[s].head
             /\ s \in Current /\ link = "up" /\ req[s].hh /\ ~req[s].head =>
                  /\ up'[s] = "streaming" => HeadSent(toH', s, Len(toH'))
                  /\ \A k \in 1..Len(toH') :
                        toH'[k].from = s /\ toH'[k].t = "CLOSE" => HeadSent(toH', s, k)
  <2>1. Answering(s)
    BY <1>9 DEF Answering, Answers
  <2>2. /\ req[s].seen = "ok" => req[s].head
        /\ s \in Current /\ link = "up" /\ req[s].hh /\ ~req[s].head =>
             /\ up[s] = "streaming" => HeadSent(toH, s, Len(toH))
             /\ \A k \in 1..Len(toH) :
                   toH[k].from = s /\ toH[k].t = "CLOSE" => HeadSent(toH, s, k)
    BY <2>1 DEF MuxInv, AnswerInv
  <2>3. ASSUME s \in Current, link = "up", req[s].hh, ~req[s].head, up'[s] = "streaming"
        PROVE  HeadSent(toH', s, Len(toH'))
    <3>1. CASE up[s] = "streaming"
      BY <1>3, <1>7, <2>2, <2>3, <3>1
    <3>2. CASE up[s] # "streaming"
      <4>1. s = r /\ HeadSent(fs, r, Len(fs))
        BY <1>9, <2>3, <3>2 DEF Answers, Answering
      <4>2. QED
        BY <1>2, <1>4, <1>8, <2>3, <4>1
    <3>3. QED
      BY <3>1, <3>2
  <2>4. ASSUME s \in Current, link = "up", req[s].hh, ~req[s].head,
               NEW k \in 1..Len(toH'), toH'[k].from = s, toH'[k].t = "CLOSE"
        PROVE  HeadSent(toH', s, k)
    <3>1. CASE k \in 1..Len(toH)
      BY <1>3, <1>6, <2>2, <2>4, <3>1
    <3>2. CASE k \notin 1..Len(toH)
      <4>1. k - Len(toH) \in 1..Len(fs) /\ toH'[k] = fs[k - Len(toH)] /\ s = r
        BY <1>2, <1>3, <2>4, <3>2
      <4>2. up[s] = "streaming" \/ HeadSent(fs, r, k - Len(toH))
        BY <1>9, <2>4, <4>1 DEF Answers, Answering
      <4>3. CASE up[s] = "streaming"
        BY <1>1, <1>3, <1>7, <2>2, <2>4, <3>2, <4>3
      <4>4. CASE HeadSent(fs, r, k - Len(toH))
        <5>1. k - Len(toH) \in 0..Len(fs) /\ Len(toH) + (k - Len(toH)) = k
          BY <1>1, <1>3, <4>1
        <5>2. HeadSent(toH', r, Len(toH) + (k - Len(toH)))
          BY <1>8, <2>4, <4>4, <5>1
        <5>3. QED
          BY <4>1, <5>1, <5>2
      <4>5. QED
        BY <4>2, <4>3, <4>4
    <3>3. QED
      BY <3>1, <3>2
  <2>5. QED
    BY <2>2, <2>3, <2>4
<1>10. AnswerInv'
  BY <1>1, <1>9 DEF AnswerInv
<1>11. QED
  BY <1>3, <1>5, <1>10

\* Every step of the gateway is of this kind.
LEMMA GatewayKeeps ==
    ASSUME MuxInv, UNCHANGED <<epoch, link, hubOn, nextId, req>>, NEW r \in Current,
           inner' \in [Reqs -> {"none", "handshake", "ready"}],
           GoesOn(r) \/ Ends(r) \/ Begins(r),
           NEW fs, Reports(r, fs), Answers(r, fs),
           \/ toG' = toG /\ up[r] # "none" /\ ~Begins(r)
           \/ /\ toG # <<>> /\ toG' = Tail(toG) /\ Head(toG).r = r
              /\ Begins(r) => Head(toG).t = "OPEN"
              /\ Head(toG).t = "CLOSE1" => Ends(r) \/ ~InTables(r)
    PROVE  MuxInv'
<1>1. /\ tab' \in [Ids -> [tab: Tables, r: Reqs \cup {None}]] /\ up' \in [Reqs -> UpStates]
      /\ IdsInv' /\ TablesInv' /\ NoOrphanUpstream' /\ KeptWhileWanted'
      /\ \A s \in Reqs \ {r} : up'[s] = up[s] /\ (InTables(s)' <=> InTables(s))
      /\ Ends(r) => ~InTables(r)'
      /\ GoesOn(r) => (InTables(r)' <=> InTables(r))
  BY TablesKeep
<1>2. toG \in Seq(FrameG) /\ (toG # <<>> => Tail(toG) # toG)
  <2>1. toG \in Seq(FrameG)
    BY FrameTypes DEF MuxInv
  <2>2. toG # <<>> => Len(Tail(toG)) # Len(toG)
    BY <2>1, TailFacts
  <2>3. QED
    BY <2>1, <2>2
<1>3. InTables(r)' => InTables(r) \/ (toG' # toG /\ Head(toG).t = "OPEN")
  BY <1>1, <1>2
<1>4. Head(toG).t = "CLOSE1" /\ toG' # toG => ~InTables(r)'
  BY <1>1, <1>2
<1>5. toG' \in Seq(FrameG) /\ ToGatewayInv' /\ GoneInv'
  BY <1>1, <1>2, <1>3, <1>4, QueueKeeps
<1>6. toH' \in Seq(FrameH) /\ ToHubInv' /\ AnswerInv'
  BY <1>1, ReportsKeep
<1>7. TypeOK'
  BY <1>1, <1>5, <1>6 DEF MuxInv, TypeOK, FrameG, FrameH
<1>8. LinkInv'
  <2>1. link # "up" => toG = <<>> /\ toH = <<>> /\ toH' = toH
    BY DEF MuxInv, LinkInv, Reports
  <2>2. QED
    BY <2>1 DEF LinkInv
<1>9. QED
  BY <1>1, <1>5, <1>6, <1>7, <1>8 DEF MuxInv
\* The same for the kinds of the frames.
Told(r, ts) ==
    \E fs : /\ Reports(r, fs) /\ Len(fs) = Len(ts) /\ Len(ts) \in Nat
            /\ \A k \in 1..Len(ts) : fs[k].t = ts[k]

ClosesWell(r, ts) ==
    req[r].kind = "http" /\ up'[r] \notin {"destroyed", "cut"} =>
        /\ up[r] \notin {"destroyed", "cut"}
        /\ up'[r] = "streaming" => up[r] = "streaming" \/ \E j \in 1..Len(ts) : ts[j] = "OPEN"
        /\ \A k \in 1..Len(ts) :
              ts[k] = "CLOSE" => up[r] = "streaming" \/ \E j \in 1..k : ts[j] = "OPEN"

LEMMA TellingKeeps ==
    ASSUME MuxInv, UNCHANGED <<epoch, link, hubOn, nextId, req>>, NEW r \in Current,
           inner' \in [Reqs -> {"none", "handshake", "ready"}],
           GoesOn(r) \/ Ends(r) \/ Begins(r),
           NEW ts, Told(r, ts), ClosesWell(r, ts),
           \/ toG' = toG /\ up[r] # "none" /\ ~Begins(r)
           \/ /\ toG # <<>> /\ toG' = Tail(toG) /\ Head(toG).r = r
              /\ Begins(r) => Head(toG).t = "OPEN"
              /\ Head(toG).t = "CLOSE1" => Ends(r) \/ ~InTables(r)
    PROVE  MuxInv'
<1>1. PICK fs : /\ Reports(r, fs) /\ Len(fs) = Len(ts) /\ Len(ts) \in Nat
                /\ \A k \in 1..Len(ts) : fs[k].t = ts[k]
  BY DEF Told
<1>2. ASSUME NEW n \in 0..Len(ts), \E j \in 1..n : ts[j] = "OPEN" PROVE HeadSent(fs, r, n)
  BY <1>1, <1>2 DEF HeadSent, Reports
<1>3. Answers(r, fs)
  <2>1. SUFFICES ASSUME req[r].kind = "http", up'[r] \notin {"destroyed", "cut"}
        PROVE  /\ up[r] \notin {"destroyed", "cut"}
               /\ up'[r] = "streaming" => up[r] = "streaming" \/ HeadSent(fs, r, Len(fs))
               /\ \A k \in 1..Len(fs) :
                     fs[k].t = "CLOSE" => up[r] = "streaming" \/ HeadSent(fs, r, k)
    BY DEF Answers
  <2>2. Len(ts) \in 0..Len(ts) /\ \A k \in 1..Len(ts) : k \in 0..Len(ts)
    BY <1>1
  <2>3. QED
    BY <1>1, <1>2, <2>1, <2>2 DEF ClosesWell
<1>4. QED
  BY <1>1, <1>3, GatewayKeeps

LEMMA ToldByHub ==
    ASSUME MuxInv, NEW r \in Current, NEW ts \in Seq({"OPEN", "DATA", "CLOSE", "ERROR"}),
           ToHub([k \in 1..Len(ts) |-> Down(ts[k], req[r].id, r)])
    PROVE  Told(r, ts)
<1> DEFINE fs == [k \in 1..Len(ts) |-> Down(ts[k], req[r].id, r)]
<1>1. r \in Reqs /\ req[r].id \in Ids /\ Len(ts) \in Nat
  BY DEF Current, MuxInv, TypeOK, ReqRec
<1>2. \A t \in {"OPEN", "DATA", "CLOSE", "ERROR"} :
          /\ Down(t, req[r].id, r) \in FrameH
          /\ Down(t, req[r].id, r).t = t /\ Down(t, req[r].id, r).from = r
          /\ Down(t, req[r].id, r).id = req[r].id
  BY <1>1 DEF Down, FrameH
<1>3. \A k \in 1..Len(ts) : ts[k] \in {"OPEN", "DATA", "CLOSE", "ERROR"}
  OBVIOUS
<1>4. fs \in Seq(FrameH) /\ Len(fs) = Len(ts)
  BY <1>1, <1>2, <1>3
<1>5. Reports(r, fs)
  BY <1>2, <1>3, <1>4 DEF Reports, ToHub
<1>6. \A k \in 1..Len(ts) : fs[k].t = ts[k]
  BY <1>2, <1>3
<1> HIDE DEF fs
<1>7. QED
  BY <1>1, <1>4, <1>5, <1>6 DEF Told

LEMMA ToldNothing ==
    ASSUME MuxInv, NEW r \in Current, UNCHANGED toH PROVE Told(r, <<>>)
<1>1. toH \in Seq(FrameH)
  BY FrameTypes DEF MuxInv
<1>2. toH \o <<>> = toH
  BY <1>1
<1>3. Reports(r, <<>>)
  BY <1>2 DEF Reports
<1>4. QED
  BY <1>3 DEF Told

LEMMA ToldOne ==
    ASSUME MuxInv, NEW r \in Current, NEW t \in {"OPEN", "DATA", "CLOSE", "ERROR"},
           ToHub(<<Down(t, req[r].id, r)>>)
    PROVE  Told(r, <<t>>)
<1>1. [k \in 1..Len(<<t>>) |-> Down(<<t>>[k], req[r].id, r)] = <<Down(t, req[r].id, r)>>
  OBVIOUS
<1>2. <<t>> \in Seq({"OPEN", "DATA", "CLOSE", "ERROR"})
  OBVIOUS
<1>3. QED
  BY <1>1, <1>2, ToldByHub

LEMMA ToldAnswer ==
    ASSUME MuxInv, NEW r \in Current,
           ToHub(<<Down("OPEN", req[r].id, r), Down("CLOSE", req[r].id, r)>>)
    PROVE  Told(r, <<"OPEN", "CLOSE">>)
<1>1. [k \in 1..Len(<<"OPEN", "CLOSE">>) |-> Down(<<"OPEN", "CLOSE">>[k], req[r].id, r)]
         = <<Down("OPEN", req[r].id, r), Down("CLOSE", req[r].id, r)>>
  OBVIOUS
<1>2. <<"OPEN", "CLOSE">> \in Seq({"OPEN", "DATA", "CLOSE", "ERROR"})
  OBVIOUS
<1>3. QED
  BY <1>1, <1>2, ToldByHub

LEMMA ToldBySend ==
    ASSUME MuxInv, NEW r \in Current, NEW ts \in Seq({"OPEN", "DATA", "CLOSE", "ERROR"}),
           Send(r, ts)
    PROVE  Told(r, ts)
<1>1. req[r].kind # "raw"
  BY DEF Current, MuxInv, IdsInv
<1>2. QED
  BY <1>1, ToldByHub DEF Send

\* The entry under the id of a request is its own.
LEMMA OwnEntry ==
    ASSUME MuxInv, NEW r \in Current
    PROVE  /\ tab[req[r].id].tab # "none" =>
                /\ tab[req[r].id].r = r /\ tab[req[r].id].tab = TableOf(req[r].kind)
                /\ IF req[r].kind = "post" THEN up[r] = "none" ELSE up[r] \in Live
           /\ InTables(r) => tab[req[r].id].tab = TableOf(req[r].kind)
           /\ TableOf(req[r].kind) \in {"gated", "http", "ws"}
           /\ req[r].id \in Ids /\ r \in Reqs
           /\ TableOf(req[r].kind) = req[r].kind <=> req[r].kind # "post"
<1>1. r \in Reqs /\ req[r].id \in Ids /\ r # None /\ req[r].kind \in {"http", "post", "ws"}
  <2>1. r \in Reqs /\ req[r] \in ReqRec /\ req[r].kind # "raw"
    BY DEF Current, MuxInv, TypeOK, IdsInv
  <2>2. QED
    BY <2>1, StreamMuxAssumption DEF ReqRec
<1>2. tab[req[r].id].r # None => tab[req[r].id].r = r
  BY <1>1 DEF MuxInv, IdsInv, TablesInv
<1>3. QED
  BY <1>1, <1>2 DEF MuxInv, TablesInv, InTables, TableOf

LEMMA GwRecvKeeps ==
    ASSUME MuxInv, GwRecv PROVE MuxInv'
<1>1. /\ UNCHANGED <<epoch, link, hubOn, nextId, req>> /\ link = "up"
      /\ toG # <<>> /\ toG' = Tail(toG)
      /\ inner \in [Reqs -> {"none", "handshake", "ready"}]
      /\ tab \in [Ids -> [tab: Tables, r: Reqs \cup {None}]] /\ up \in [Reqs -> UpStates]
  BY DEF GwRecv, MuxInv, TypeOK
<1>2. Head(toG) = toG[1] /\ 1 \in 1..Len(toG)
  <2>1. toG \in Seq(FrameG)
    BY FrameTypes DEF MuxInv
  <2>2. QED
    BY <1>1, <2>1, TailFacts
<1>3. PICK r \in Current : r = Head(toG).r
  BY <1>2 DEF MuxInv, ToGatewayInv
<1>4. PICK t : t = Head(toG).t
  OBVIOUS
<1>5. /\ t = "OPEN" => up[r] = "none" /\ ~InTables(r)
      /\ t = "CLOSE0" => req[r].kind \in {"http", "post"}
      /\ t = "CLOSE1" => req[r].cl # "active"
  BY <1>2, <1>3, <1>4 DEF MuxInv, ToGatewayInv
<1> DEFINE i == req[r].id
<1>6. i \in Ids /\ r \in Reqs /\ req[r].kind \in {"http", "post", "ws"}
  <2>1. r \in Reqs /\ req[r] \in ReqRec /\ req[r].kind # "raw"
    BY DEF Current, MuxInv, TypeOK, IdsInv
  <2>2. QED
    BY <2>1 DEF ReqRec
<1>7. ASSUME UNCHANGED <<tab, up, inner, toH>>, t = "CLOSE1" => ~InTables(r) PROVE MuxInv'
  <2>1. GoesOn(r) /\ ~Begins(r)
    BY <1>1, <1>6, <1>7 DEF GoesOn, Begins, InTables
  <2>2. Told(r, <<>>) /\ ClosesWell(r, <<>>)
    BY <1>7, ToldNothing DEF ClosesWell
  <2>3. QED
    BY <1>1, <1>3, <1>4, <1>7, <2>1, <2>2, TellingKeeps
<1>8. ASSUME t = "OPEN", GwOpen(r) PROVE MuxInv'
  <2>1. CASE /\ tab' = [tab EXCEPT ![i] = [tab |-> IF req[r].kind = "post" THEN "gated"
                                                    ELSE req[r].kind, r |-> r]]
             /\ up' = [up EXCEPT ![r] = IF req[r].kind \in {"http", "ws"} THEN "asked" ELSE @]
             /\ inner' = inner /\ UNCHANGED toH
    <3>1. Begins(r)
      BY <1>1, <1>5, <1>8, <2>1 DEF Begins, TableOf
    <3>2. up'[r] # "streaming"
      BY <1>1, <1>5, <1>6, <1>8, <2>1
    <3>3. Told(r, <<>>) /\ ClosesWell(r, <<>>)
      BY <1>5, <1>8, <2>1, <3>2, ToldNothing DEF ClosesWell
    <3>4. QED
      BY <1>1, <1>3, <1>4, <1>8, <2>1, <3>1, <3>3, TellingKeeps
  <2>2. CASE req[r].kind \in {"http", "ws"} /\ GwAnswer(r)
    <3>1. UNCHANGED <<tab, up, inner>> /\ GoesOn(r) /\ ~Begins(r)
      BY <1>1, <1>6, <2>2 DEF GwAnswer, GoesOn, Begins, InTables
    <3>2. \E ts : Told(r, ts) /\ ClosesWell(r, ts)
      <4>1. CASE req[r].kind = "ws"
        <5>1. Told(r, <<"CLOSE">>)
          BY <2>2, <4>1, ToldOne DEF GwAnswer
        <5>2. ClosesWell(r, <<"CLOSE">>)
          BY <4>1 DEF ClosesWell
        <5>3. QED
          BY <5>1, <5>2
      <4>2. CASE req[r].kind # "ws"
        <5>1. Told(r, <<"OPEN", "CLOSE">>)
          BY <2>2, <4>2, ToldAnswer DEF GwAnswer
        <5>2. ClosesWell(r, <<"OPEN", "CLOSE">>)
          BY <1>5, <1>8, <3>1 DEF ClosesWell
        <5>3. QED
          BY <5>1, <5>2
      <4>3. QED
        BY <4>1, <4>2
    <3>3. QED
      BY <1>1, <1>3, <1>4, <1>8, <3>1, <3>2, TellingKeeps
  <2>3. inner' = [inner EXCEPT ![r] = IF req[r].kind = "raw" THEN "handshake" ELSE @] => inner' = inner
    BY <1>1, <1>6
  <2>4. QED
    BY <1>8, <2>1, <2>2, <2>3 DEF GwOpen
<1>9. ASSUME tab[i].tab \in {"gated", "ws", "http"}, up' = up \/ up' = [up EXCEPT ![r] = "destroyed"],
             tab' = [tab EXCEPT ![i] = Empty], inner' = inner,
             t = "DATA" => tab[i].tab = "gated", t # "OPEN",
             up' = up => tab[i].tab = "gated", up' # up => req[r].cl # "active",
             NEW ts, Told(r, ts),
             req[r].kind = "http" => up'[r] = "destroyed"
      PROVE  MuxInv'
  <2>1. Ends(r)
    BY <1>1, <1>6, <1>9, OwnEntry DEF Ends, UpStates, Live, TableOf
  <2>2. ClosesWell(r, ts)
    BY <1>9 DEF ClosesWell
  <2>3. ~Begins(r)
    BY <1>6, <2>1 DEF Ends, Begins, InTables
  <2>4. QED
    BY <1>1, <1>3, <1>4, <1>9, <2>1, <2>2, <2>3, TellingKeeps
<1>10. ASSUME t = "DATA", GwData(r) PROVE MuxInv'
  <2>1. tab[i].tab # "raw"
    BY OwnEntry
  <2>2. CASE UNCHANGED <<tab, up, inner, toH>>
    BY <1>7, <1>10, <2>2
  <2>3. CASE /\ tab[i].tab = "gated" /\ tab' = [tab EXCEPT ![i] = Empty]
             /\ ToHub(<<Down("CLOSE", i, r)>>) /\ UNCHANGED <<up, inner>>
    <3>1. Told(r, <<"CLOSE">>)
      BY <2>3, ToldOne
    <3>2. req[r].kind # "http"
      BY <2>3, OwnEntry DEF TableOf
    <3>3. QED
      BY <1>9, <1>10, <2>3, <3>1, <3>2
  <2>4. QED
    BY <1>10, <2>1, <2>2, <2>3 DEF GwData
<1>11. ASSUME NEW code \in {0, 1}, t = IF code = 0 THEN "CLOSE0" ELSE "CLOSE1", GwCloseFrame(r, code)
       PROVE  MuxInv'
  <2>1. tab[i].tab # "raw" /\ inner' = inner /\ t # "OPEN" /\ t # "DATA"
    BY <1>11, OwnEntry DEF GwCloseFrame
  <2>2. ASSUME Release(r), tab[i].tab \in {"ws", "http"}, t = "CLOSE1" PROVE MuxInv'
    <3>1. \E x \in {"ERROR", "CLOSE"} : Told(r, <<x>>)
      BY <2>2, ToldOne DEF Release, LateFrame
    <3>2. up' = [up EXCEPT ![r] = "destroyed"] /\ up'[r] = "destroyed" /\ tab[i].r = r
          /\ tab' = [tab EXCEPT ![i] = Empty] /\ up[r] \in Live
      BY <1>1, <1>6, <2>2, OwnEntry DEF Release, TableOf
    <3>3. up' # up /\ req[r].cl # "active"
      BY <1>5, <2>2, <3>2 DEF Live
    <3>4. QED
      BY <1>9, <2>1, <2>2, <3>1, <3>2, <3>3
  <2>3. CASE tab[i].tab = "gated"
    <3>1. /\ tab' = [tab EXCEPT ![i] = Empty] /\ up' = up
          /\ ToHub(<<Down("OPEN", i, r), Down("CLOSE", i, r)>>)
      BY <1>11, <2>3 DEF GwCloseFrame, GateSubmit
    <3>2. Told(r, <<"OPEN", "CLOSE">>)
      BY <3>1, ToldAnswer
    <3>3. req[r].kind # "http"
      BY <2>3, OwnEntry DEF TableOf
    <3>4. QED
      BY <1>9, <2>1, <2>3, <3>1, <3>2, <3>3
  <2>4. CASE tab[i].tab = "ws"
    <3>1. Release(r)
      BY <1>11, <2>4 DEF GwCloseFrame
    <3>2. t # "CLOSE0"
      BY <1>5, <2>4, OwnEntry DEF TableOf
    <3>3. QED
      BY <1>11, <2>2, <2>4, <3>1, <3>2
  <2>5. CASE tab[i].tab = "http"
    <3>1. IF code # 0 THEN Release(r) ELSE HalfClose(r)
      BY <1>11, <2>5 DEF GwCloseFrame, IsAbortClose
    <3>2. CASE code # 0
      BY <1>11, <2>2, <2>5, <3>1, <3>2
    <3>3. CASE code = 0
      BY <1>7, <1>11, <2>1, <3>1, <3>3 DEF HalfClose
    <3>4. QED
      BY <3>2, <3>3
  <2>6. CASE tab[i].tab \notin {"gated", "ws", "http"}
    <3>1. UNCHANGED <<tab, up, toH>>
      BY <1>11, <2>1, <2>6 DEF GwCloseFrame
    <3>2. ~InTables(r)
      BY <2>6, OwnEntry
    <3>3. QED
      BY <1>7, <2>1, <3>1, <3>2
  <2>7. QED
    BY <2>3, <2>4, <2>5, <2>6
<1>12. QED
  BY <1>3, <1>4, <1>8, <1>10, <1>11 DEF GwRecv
LEMMA UpstreamKeeps ==
    ASSUME MuxInv, NEW r \in Reqs, Upstream(r) PROVE MuxInv'
<1>1. /\ UNCHANGED <<epoch, link, hubOn, nextId, req, inner, toG>> /\ up[r] \in Live
      /\ inner \in [Reqs -> {"none", "handshake", "ready"}]
      /\ tab \in [Ids -> [tab: Tables, r: Reqs \cup {None}]] /\ up \in [Reqs -> UpStates]
  BY DEF Upstream, UpHead, UpData, UpEnd, UpFail, Live, MuxInv, TypeOK
<1>2. r \in Current /\ tab[req[r].id].r = r /\ req[r].id \in Ids /\ req[r].kind # "raw"
      /\ up[r] # "none"
  BY <1>1 DEF MuxInv, NoOrphanUpstream, Current, IdsInv, TypeOK, ReqRec, Live
<1>3. ~Begins(r)
  BY <1>2 DEF Begins
<1>4. CASE UpHead(r)
  <2>1. GoesOn(r)
    BY <1>1, <1>4 DEF UpHead, GoesOn, UpStates, Live
  <2>2. CASE up' = [up EXCEPT ![r] = "streaming"] /\ Send(r, <<"OPEN">>)
    <3>1. Told(r, <<"OPEN">>)
      BY <1>2, <2>2, ToldBySend, <<"OPEN">> \in Seq({"OPEN", "DATA", "CLOSE", "ERROR"})
    <3>2. ClosesWell(r, <<"OPEN">>)
      BY <1>4 DEF ClosesWell, UpHead
    <3>3. QED
      BY <1>1, <1>2, <1>3, <2>1, <3>1, <3>2, TellingKeeps
  <2>3. CASE up' = [up EXCEPT ![r] = "buffering"] /\ UNCHANGED toH
    <3>1. Told(r, <<>>)
      BY <1>2, <2>3, ToldNothing
    <3>2. ClosesWell(r, <<>>)
      BY <1>1, <1>4, <2>3 DEF ClosesWell, UpHead
    <3>3. QED
      BY <1>1, <1>2, <1>3, <2>1, <3>1, <3>2, TellingKeeps
  <2>4. QED
    BY <1>4, <2>2, <2>3 DEF UpHead
<1>5. CASE UpData(r)
  <2>1. GoesOn(r) /\ up' = up
    BY <1>1, <1>5 DEF UpData, GoesOn
  <2>2. PICK t \in {"DATA", "CLOSE"} :
          Send(r, <<t>>) /\ (up[r] = "streaming" \/ req[r].kind = "ws")
    BY <1>5 DEF UpData
  <2>3. Told(r, <<t>>)
    BY <1>2, <2>2, ToldBySend, <<t>> \in Seq({"OPEN", "DATA", "CLOSE", "ERROR"})
  <2>4. ClosesWell(r, <<t>>)
    BY <2>1, <2>2 DEF ClosesWell
  <2>5. QED
    BY <1>1, <1>2, <1>3, <2>1, <2>3, <2>4, TellingKeeps
<1>6. ASSUME UpEnd(r) \/ UpFail(r) PROVE MuxInv'
  <2>1. PICK x \in {"ended", "failed", "cut"} :
          /\ up' = [up EXCEPT ![r] = x] /\ tab' = [tab EXCEPT ![req[r].id] = Empty]
          /\ x = "cut" <=> (UpFail(r) /\ up[r] = "buffering")
    BY <1>1, <1>2, <1>6 DEF UpEnd, UpFail, Forget, Live
  <2>2. Ends(r)
    BY <1>1, <1>2, <2>1 DEF Ends, UpStates, Live
  <2>3. \E ts : Told(r, ts) /\ ClosesWell(r, ts)
    <3>1. ASSUME NEW ts \in {<<"CLOSE">>, <<"OPEN", "DATA", "CLOSE">>, <<"CLOSE", "CLOSE">>,
                             <<"ERROR">>}, Send(r, ts)
          PROVE  Told(r, ts)
      <4>1. ts \in Seq({"OPEN", "DATA", "CLOSE", "ERROR"})
        <5>1. /\ <<"CLOSE">> \in Seq({"OPEN", "DATA", "CLOSE", "ERROR"})
              /\ <<"OPEN", "DATA", "CLOSE">> \in Seq({"OPEN", "DATA", "CLOSE", "ERROR"})
              /\ <<"CLOSE", "CLOSE">> \in Seq({"OPEN", "DATA", "CLOSE", "ERROR"})
              /\ <<"ERROR">> \in Seq({"OPEN", "DATA", "CLOSE", "ERROR"})
          OBVIOUS
        <5>2. QED
          BY <3>1, <5>1
      <4>2. QED
        BY <1>2, <3>1, <4>1, ToldBySend
    <3>2. up'[r] # "streaming"
      BY <1>1, <2>1
    <3>3. CASE UpEnd(r) /\ up[r] = "buffering" /\ Send(r, <<"OPEN", "DATA", "CLOSE">>)
      <4>1. ClosesWell(r, <<"OPEN", "DATA", "CLOSE">>)
        BY <3>2, <3>3 DEF ClosesWell
      <4>2. QED
        BY <3>1, <3>3, <4>1
    <3>4. CASE Send(r, <<"CLOSE">>) /\ (up[r] = "streaming" \/ req[r].kind = "ws" \/ up'[r] = "cut")
      <4>1. ClosesWell(r, <<"CLOSE">>)
        BY <3>2, <3>4 DEF ClosesWell
      <4>2. QED
        BY <3>1, <3>4, <4>1
    <3>5. CASE Send(r, <<"CLOSE", "CLOSE">>) /\ req[r].kind = "ws"
      <4>1. ClosesWell(r, <<"CLOSE", "CLOSE">>)
        BY <3>5 DEF ClosesWell
      <4>2. QED
        BY <3>1, <3>5, <4>1
    <3>6. CASE Send(r, <<"ERROR">>) /\ up[r] = "asked"
      <4>1. ClosesWell(r, <<"ERROR">>)
        BY <3>2, <3>6 DEF ClosesWell
      <4>2. QED
        BY <3>1, <3>6, <4>1
    <3>7. UpFail(r) /\ up[r] = "buffering" => up'[r] = "cut"
      BY <1>1, <2>1
    <3>8. QED
      BY <1>1, <1>6, <3>3, <3>4, <3>5, <3>6, <3>7 DEF UpEnd, UpFail, FailureFrames, Live
  <2>4. QED
    BY <1>1, <1>2, <1>3, <2>2, <2>3, TellingKeeps
<1>7. QED
  BY <1>4, <1>5, <1>6 DEF Upstream

LEMMA TunnelKeeps ==
    ASSUME MuxInv, TunnelStep PROVE MuxInv'
<1> USE DEF MuxInv
<1>0. toG \in Seq(FrameG) /\ toH \in Seq(FrameH) /\ <<>> \in Seq(FrameG) /\ <<>> \in Seq(FrameH)
      /\ Len(<<>>) = 0
  BY FrameTypes
<1>1. CASE Break
  <2>1. /\ UNCHANGED <<epoch, hubOn, nextId, req, tab, up, inner>> /\ link = "up"
        /\ link' = "broken" /\ toG' = <<>> /\ toH' = <<>>
    BY <1>1 DEF Break
  <2>2. Current' = Current /\ \A r \in Reqs : Answering(r)' <=> Answering(r)
    BY <2>1 DEF Current, Answering
  <2>3. TypeOK'
    BY <1>0, <2>1 DEF TypeOK, FrameG, FrameH
  <2>4. IdsInv' /\ LinkInv' /\ TablesInv' /\ ToGatewayInv' /\ GoneInv' /\ ToHubInv'
    BY <2>1, <2>2 DEF IdsInv, LinkInv, TablesInv, ToGatewayInv, GoneInv, ToHubInv
  <2>5. NoOrphanUpstream' /\ KeptWhileWanted' /\ AnswerInv'
    BY <2>1, <2>2 DEF NoOrphanUpstream, KeptWhileWanted, AnswerInv
  <2>6. QED
    BY <2>3, <2>4, <2>5
<1>2. CASE GwNotices
  <2>1. /\ UNCHANGED <<epoch, hubOn, nextId, req, inner, toG, toH>> /\ link = "broken"
        /\ link' = "down" /\ toG = <<>> /\ toH = <<>>
        /\ tab' = [i \in Ids |-> Empty]
        /\ up' = [r \in Reqs |-> IF InTables(r) /\ up[r] \in Live THEN "destroyed" ELSE up[r]]
    BY <1>2 DEF GwNotices, Cleanup, LinkInv
  <2>2. Current' = Current
    BY <2>1 DEF Current
  <2>3. /\ \A i \in Ids : tab'[i].r = None /\ tab'[i].tab = "none"
        /\ tab' \in [Ids -> [tab: Tables, r: Reqs \cup {None}]]
    BY <2>1 DEF Empty, Tables
  <2>4. \A r \in Reqs : /\ up'[r] \notin Live /\ up'[r] \in UpStates
                        /\ up'[r] = up[r] \/ (up'[r] = "destroyed" /\ up[r] \in Live)
    <3>1. \A r \in Reqs : up[r] \in Live => InTables(r)
      BY DEF NoOrphanUpstream, InTables, TypeOK, ReqRec
    <3>2. QED
      BY <2>1, <3>1 DEF TypeOK, UpStates, Live
  <2>5. TypeOK'
    <3>1. up' \in [Reqs -> UpStates]
      BY <2>1, <2>4
    <3>2. QED
      BY <2>1, <2>3, <3>1 DEF TypeOK
  <2>6. IdsInv'
    BY <2>1, <2>2, <2>4 DEF IdsInv, Live
  <2>7. LinkInv' /\ TablesInv' /\ ToGatewayInv' /\ GoneInv' /\ ToHubInv'
    BY <2>1, <2>2, <2>3 DEF LinkInv, TablesInv, ToGatewayInv, GoneInv, ToHubInv
  <2>8. NoOrphanUpstream' /\ KeptWhileWanted'
    BY <2>1, <2>4 DEF NoOrphanUpstream, KeptWhileWanted
  <2>9. AnswerInv'
    <3>1. \A r \in Reqs : Answering(r)' => Answering(r)
      BY <2>1, <2>4 DEF Answering, Live
    <3>2. QED
      BY <2>1, <2>2, <3>1 DEF AnswerInv
  <2>10. QED
    BY <2>5, <2>6, <2>7, <2>8, <2>9
<1>3. CASE HubNotices
  <2>1. UNCHANGED <<epoch, link, nextId, req, tab, up, inner, toG, toH>> /\ hubOn' = FALSE
    BY <1>3 DEF HubNotices
  <2>2. /\ Current' = Current
        /\ \A r \in Reqs : /\ Answering(r)' <=> Answering(r)
                           /\ InTables(r)' <=> InTables(r)
                           /\ Aborting(r)' <=> Aborting(r)
                           /\ Opening(r)' <=> Opening(r)
    BY <2>1 DEF Current, Answering, InTables, Aborting, Opening
  <2>3. TypeOK'
    BY <2>1 DEF TypeOK
  <2>4. IdsInv' /\ LinkInv' /\ TablesInv' /\ ToGatewayInv' /\ ToHubInv'
    BY <2>1, <2>2 DEF IdsInv, LinkInv, TablesInv, ToGatewayInv, ToHubInv, InTables
  <2>5. GoneInv' /\ NoOrphanUpstream' /\ KeptWhileWanted' /\ AnswerInv'
    BY <2>1, <2>2 DEF GoneInv, NoOrphanUpstream, KeptWhileWanted, AnswerInv, Current
  <2>6. QED
    BY <2>3, <2>4, <2>5
<1>4. CASE Reconnect
  <2>1. /\ UNCHANGED <<req, tab, up, inner, toG, toH>> /\ link = "down" /\ epoch < MaxTunnels
        /\ epoch' = epoch + 1 /\ link' = "up" /\ hubOn' = TRUE /\ nextId' = 1
        /\ toG = <<>> /\ toH = <<>> /\ epoch \in 1..MaxTunnels /\ MaxTunnels \in Nat
        /\ epoch \in Nat
    BY <1>4, StreamMuxAssumption DEF Reconnect, LinkInv, TypeOK
  <2>2. \A r \in Reqs : req[r].ep # epoch' /\ req[r].ep <= epoch' /\ req[r].ep \in Nat
    BY <2>1 DEF IdsInv, TypeOK, ReqRec
  <2>3. Current' = {} /\ Cardinality(Current') = 0
    BY <2>1, <2>2, FS_EmptySet DEF Current
  <2>4. \A i \in Ids : tab[i].r = None /\ tab[i].tab = "none"
    BY <2>1 DEF TablesInv
  <2>5. \A r \in Reqs : up[r] \notin Live
    BY <2>4, StreamMuxAssumption DEF NoOrphanUpstream, TypeOK, ReqRec
  <2>6. TypeOK'
    <3>1. 1 \in 1..(Cardinality(Reqs) + 1)
      BY StreamMuxAssumption, FS_CardinalityType
    <3>2. QED
      BY <2>1, <3>1 DEF TypeOK
  <2>7. IdsInv'
    BY <2>1, <2>2, <2>3 DEF IdsInv
  <2>8. LinkInv' /\ TablesInv' /\ ToGatewayInv' /\ GoneInv' /\ ToHubInv'
    BY <2>1, <2>3, <2>4 DEF LinkInv, TablesInv, ToGatewayInv, GoneInv, ToHubInv
  <2>9. NoOrphanUpstream' /\ KeptWhileWanted'
    BY <2>1, <2>2, <2>5 DEF NoOrphanUpstream, KeptWhileWanted
  <2>10. AnswerInv'
    BY <2>1, <2>3 DEF AnswerInv, Answering
  <2>11. QED
    BY <2>6, <2>7, <2>8, <2>9, <2>10
<1>5. QED
  BY <1>1, <1>2, <1>3, <1>4 DEF TunnelStep

LEMMA MuxInit == Init => MuxInv
<1> SUFFICES ASSUME Init PROVE MuxInv
  OBVIOUS
<1>1. /\ epoch = 1 /\ link = "up" /\ hubOn = TRUE /\ nextId = 1 /\ toG = <<>> /\ toH = <<>>
      /\ \A r \in Reqs : /\ req[r].cl = "idle" /\ req[r].kind = "http" /\ req[r].ep = 0
                         /\ req[r].hh = FALSE /\ req[r].seen = "none"
                         /\ up[r] = "none"
      /\ \A i \in Ids : tab[i].r = None /\ tab[i].tab = "none"
  BY DEF Init, Empty
<1>2. Current = {} /\ Cardinality(Current) = 0
  BY <1>1, FS_EmptySet DEF Current
<1>3. TypeOK
  <2>1. Cardinality(Reqs) \in Nat /\ (Reqs # {} => 1 \in Ids)
    BY StreamMuxAssumption, FS_CardinalityType, FS_EmptySet DEF Ids
  <2>2. req \in [Reqs -> ReqRec]
    BY <2>1, StreamMuxAssumption DEF Init, ReqRec
  <2>3. tab \in [Ids -> [tab: Tables, r: Reqs \cup {None}]]
    BY DEF Init, Empty, Tables
  <2>4. up \in [Reqs -> UpStates] /\ inner \in [Reqs -> {"none", "handshake", "ready"}]
    BY DEF Init, UpStates
  <2>5. QED
    BY <1>1, <2>1, <2>2, <2>3, <2>4, StreamMuxAssumption DEF TypeOK
<1>4. IdsInv
  BY <1>1, <1>2 DEF IdsInv
<1>5. LinkInv /\ TablesInv /\ ToGatewayInv /\ GoneInv /\ ToHubInv
  BY <1>1, <1>2 DEF LinkInv, TablesInv, ToGatewayInv, GoneInv, ToHubInv
<1>6. NoOrphanUpstream /\ KeptWhileWanted /\ AnswerInv
  BY <1>1, <1>2 DEF NoOrphanUpstream, KeptWhileWanted, AnswerInv, Live
<1>7. QED
  BY <1>3, <1>4, <1>5, <1>6 DEF MuxInv

LEMMA MuxNext ==
    ASSUME Kinds \subseteq {"http", "post", "ws"}, MuxInv, [Next]_vars PROVE MuxInv'
<1>1. CASE HubStep
  BY <1>1, HubRecvKeeps, BrowserKeeps DEF HubStep
<1>2. CASE GwRecv
  BY <1>2, GwRecvKeeps
<1>3. CASE TunnelStep
  BY <1>3, TunnelKeeps
<1>4. ASSUME NEW r \in Reqs, Browser(r) \/ Upstream(r) PROVE MuxInv'
  BY <1>4, OpenKeeps, BrowserKeeps, UpstreamKeeps DEF Browser
<1>5. CASE UNCHANGED vars
  <2>1. UNCHANGED <<epoch, link, hubOn, nextId, req, tab, up, inner, toG, toH>>
    BY <1>5 DEF vars
  <2>2. /\ Current' = Current
        /\ \A r \in Reqs : /\ Answering(r)' <=> Answering(r)
                           /\ InTables(r)' <=> InTables(r)
                           /\ Aborting(r)' <=> Aborting(r)
                           /\ Opening(r)' <=> Opening(r)
    BY <2>1 DEF Current, Answering, InTables, Aborting, Opening
  <2>3. TypeOK' /\ IdsInv' /\ LinkInv' /\ TablesInv' /\ ToGatewayInv' /\ ToHubInv'
    BY <2>1, <2>2 DEF MuxInv, TypeOK, IdsInv, LinkInv, TablesInv, ToGatewayInv, ToHubInv, InTables
  <2>4. GoneInv' /\ NoOrphanUpstream' /\ KeptWhileWanted' /\ AnswerInv'
    BY <2>1, <2>2 DEF MuxInv, GoneInv, NoOrphanUpstream, KeptWhileWanted, AnswerInv, Current
  <2>5. QED
    BY <2>3, <2>4 DEF MuxInv
<1>6. QED
  BY <1>1, <1>2, <1>3, <1>4, <1>5 DEF Next

-----------------------------------------------------------------------------
\* However requests, frames, upstreams and losses of the tunnel interleave, the
\* queues and tables of both ends are what the module says they are.
THEOREM MuxTypes ==
    ASSUME Kinds \subseteq {"http", "post", "ws"} PROVE Spec => []TypeOK
<1>1. MuxInv /\ [Next]_vars => MuxInv'
  BY MuxNext
<1>2. QED
  BY <1>1, MuxInit, PTL DEF Spec, MuxInv

\* An upstream of the gateway runs, and its stream is in the table, exactly as
\* long as a browser waits for it: no half-close orphans it, no other stream's
\* end destroys it, no entry outlasts its browser.
THEOREM UpstreamLives ==
    ASSUME Kinds \subseteq {"http", "post", "ws"} PROVE Spec => []UpstreamIffWanted
<1>1. MuxInv /\ [Next]_vars => MuxInv'
  BY MuxNext
<1>2. MuxInv => UpstreamIffWanted
  <2> SUFFICES ASSUME MuxInv PROVE EntriesReleased
    BY DEF UpstreamIffWanted, MuxInv
  <2>1. ASSUME NEW r \in Reqs, AtRest(r) PROVE ~InTables(r)
    <3>1. r \in Current /\ ~Aborting(r)
      BY <2>1 DEF AtRest, Current, Aborting
    <3>2. QED
      BY <2>1, <3>1 DEF MuxInv, GoneInv, AtRest
  <2>2. QED
    BY <2>1 DEF EntriesReleased
<1>3. QED
  BY <1>1, <1>2, MuxInit, PTL DEF Spec

\* No frame reaches the browser of another request, whatever stream ids a new
\* tunnel hands out again.
THEOREM FramesStayApart ==
    ASSUME Kinds \subseteq {"http", "post", "ws"} PROVE Spec => []NoCrossTalk
<1>1. MuxInv /\ [Next]_vars => MuxInv'
  BY MuxNext
<1>2. MuxInv => NoCrossTalk
  BY DEF MuxInv, ToHubInv, IdsInv, Current, NoCrossTalk, Handles
<1>3. QED
  BY <1>1, <1>2, MuxInit, PTL DEF Spec

\* An upstream that fails before its response never becomes an empty 200.
THEOREM FailuresShow ==
    ASSUME Kinds \subseteq {"http", "post", "ws"} PROVE Spec => []FailureIsAnError
<1>1. MuxInv /\ [Next]_vars => MuxInv'
  BY MuxNext
<1>2. MuxInv => FailureIsAnError
  BY DEF MuxInv, AnswerInv, Answering, FailureIsAnError
<1>3. QED
  BY <1>1, <1>2, MuxInit, PTL DEF Spec
=============================================================================
