----------------------------- MODULE StreamMux -----------------------------
(***************************************************************************)
(* The streams inside the tunnel of one host.  On the hub: handleRelay,    *)
(* handleRelayUpgrade and handleRawUpgrade of hub/src/relay.ts over the    *)
(* stream table of TunnelConn (hub/src/tunnel.ts).  On the gateway: the    *)
(* dispatchers of gateway/src/join.ts over their tables httpStreams,       *)
(* wsStreams, gatedHttp and rawStreams, and the requests to dsh web.       *)
(*                                                                         *)
(* A request of a browser is a member of Reqs.  Frames carry stream ids,   *)
(* which every tunnel hands out from 1 again; "from" in a frame towards    *)
(* the hub records, for the properties only, whose upstream produced it.   *)
(* How a tunnel is established and lost is in module Tunnel.               *)
(***************************************************************************)
EXTENDS Naturals, Sequences, FiniteSets

CONSTANTS
    Reqs,         \* requests of browsers, each used once
    None,         \* no request
    Kinds,        \* subset of {"http", "post", "ws", "raw"}; a "post" is one
                  \* that the access code gate has to look at first
    MaxTunnels,   \* bound on the connections of the tunnel, one after another
    MaxQueue      \* body data is sent only while fewer frames are on their way

ASSUME StreamMuxAssumption ==
    /\ None \notin Reqs
    /\ IsFiniteSet(Reqs)
    /\ Kinds \subseteq {"http", "post", "ws", "raw"}
    /\ MaxTunnels \in Nat \ {0}
    /\ MaxQueue \in Nat

VARIABLES
    epoch,   \* which connection of the tunnel
    link,    \* "up", "broken" (nobody knows yet), "down" (the gateway knows)
    hubOn,   \* the hub's registry has a tunnel for the host
    nextId,  \* nextStreamId of the current TunnelConn
    req,     \* the hub's side of each request, and what its browser sees
    tab,     \* the gateway's tables: stream id -> table and request
    up,      \* the request to dsh web, or the WebSocket to it
    inner,   \* the inner dispatcher of a raw stream
    toG, toH \* frames in flight

vars == <<epoch, link, hubOn, nextId, req, tab, up, inner, toG, toH>>

Ids    == 1..Cardinality(Reqs)
Tables == {"none", "http", "ws", "gated", "raw"}

\* cl: the browser's side (its response, or its WebSocket); body: is the
\* request body still coming; hh: is the handler in the stream table; head:
\* was the response head written; seen: how the response ended.
ReqRec == [cl: {"idle", "active", "ended", "closed", "gone"},
           kind: {"http", "post", "ws", "raw"}, ep: 0..MaxTunnels, id: Ids,
           body: BOOLEAN, hh: BOOLEAN, head: BOOLEAN,
           seen: {"none", "ok", "502"}]

Live == {"asked", "buffering", "streaming"}
UpStates == Live \cup {"none", "ended", "failed", "cut", "destroyed"}

Empty == [tab |-> "none", r |-> None]

TypeOK ==
    /\ epoch \in 1..MaxTunnels
    /\ link \in {"up", "broken", "down"}
    /\ hubOn \in BOOLEAN
    /\ nextId \in 1..(Cardinality(Reqs) + 1)
    /\ req \in [Reqs -> ReqRec]
    /\ tab \in [Ids -> [tab: Tables, r: Reqs \cup {None}]]
    /\ up \in [Reqs -> UpStates]
    /\ inner \in [Reqs -> {"none", "handshake", "ready"}]
    /\ toG \in Seq([t: {"OPEN", "DATA", "CLOSE0", "CLOSE1"}, r: Reqs])
    /\ toH \in Seq([t: {"OPEN", "DATA", "CLOSE", "ERROR"}, id: Ids, from: Reqs])

Init ==
    /\ epoch = 1 /\ link = "up" /\ hubOn = TRUE /\ nextId = 1
    /\ req = [r \in Reqs |-> [cl |-> "idle", kind |-> "http", ep |-> 0, id |-> 1,
                              body |-> TRUE, hh |-> FALSE, head |-> FALSE,
                              seen |-> "none"]]
    /\ tab = [i \in Ids |-> Empty]
    /\ up = [r \in Reqs |-> "none"]
    /\ inner = [r \in Reqs |-> "none"]
    /\ toG = <<>> /\ toH = <<>>

Frame(t, r) == [t |-> t, r |-> r]
Down(t, i, r) == [t |-> t, id |-> i, from |-> r]

\* TunnelConn.send: nothing happens unless that connection is open.
ToGateway(r, ts) ==
    toG' = IF link = "up" /\ req[r].ep = epoch
           THEN toG \o [k \in 1..Len(ts) |-> Frame(ts[k], r)] ELSE toG

\* sendTunnelFrame: through the current client, whichever that is.
ToHub(fs) == toH' = IF link = "up" THEN toH \o fs ELSE toH

-----------------------------------------------------------------------------
(* The hub                                                                 *)

\* The stream that a frame's id names in the current connection's table.
Handles(r, i) == req[r].hh /\ req[r].ep = epoch /\ req[r].id = i

\* Mutant: ids that are free in the stream table are used again.
LowestFreeId == CHOOSE i \in Ids :
    /\ \A r \in Reqs : ~Handles(r, i)
    /\ \A j \in 1..(i - 1) : \E r \in Reqs : Handles(r, j)

\* assignStreamId: an id is used once in the life of a tunnel.
AssignStreamId == nextId

\* A request arrives while a tunnel is registered (otherwise it is answered
\* 503 at once and takes no stream).
Open(r) ==
    /\ req[r].cl = "idle"
    /\ hubOn
    /\ \E k \in Kinds :
         req' = [req EXCEPT ![r].cl = "active", ![r].kind = k, ![r].ep = epoch,
                            ![r].id = AssignStreamId, ![r].hh = TRUE]
    /\ nextId' = nextId + 1
    /\ toG' = IF link = "up" THEN Append(toG, Frame("OPEN", r)) ELSE toG
    /\ UNCHANGED <<epoch, link, hubOn, tab, up, inner, toH>>

\* A part of the request body, or a message on the browser's WebSocket.
Body(r) ==
    /\ req[r].cl = "active" /\ req[r].body
    /\ Len(toG) < MaxQueue
    /\ ToGateway(r, <<"DATA">>)
    /\ UNCHANGED <<epoch, link, hubOn, nextId, req, tab, up, inner, toH>>

\* req "end": only half of the stream is closed, the handler stays.
BodyEnd(r) ==
    /\ req[r].cl \in {"active", "ended"} /\ req[r].body
    /\ req[r].kind \in {"http", "post"}
    /\ req' = [req EXCEPT ![r].body = FALSE]
    /\ ToGateway(r, <<"CLOSE0">>)
    /\ UNCHANGED <<epoch, link, hubOn, nextId, tab, up, inner, toH>>

\* The browser goes away: abortStream.
Abort(r) ==
    /\ req[r].cl = "active"
    /\ req' = [req EXCEPT ![r].cl = "gone", ![r].hh = FALSE, ![r].body = FALSE]
    /\ ToGateway(r, <<"CLOSE1">>)
    /\ UNCHANGED <<epoch, link, hubOn, nextId, tab, up, inner, toH>>

\* res "close" after the response was ended, clientWs "close" after terminate.
Closed(r) ==
    /\ req[r].cl = "ended"
    /\ req' = [req EXCEPT ![r].cl = "closed", ![r].body = FALSE]
    /\ ToGateway(r, <<"CLOSE1">>)
    /\ UNCHANGED <<epoch, link, hubOn, nextId, tab, up, inner, toH>>

HubOpen(r) ==
    /\ req' = [req EXCEPT ![r].head = req[r].kind \in {"http", "post"}]
    /\ UNCHANGED toG

\* onClose ends the response, whatever the code of the CLOSE says; a browser's
\* WebSocket is terminated and the stream aborted at once.
HubClose(r) ==
    /\ req' = [req EXCEPT ![r].cl = "ended", ![r].hh = FALSE, ![r].seen = "ok"]
    /\ IF req[r].kind \in {"ws", "raw"} THEN ToGateway(r, <<"CLOSE1">>)
       ELSE UNCHANGED toG

\* onError: 502 if the head is not out yet, otherwise the response just ends.
HubError(r) ==
    /\ req' = [req EXCEPT ![r].cl = "ended", ![r].hh = FALSE,
                          ![r].seen = IF req[r].head THEN "ok" ELSE "502"]
    /\ IF req[r].kind \in {"ws", "raw"} THEN ToGateway(r, <<"CLOSE1">>)
       ELSE UNCHANGED toG

\* TunnelConn.handleFrame; a frame for a stream nobody handles is ignored.
HubRecv ==
    /\ link = "up" /\ toH # <<>>
    /\ LET f == Head(toH) IN
         IF \E r \in Reqs : Handles(r, f.id)
         THEN \E r \in Reqs :
                /\ Handles(r, f.id)
                /\ \/ f.t = "OPEN" /\ HubOpen(r)
                   \/ f.t = "DATA" /\ UNCHANGED <<req, toG>>
                   \/ f.t = "CLOSE" /\ HubClose(r)
                   \/ f.t = "ERROR" /\ HubError(r)
         ELSE UNCHANGED <<req, toG>>
    /\ toH' = Tail(toH)
    /\ UNCHANGED <<epoch, link, hubOn, nextId, tab, up, inner>>

-----------------------------------------------------------------------------
(* The gateway                                                             *)

\* What destroying an upstream still reports: an ERROR before its response, a
\* truncating CLOSE after it.
LateFrame(r) == Down(IF up[r] = "asked" /\ req[r].kind # "ws" THEN "ERROR" ELSE "CLOSE",
                     req[r].id, r)

\* closeStream, CLOSE 1, and any CLOSE of a WebSocket: release the upstream.
Release(r) ==
    /\ tab' = [tab EXCEPT ![req[r].id] = Empty]
    /\ up' = [up EXCEPT ![r] = "destroyed"]
    /\ ToHub(<<LateFrame(r)>>)

\* Mutant: closeStream forgets the stream when the request body has ended.
ForgetOnHalfClose(r) ==
    /\ tab' = [tab EXCEPT ![req[r].id] = Empty]
    /\ UNCHANGED <<up, toH>>

\* closeStream, CLOSE 0: the request body ends, the response is still to come.
HalfClose(r) == UNCHANGED <<tab, up, toH>>

\* isAbortClose
IsAbortClose(code) == code # 0

\* handleOpen answers itself what the gate refuses, what is malformed, and the
\* request for the direct candidates ...
GwAnswer(r) ==
    /\ ToHub(IF req[r].kind = "ws" THEN <<Down("CLOSE", req[r].id, r)>>
             ELSE <<Down("OPEN", req[r].id, r), Down("CLOSE", req[r].id, r)>>)
    /\ UNCHANGED <<tab, up, inner>>

\* ... keeps the POST that the gate has to see, starts a raw stream, and passes
\* the rest on to dsh web.
GwOpen(r) ==
    LET k == req[r].kind IN
    \/ /\ tab' = [tab EXCEPT ![req[r].id] =
                    [tab |-> IF k = "post" THEN "gated" ELSE k, r |-> r]]
       /\ up' = [up EXCEPT ![r] = IF k \in {"http", "ws"} THEN "asked" ELSE @]
       /\ inner' = [inner EXCEPT ![r] = IF k = "raw" THEN "handshake" ELSE @]
       /\ UNCHANGED toH
    \/ k \in {"http", "ws"} /\ GwAnswer(r)

\* A gated body above 64 KiB is refused with CLOSE 413; otherwise it is kept.
\* A raw stream takes its first bytes as the handshake and the inner OPEN; later
\* ones may be the inner CLOSE 1; bytes that do not decrypt end the stream.
GwData(r) ==
    LET i == req[r].id
        e == tab[i].tab IN
    \/ /\ e = "gated"
       /\ tab' = [tab EXCEPT ![i] = Empty]
       /\ ToHub(<<Down("CLOSE", i, r)>>)
       /\ UNCHANGED <<up, inner>>
    \/ /\ e = "raw" /\ inner[r] = "handshake"
       /\ inner' = [inner EXCEPT ![r] = "ready"]
       /\ up' = [up EXCEPT ![r] = "asked"]
       /\ UNCHANGED <<tab, toH>>
    \/ /\ e = "raw" /\ inner[r] = "ready" /\ up[r] \in Live
       /\ up' = [up EXCEPT ![r] = "destroyed"]
       /\ ToHub(<<Down("DATA", i, r)>>)
       /\ UNCHANGED <<tab, inner>>
    \/ /\ e = "raw" /\ inner[r] = "ready"
       /\ tab' = [tab EXCEPT ![i] = Empty]
       /\ ToHub(<<Down("CLOSE", i, r)>>)
       /\ UNCHANGED <<up, inner>>
    \/ UNCHANGED <<tab, up, inner, toH>>

\* handleGateSubmit: a synthetic response, whether the body ended or the
\* browser went away.
GateSubmit(r) ==
    /\ tab' = [tab EXCEPT ![req[r].id] = Empty]
    /\ ToHub(<<Down("OPEN", req[r].id, r), Down("CLOSE", req[r].id, r)>>)
    /\ UNCHANGED up

\* The CLOSE of a raw stream forgets it.
ForgetRaw(r) ==
    /\ tab' = [tab EXCEPT ![req[r].id] = Empty]
    /\ UNCHANGED <<up, toH>>

GwCloseFrame(r, code) ==
    /\ CASE tab[req[r].id].tab = "gated" -> GateSubmit(r)
         [] tab[req[r].id].tab = "ws"    -> Release(r)
         [] tab[req[r].id].tab = "http"  -> IF IsAbortClose(code) THEN Release(r) ELSE HalfClose(r)
         [] tab[req[r].id].tab = "raw"   -> ForgetRaw(r)
         [] OTHER -> UNCHANGED <<tab, up, toH>>
    /\ UNCHANGED inner

GwRecv ==
    /\ link = "up" /\ toG # <<>>
    /\ LET f == Head(toG) IN
         \/ f.t = "OPEN" /\ GwOpen(f.r)
         \/ f.t = "DATA" /\ GwData(f.r)
         \/ f.t = "CLOSE0" /\ GwCloseFrame(f.r, 0)
         \/ f.t = "CLOSE1" /\ GwCloseFrame(f.r, 1)
    /\ toG' = Tail(toG)
    /\ UNCHANGED <<epoch, link, hubOn, nextId, req>>

-----------------------------------------------------------------------------
(* dsh web (external) and what the gateway makes of its answers            *)

\* The dispatcher's own send.  An inner dispatcher sends as DATA of the raw
\* stream that has its outer id now, if that one has keys.
Send(r, ts) ==
    LET i == req[r].id IN
    IF req[r].kind # "raw"
    THEN ToHub([k \in 1..Len(ts) |-> Down(ts[k], i, r)])
    ELSE IF tab[i].tab = "raw" /\ inner[tab[i].r] = "ready"
         THEN ToHub(<<Down("DATA", i, r)>>)
         ELSE UNCHANGED toH

\* Only the plain dispatcher's entries are in tab; an inner dispatcher's own
\* table ends with its upstream.
Forget(r) == tab' = IF req[r].kind = "raw" THEN tab
                    ELSE [tab EXCEPT ![req[r].id] = Empty]

\* The response head: HTML and JavaScript that is to be patched is buffered
\* whole, anything else is streamed behind an OPEN.
UpHead(r) ==
    /\ up[r] = "asked" /\ req[r].kind # "ws"
    /\ \/ up' = [up EXCEPT ![r] = "streaming"] /\ Send(r, <<"OPEN">>)
       \/ up' = [up EXCEPT ![r] = "buffering"] /\ UNCHANGED toH
    /\ UNCHANGED <<epoch, link, hubOn, nextId, req, tab, inner, toG>>

\* Body data, or a message on the WebSocket; a message that does not fit into a
\* frame closes the stream at the hub and asks dsh web to close too.
UpData(r) ==
    /\ \/ up[r] = "streaming" /\ Send(r, <<"DATA">>)
       \/ /\ up[r] = "asked" /\ req[r].kind = "ws"
          /\ Send(r, <<"DATA">>) \/ Send(r, <<"CLOSE">>)
    /\ Len(toH) < MaxQueue
    /\ UNCHANGED <<epoch, link, hubOn, nextId, req, tab, up, inner, toG>>

UpEnd(r) ==
    /\ \/ up[r] = "streaming" /\ Send(r, <<"CLOSE">>)
       \/ up[r] = "buffering" /\ Send(r, <<"OPEN", "DATA", "CLOSE">>)
       \/ up[r] = "asked" /\ req[r].kind = "ws" /\ Send(r, <<"CLOSE">>)
    /\ up' = [up EXCEPT ![r] = "ended"]
    /\ Forget(r)
    /\ UNCHANGED <<epoch, link, hubOn, nextId, req, inner, toG>>

\* Mutant: an upstream that cannot be reached is only logged.
SilentBeforeHead(r) == IF up[r] = "asked" THEN <<>> ELSE <<"CLOSE">>

\* Mutant: an upstream that cannot be reached ends like any other.
PlainClose(r) == <<"CLOSE">>

\* Before the response an ERROR, after it a CLOSE 502; a WebSocket reports its
\* failure and its close with a CLOSE each.
FailureFrames(r) ==
    IF req[r].kind = "ws" THEN <<"CLOSE", "CLOSE">>
    ELSE IF up[r] = "asked" THEN <<"ERROR">> ELSE <<"CLOSE">>

\* A buffered response that is cut off has had its head, but sent nothing.
UpFail(r) ==
    /\ up[r] \in Live
    /\ Send(r, FailureFrames(r))
    /\ up' = [up EXCEPT ![r] = IF @ = "buffering" THEN "cut" ELSE "failed"]
    /\ Forget(r)
    /\ UNCHANGED <<epoch, link, hubOn, nextId, req, inner, toG>>

-----------------------------------------------------------------------------
(* The tunnel underneath                                                   *)

Break ==
    /\ link = "up"
    /\ link' = "broken"
    /\ toG' = <<>> /\ toH' = <<>>
    /\ UNCHANGED <<epoch, hubOn, nextId, req, tab, up, inner>>

\* The gateway's tables have a stream of this request.
InTables(r) == \E i \in Ids : tab[i].r = r

\* cleanupStreams
Cleanup ==
    /\ tab' = [i \in Ids |-> Empty]
    /\ up' = [r \in Reqs |-> IF InTables(r) /\ up[r] \in Live THEN "destroyed"
                             ELSE up[r]]

GwNotices ==
    /\ link = "broken"
    /\ link' = "down"
    /\ Cleanup
    /\ UNCHANGED <<epoch, hubOn, nextId, req, inner, toG, toH>>

\* The hub's TunnelConn closes: it leaves the registry, and that is all.
HubNotices ==
    /\ link # "up" /\ hubOn
    /\ hubOn' = FALSE
    /\ UNCHANGED <<epoch, link, nextId, req, tab, up, inner, toG, toH>>

\* A new connection, with a new stream table on the hub.
Reconnect ==
    /\ link = "down" /\ epoch < MaxTunnels
    /\ epoch' = epoch + 1
    /\ link' = "up" /\ hubOn' = TRUE /\ nextId' = 1
    /\ UNCHANGED <<req, tab, up, inner, toG, toH>>

-----------------------------------------------------------------------------
HubStep == HubRecv \/ \E r \in Reqs : Closed(r)
Browser(r) == Open(r) \/ Body(r) \/ BodyEnd(r) \/ Abort(r)
Upstream(r) == UpHead(r) \/ UpData(r) \/ UpEnd(r) \/ UpFail(r)
TunnelStep == Break \/ GwNotices \/ HubNotices \/ Reconnect

Next ==
    \/ HubStep \/ GwRecv \/ TunnelStep
    \/ \E r \in Reqs : Browser(r) \/ Upstream(r)

Spec == Init /\ [][Next]_vars

\* Frames arrive while the connection lasts, both ends notice that it is lost;
\* browsers, dsh web and the network owe nothing.
Fairness == /\ WF_vars(HubRecv) /\ WF_vars(GwRecv)
            /\ WF_vars(GwNotices) /\ WF_vars(HubNotices)

FairSpec == Spec /\ Fairness

-----------------------------------------------------------------------------
(* Properties                                                              *)

\* Every upstream that is still working for somebody can be found under its
\* stream id: the only way in which a later CLOSE 1 or the loss of the tunnel
\* can release it (the socket leak of join.ts closeStream).
NoOrphanUpstream ==
    \A r \in Reqs : up[r] \in Live =>
        tab[req[r].id].r = r /\ req[r].ep = epoch

\* An upstream is destroyed only for a browser that has gone or a tunnel that
\* was lost: the end of a request body, or of another stream, never cuts a
\* response short.
KeptWhileWanted ==
    \A r \in Reqs : up[r] = "destroyed" /\ req[r].kind # "raw" =>
        req[r].cl # "active" \/ req[r].ep # epoch \/ link # "up"

\* A frame reaches the browser whose upstream produced it, or nobody, although
\* every tunnel hands out the same stream ids again.
NoCrossTalk ==
    \A k \in 1..Len(toH) : \A r \in Reqs :
        link = "up" /\ Handles(r, toH[k].id) => toH[k].from = r

\* Once no frame of a request is on its way any more, the gateway's tables hold
\* nothing for a browser that went away or has its whole answer.
AtRest(r) ==
    /\ req[r].cl \in {"gone", "closed"} /\ req[r].ep = epoch /\ link = "up"
    /\ \A k \in 1..Len(toG) : toG[k].r # r

EntriesReleased == \A r \in Reqs : AtRest(r) => ~InTables(r)

\* When the gateway is through with a request, the browser gets to know, unless
\* the tunnel is lost meanwhile.
Waiting(r) == req[r].cl = "active" /\ req[r].ep = epoch /\ link = "up"

Through(r) == /\ ~InTables(r) /\ up[r] \notin Live
              /\ \A k \in 1..Len(toG) : toG[k].r # r

AnswerArrives == \A r \in Reqs : Waiting(r) /\ Through(r) ~> ~Waiting(r)

\* An upstream that fails before the browser has a response head is answered
\* with an error, never with an empty 200 (PROTOCOL.md: ERROR, then 502).
\* (Not so when a buffered response is cut off.)
FailureIsAnError ==
    \A r \in Reqs : up[r] = "failed" /\ req[r].seen = "ok" /\ req[r].kind = "http"
                        => req[r].head

\* An upstream runs, and its entry stays, as long as a browser waits for it, and
\* no longer.
UpstreamIffWanted == NoOrphanUpstream /\ KeptWhileWanted /\ EntriesReleased
=============================================================================
