-------------------------------- MODULE Shim --------------------------------
(***************************************************************************)
(* The script the hub puts into every page of a host whose key the browser *)
(* has pinned (packages/hub/src/e2ee-shim.ts).  It sends each fetch of the *)
(* page over one encrypted channel, a raw stream of the host's tunnel.     *)
(*                                                                         *)
(* Everything in it is asynchronous: opening the channel, sealing a frame  *)
(* with WebCrypto, opening a sealed frame.  A fetch sends OPEN, its body   *)
(* and CLOSE one after the other, several fetches do so beside each other, *)
(* the page may abort one at any time, and the channel may end between any *)
(* two steps.                                                              *)
(*                                                                         *)
(* `Serial` says that the browser finishes decryptions in the order they   *)
(* were started.  The code relies on it and nothing in it enforces it.     *)
(***************************************************************************)
EXTENDS Integers, Sequences, SequencesExt, FiniteSets

CONSTANTS Fetches,      \* calls of window.fetch of the page
          MaxChannels,  \* bound: channels the page opens
          MaxAborts,    \* bound: calls the page aborts
          Parts,        \* DATA frames of a whole answer
          Serial        \* decryptions end in the order they started

ASSUME ShimAssumption == MaxChannels \in Nat /\ MaxAborts \in Nat /\ Parts \in Nat /\ Serial \in BOOLEAN

VARIABLES channel,   \* the script's `channel`, 0 for null
          wsOf,      \* state of the WebSocket of each channel
          counter,   \* Aead.counter of the page's direction of each channel
          onWire,    \* nonces of the frames each channel has carried
          sealing,   \* frames whose encryption is not finished
          opening,   \* sealed frames from the host, under way or being decrypted
          req,       \* the fetches
          upstream   \* what the host has done for each fetch

shimVars == <<channel, wsOf, counter, onWire, sealing, opening, req, upstream>>

Channels == 1..MaxChannels

(* a fetch: the channel it uses, whether its handler is in the table, what *)
(* the caller has seen, the parts it got, whether the caller aborted it    *)
Unasked == [at |-> "idle", c |-> 0, listens |-> FALSE, seen |-> "nothing",
            got |-> 0, aborted |-> FALSE]

ShimInit ==
    /\ channel = 0
    /\ wsOf = [c \in Channels |-> "unused"]
    /\ counter = [c \in Channels |-> 0]
    /\ onWire = [c \in Channels |-> {}]
    /\ sealing = {}
    /\ opening = [c \in Channels |-> <<>>]
    /\ req = [f \in Fetches |-> Unasked]
    /\ upstream = [f \in Fetches |-> "none"]

(***************************************************************************)
(* Sealing                                                                 *)
(***************************************************************************)

\* Aead.encrypt takes its nonce and counts on before it waits.
Seal(f, kind, c, msgs) ==
    /\ sealing' = msgs \cup {[f |-> f, kind |-> kind, c |-> c, n |-> counter[c]]}
    /\ counter' = [counter EXCEPT ![c] = @ + 1]

SealsNothing(msgs) == sealing' = msgs /\ UNCHANGED counter

(***************************************************************************)
(* window.fetch                                                            *)
(***************************************************************************)
(* With the channel at hand the handler enters the table and OPEN is       *)
(* sealed; a signal that is aborted by then rejects the call.              *)
UseChannel(f, c) ==
    IF req[f].aborted
    THEN /\ req' = [req EXCEPT ![f].at = "over", ![f].c = c, ![f].seen = "failed"]
         /\ SealsNothing(sealing)
    ELSE /\ req' = [req EXCEPT ![f].at = "open", ![f].c = c, ![f].listens = TRUE]
         /\ Seal(f, "open", c, sealing)

\* A call takes the channel there is, or starts one of its own: a second
\* call that comes while the first is still opening one opens another.
Fetch(f) ==
    /\ req[f].at = "idle"
    /\ \/ /\ channel # 0
          /\ UseChannel(f, channel)
          /\ UNCHANGED <<channel, wsOf>>
       \/ /\ channel = 0
          /\ \E c \in Channels :
                /\ wsOf[c] = "unused"
                /\ \A d \in Channels : d < c => wsOf[d] # "unused"
                /\ wsOf' = [wsOf EXCEPT ![c] = "opening"]
                /\ req' = [req EXCEPT ![f].at = "channel", ![f].c = c]
          /\ UNCHANGED <<channel, counter, sealing>>
    /\ UNCHANGED <<onWire, opening, upstream>>

\* The WebSocket of a channel is open: the ephemeral key is sent, the
\* channel becomes the page's, and the call that opened it goes on.
ChannelOpens(f) ==
    /\ req[f].at = "channel" /\ wsOf[req[f].c] = "opening"
    /\ wsOf' = [wsOf EXCEPT ![req[f].c] = "open"]
    /\ channel' = req[f].c
    /\ UseChannel(f, req[f].c)
    /\ UNCHANGED <<onWire, opening, upstream>>

(* the frames of a body are sealed and sent as its CLOSE is *)
After == [open |-> "close", close |-> "sent"]

\* A sealed frame goes out on an open channel, and the sender seals its next
\* one.  On a dead channel sendFrame throws and the sender fails the call;
\* the CLOSE of an abort is then simply dropped.
Sealed(m) ==
    LET f == m.f
        reaches == wsOf[m.c] = "open"
    IN /\ m \in sealing
       /\ onWire' = IF reaches THEN [onWire EXCEPT ![m.c] = @ \cup {m.n}] ELSE onWire
       /\ CASE m.kind = "cancel" ->
                 /\ SealsNothing(sealing \ {m})
                 /\ upstream' = IF reaches /\ upstream[f] # "none"
                                THEN [upstream EXCEPT ![f] = "ended"] ELSE upstream
                 /\ UNCHANGED req
            [] m.kind # "cancel" /\ reaches ->
                 /\ req' = [req EXCEPT ![f].at = After[m.kind]]
                 /\ IF m.kind = "close" THEN SealsNothing(sealing \ {m})
                    ELSE Seal(f, After[m.kind], m.c, sealing \ {m})
                 /\ upstream' = IF m.kind = "open" /\ upstream[f] = "none"
                                THEN [upstream EXCEPT ![f] = "asked"] ELSE upstream
            [] OTHER ->
                 /\ SealsNothing(sealing \ {m})
                 /\ req' = [req EXCEPT ![f].at = "over", ![f].listens = FALSE,
                                       ![f].seen = IF @ \in {"nothing", "head"} THEN "failed" ELSE @]
                 /\ UNCHANGED upstream
       /\ UNCHANGED <<channel, wsOf, opening>>

\* The caller aborts, or gives up the body it was reading: the handler
\* leaves the table, a body under way errors, and the host is told.  A call
\* that has no answer yet is not rejected.
Abort(f) ==
    /\ req[f].at # "idle" /\ ~req[f].aborted /\ req[f].seen \in {"nothing", "head"}
    /\ Cardinality({g \in Fetches : req[g].aborted}) < MaxAborts
    /\ req' = [req EXCEPT ![f].aborted = TRUE, ![f].listens = FALSE,
                          ![f].seen = IF @ = "head" THEN "failed" ELSE @]
    /\ IF req[f].at = "channel" \/ wsOf[req[f].c] # "open" THEN SealsNothing(sealing)
       ELSE Seal(f, "cancel", req[f].c, sealing)
    /\ UNCHANGED <<channel, wsOf, onWire, opening, upstream>>

(***************************************************************************)
(* The host's end of the channel: what its inner dispatcher sends          *)
(***************************************************************************)
Answers(f, type, state) ==
    /\ wsOf[req[f].c] = "open"
    /\ opening' = [opening EXCEPT ![req[f].c] = Append(@, [f |-> f, type |-> type])]
    /\ upstream' = [upstream EXCEPT ![f] = state]
    /\ UNCHANGED <<channel, wsOf, counter, onWire, sealing, req>>

(* the parts a host has sent for f *)
SentParts(f) == IF upstream[f] = "part1" THEN 1 ELSE IF upstream[f] = "part2" THEN 2 ELSE 0

HostHead(f) == upstream[f] = "asked" /\ Answers(f, "open", "head")

HostPart(f) ==
    /\ upstream[f] \in {"head", "part1"} /\ SentParts(f) < Parts
    /\ Answers(f, "data", IF upstream[f] = "head" THEN "part1" ELSE "part2")

HostEnd(f) ==
    /\ upstream[f] \in {"head", "part1", "part2"} /\ SentParts(f) = Parts
    /\ Answers(f, "close", "whole")

\* The upstream breaks off, cannot be reached, or the raw gate refuses the
\* stream: CLOSE with a code, or ERROR.
HostFails(f) ==
    /\ upstream[f] \in {"asked", "head", "part1", "part2"}
    /\ \E type \in {"abort", "error"} : Answers(f, type, "ended")

(***************************************************************************)
(* Frames at the page                                                      *)
(***************************************************************************)
\* (an end of any code is taken for the end of the whole answer)
AnyEnd(r, type) ==
    CASE type = "open" -> [r EXCEPT !.seen = IF @ = "nothing" THEN "head" ELSE @]
      [] type = "data" -> [r EXCEPT !.got = @ + 1]
      [] type \in {"close", "abort"} -> [r EXCEPT !.listens = FALSE, !.seen = "whole"]
      [] OTHER -> [r EXCEPT !.listens = FALSE, !.seen = "failed"]

\* The handler of a fetch: the head resolves the call, data goes into the
\* body, CLOSE with code 0 ends it, any other end is an error.
Handler(r, type) ==
    CASE type = "open" -> [r EXCEPT !.seen = IF @ = "nothing" THEN "head" ELSE @]
      [] type = "data" -> [r EXCEPT !.got = @ + 1]
      [] type = "close" -> [r EXCEPT !.listens = FALSE, !.seen = "whole"]
      [] OTHER -> [r EXCEPT !.listens = FALSE, !.seen = "failed"]

\* A frame arrived, and its decryption, which ws.onmessage starts and does
\* not wait for, ends: it goes to the handler there is, if any.  A frame can
\* overtake those before it when decryptions need not end in order.
Opened(c) ==
    /\ opening[c] # <<>>
    /\ \E i \in 1..(IF Serial THEN 1 ELSE Len(opening[c])) :
          LET frame == opening[c][i] IN
          /\ opening' = [opening EXCEPT ![c] = RemoveAt(@, i)]
          /\ req' = IF req[frame.f].listens
                    THEN [req EXCEPT ![frame.f] = Handler(@, frame.type)] ELSE req
    /\ UNCHANGED <<channel, wsOf, counter, onWire, sealing, upstream>>

\* failChannel: every handler of the channel gets an error.
FailAll(c) ==
    [f \in Fetches |->
        IF req[f].listens /\ req[f].c = c
        THEN [req[f] EXCEPT !.listens = FALSE, !.seen = "failed"]
        ELSE req[f]]

\* The WebSocket of a channel closes, or never opens.
ChannelEnds(c) ==
    /\ wsOf[c] \in {"opening", "open"}
    /\ wsOf' = [wsOf EXCEPT ![c] = "closed"]
    /\ channel' = IF channel = c THEN 0 ELSE channel
    /\ req' = IF wsOf[c] = "open" THEN FailAll(c)
              ELSE [f \in Fetches |->
                       IF req[f].at = "channel" /\ req[f].c = c
                       THEN [req[f] EXCEPT !.at = "over", !.seen = "failed"] ELSE req[f]]
    /\ opening' = [opening EXCEPT ![c] = <<>>]
    /\ upstream' = [f \in Fetches |->
                       IF req[f].c = c /\ upstream[f] # "none" THEN "ended" ELSE upstream[f]]
    /\ onWire' = [onWire EXCEPT ![c] = {}]
    /\ UNCHANGED <<counter, sealing>>

ShimNext ==
    \/ \E f \in Fetches : Fetch(f)
    \/ \E f \in Fetches : ChannelOpens(f)
    \/ \E m \in sealing : Sealed(m)
    \/ \E f \in Fetches : Abort(f)
    \/ \E f \in Fetches : HostHead(f)
    \/ \E f \in Fetches : HostPart(f)
    \/ \E f \in Fetches : HostEnd(f)
    \/ \E f \in Fetches : HostFails(f)
    \/ \E c \in Channels : Opened(c)
    \/ \E c \in Channels : ChannelEnds(c)

ShimSpec == ShimInit /\ [][ShimNext]_shimVars

(***************************************************************************)
(* Properties                                                              *)
(***************************************************************************)
ShimTypeOK ==
    /\ channel \in 0..MaxChannels
    /\ wsOf \in [Channels -> {"unused", "opening", "open", "closed"}]
    /\ \A f \in Fetches :
          /\ req[f].at \in {"idle", "channel", "open", "close", "sent", "over"}
          /\ req[f].seen \in {"nothing", "head", "whole", "failed"}
          /\ upstream[f] \in {"none", "asked", "head", "part1", "part2", "whole", "ended"}

\* An answer that a fetch reports as whole is whole: every part the host sent
\* has come, and no upstream that broke off is taken for one that ended
\* (the handler's onClose and onError in e2ee-shim.ts).
WholeIsWhole ==
    \A f \in Fetches : req[f].seen = "whole" => req[f].got = Parts

\* No call hangs in silence: one whose channel is dead, or whose answer has
\* been told in full and decrypted, has been settled - unless its caller
\* aborted it before the head of the answer came (failChannel; the abort
\* listener does not reject).
NoSilentHang ==
    \A f \in Fetches :
        LET r == req[f]
            about(s) == \E i \in DOMAIN s : s[i].f = f
            quiet == \/ wsOf[r.c] = "closed"
                     \/ /\ wsOf[r.c] = "open" /\ upstream[f] \in {"whole", "ended"}
                        /\ ~about(opening[r.c])
        IN r.c # 0 /\ ~r.aborted /\ quiet => r.seen \in {"whole", "failed"}

\* No nonce seals two frames of a channel, whatever fetches and aborts are
\* sealing beside each other (Aead.encrypt counts before it waits).
NonceOnce ==
    /\ \A m \in sealing : m.n \notin onWire[m.c]
    /\ \A m, o \in sealing : m.c = o.c /\ m.n = o.n => m = o

\* What a page is told of its requests is true, and it is told.
AnswersTrue == WholeIsWhole /\ NoSilentHang

\* The script of the page keeps its word, to the page and to the cipher.
ChannelHolds == AnswersTrue /\ NonceOnce
=============================================================================
