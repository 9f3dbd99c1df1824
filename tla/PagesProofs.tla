---------------------------- MODULE PagesProofs ----------------------------
(***************************************************************************)
(* Proofs about what runs in a browser: Shim, for any number of fetches,   *)
(* channels, aborts and parts of an answer, and PortalTables, for all      *)
(* pages, filters, requests and events; and about Plugin, which answers    *)
(* the panel of a gateway, for any number of calls that overlap.           *)
(*                                                                         *)
(* Shim.  The nonces follow from the counter of a channel being ahead of   *)
(* every frame it has sealed.  What a page is told follows, while          *)
(* decryptions end in order, from an account of each call: the parts it    *)
(* has got and those still to be decrypted are the parts its host has      *)
(* sent, and an end is the last frame of a call.                           *)
(*                                                                         *)
(* PortalTables.  Until the last request has come back it will bring what  *)
(* the page should show; from then on all others come late.                *)
(*                                                                         *)
(* Plugin.  A call knows the file it works on, the handle and the tunnel   *)
(* go together, one synchronisation at a time moves the listener, and      *)
(* whatever has a code has the one set last: each holds until the          *)
(* situation is recorded in `excuse` that breaks it.                       *)
(***************************************************************************)
EXTENDS Shim, PortalTables, Plugin, FiniteSetTheorems, SequenceTheorems, TLAPS

Sealings == [f : Fetches, kind : {"open", "close", "cancel"}, c : Channels, n : Nat]
HostFrames == [f : Fetches, type : {"open", "data", "close", "abort", "error"}]
Requests ==
    [at : {"idle", "channel", "open", "close", "sent", "over"}, c : 0..MaxChannels,
     listens : BOOLEAN, seen : {"nothing", "head", "whole", "failed"}, got : Nat, aborted : BOOLEAN]
States == {"none", "asked", "head", "part1", "part2", "whole", "ended"}

ShimShape ==
    /\ channel \in 0..MaxChannels
    /\ wsOf \in [Channels -> {"unused", "opening", "open", "closed"}]
    /\ counter \in [Channels -> Nat] /\ onWire \in [Channels -> SUBSET Nat]
    /\ sealing \subseteq Sealings
    /\ opening \in [Channels -> Seq(HostFrames)]
    /\ req \in [Fetches -> Requests] /\ upstream \in [Fetches -> States]
    /\ \A f \in Fetches : req[f].at = "idle" <=> req[f].c = 0
    /\ \A f \in Fetches : req[f].at = "idle" => upstream[f] = "none"
    /\ \A m \in sealing : req[m.f].at # "idle"

\* The counter of a channel is ahead of every nonce it has given.
NoncesCounted ==
    /\ \A c \in Channels : \A n \in onWire[c] : n < counter[c]
    /\ \A m \in sealing : m.n < counter[m.c]
    /\ NonceOnce

\* Frames are sealed, dropped, or go out: then their nonces are on the wire, and
\* they are not sealed any more.
LEMMA SealStep ==
    ASSUME ShimShape, NoncesCounted, NEW left \in SUBSET sealing,
           onWire' \in [Channels -> SUBSET Nat],
           \A c \in Channels : \A n \in onWire'[c] :
               n \in onWire[c] \/ \E m \in sealing \ left : m.c = c /\ m.n = n,
           \/ SealsNothing(left)
           \/ \E f \in Fetches, kind \in {"open", "close", "cancel"}, c \in Channels :
                Seal(f, kind, c, left)
    PROVE  /\ NoncesCounted' /\ sealing' \subseteq Sealings /\ counter' \in [Channels -> Nat]
<1>o. \A o \in sealing : o.c \in Channels /\ o.n \in Nat /\ o.n < counter[o.c]
  BY DEF ShimShape, Sealings, NoncesCounted
<1>w. \A c \in Channels : counter[c] \in Nat /\ onWire'[c] \in SUBSET Nat
  BY DEF ShimShape
<1>1. \A o \in left : o.n \notin onWire'[o.c]
  <2> SUFFICES ASSUME NEW o \in left, o.n \in onWire'[o.c] PROVE FALSE
    OBVIOUS
  <2>1. o.n \notin onWire[o.c] /\ o.c \in Channels
    BY <1>o DEF NoncesCounted, NonceOnce
  <2>2. PICK m \in sealing \ left : m.c = o.c /\ m.n = o.n
    BY <2>1
  <2>3. m = o
    BY <2>2 DEF NoncesCounted, NonceOnce
  <2> QED BY <2>3
<1>2. \A c \in Channels : \A n \in onWire'[c] : n \in Nat /\ n < counter[c]
  BY <1>o, <1>w DEF NoncesCounted
<1>3. CASE SealsNothing(left)
  <2>1. sealing' = left /\ counter' = counter
    BY <1>3 DEF SealsNothing
  <2>2. NoncesCounted'
    BY <1>1, <1>2, <2>1 DEF NoncesCounted, NonceOnce
  <2> QED BY <2>1, <2>2 DEF ShimShape
<1>4. ASSUME NEW f \in Fetches, NEW kind \in {"open", "close", "cancel"}, NEW c \in Channels,
             Seal(f, kind, c, left)
      PROVE  /\ NoncesCounted' /\ sealing' \subseteq Sealings /\ counter' \in [Channels -> Nat]
  <2> DEFINE new == [f |-> f, kind |-> kind, c |-> c, n |-> counter[c]]
  <2>1. new \in Sealings /\ new.c = c /\ new.n = counter[c]
    BY <1>w DEF Sealings
  <2>2. sealing' = left \cup {new} /\ counter' = [counter EXCEPT ![c] = counter[c] + 1]
    BY <1>4 DEF Seal
  <2> HIDE DEF new
  <2>3. counter' \in [Channels -> Nat]
    BY <2>2 DEF ShimShape
  <2>4. \A d \in Channels : counter'[d] = IF d = c THEN counter[c] + 1 ELSE counter[d]
    BY <2>2 DEF ShimShape
  <2>5. \A d \in Channels : \A n \in onWire'[d] : n < counter'[d]
    BY <1>2, <1>w, <2>4
  <2>6. \A o \in sealing' : o.n < counter'[o.c]
    BY <2>1, <2>2, <2>4, <1>o, <1>w
  <2>7. counter[c] \notin onWire'[c]
    BY <1>2, <1>w
  <2>8. \A o \in sealing' : o.n \notin onWire'[o.c]
    BY <1>1, <2>1, <2>2, <2>7
  <2>9. \A o \in left : o.c = c => o.n # counter[c]
    BY <1>o, <1>w
  <2>10. \A o, p \in sealing' : o.c = p.c /\ o.n = p.n => o = p
    BY <2>1, <2>2, <2>9 DEF NoncesCounted, NonceOnce
  <2>11. sealing' \subseteq Sealings
    BY <2>1, <2>2 DEF ShimShape
  <2> QED BY <2>3, <2>5, <2>6, <2>8, <2>10, <2>11 DEF NoncesCounted, NonceOnce
<1> QED BY <1>3, <1>4

\* Which channels the calls use.  A call waits for the channel it opens, which
\* no other call waits for; then it listens on an open one until it is told, or
\* gives up.
UsedBy(f) ==
    /\ req[f].at \in {"idle", "channel"} =>
         upstream[f] = "none" /\ ~req[f].listens /\ req[f].got = 0 /\ req[f].seen = "nothing"
    /\ req[f].at = "channel" => wsOf[req[f].c] = "opening"
    /\ req[f].c # 0 => wsOf[req[f].c] # "unused"
    /\ req[f].listens => wsOf[req[f].c] = "open" /\ ~req[f].aborted
    /\ req[f].c # 0 /\ ~req[f].aborted /\ req[f].seen \in {"nothing", "head"} =>
         req[f].at = "channel" \/ req[f].listens

ChannelsUsed ==
    /\ channel # 0 => wsOf[channel] = "open"
    /\ \A f \in Fetches : UsedBy(f)
    /\ \A m \in sealing : req[m.f].at # "channel" /\ (m.kind = "cancel" => req[m.f].aborted)
    /\ \A f, g \in Fetches :
         req[f].at = "channel" /\ req[g].at = "channel" /\ req[f].c = req[g].c => f = g

\* What the host has sent about a call is told by what has come and what is on
\* its way, an end last.
DataOf(s, f) == {i \in 1..Len(s) : s[i].f = f /\ s[i].type = "data"}
IsEnd(e, f) == e.f = f /\ e.type \in {"close", "abort", "error"}
PartsOf(f) == IF upstream[f] = "whole" THEN Parts ELSE SentParts(f)

Coming(s, f) ==
    /\ \A i \in 1..Len(s) : s[i].f = f => upstream[f] \notin {"none", "asked"}
    /\ \A i \in 1..Len(s) : IsEnd(s[i], f) =>
         upstream[f] \in {"whole", "ended"} /\ \A j \in 1..Len(s) : j > i => s[j].f # f

Listened(s, f) ==
    /\ upstream[f] # "ended" => req[f].got + Cardinality(DataOf(s, f)) = PartsOf(f)
    /\ \A i \in 1..Len(s) : s[i].f = f /\ s[i].type = "close" => upstream[f] = "whole"
    /\ upstream[f] \in {"whole", "ended"} => \E i \in 1..Len(s) : IsEnd(s[i], f)

StreamOf(f) ==
    /\ \A c \in Channels : IF c = req[f].c THEN Coming(opening[c], f)
                           ELSE \A i \in 1..Len(opening[c]) : opening[c][i].f # f
    /\ req[f].listens => req[f].c \in Channels /\ Listened(opening[req[f].c], f)
    /\ req[f].seen = "whole" => req[f].got = Parts /\ ~req[f].listens

ShimInv == ShimShape /\ NoncesCounted /\ ChannelsUsed /\ \A f \in Fetches : StreamOf(f)

LEMMA ShimStart == ShimInit => ShimInv
<1> SUFFICES ASSUME ShimInit PROVE ShimInv
  OBVIOUS
<1> USE ShimAssumption DEF ShimInit
<1>1. Unasked \in Requests /\ Unasked.at = "idle" /\ Unasked.c = 0 /\ Unasked.listens = FALSE
      /\ Unasked.seen = "nothing" /\ Unasked.got = 0 /\ Unasked.aborted = FALSE
  BY DEF Unasked, Requests
<1>2. ShimShape
  BY <1>1 DEF ShimShape, Channels, States
<1>3. NoncesCounted
  BY DEF NoncesCounted, NonceOnce
<1>4. ChannelsUsed
  BY <1>1 DEF ChannelsUsed, UsedBy
<1>5. \A f \in Fetches : StreamOf(f)
  BY <1>1 DEF StreamOf, Coming
<1> QED BY <1>2, <1>3, <1>4, <1>5 DEF ShimInv

LEMMA OneRequest ==
    ASSUME ShimShape, NEW f \in Fetches, NEW r \in Requests, req' = [req EXCEPT ![f] = r]
    PROVE  /\ req' \in [Fetches -> Requests]
           /\ \A g \in Fetches : req'[g] = IF g = f THEN r ELSE req[g]
BY DEF ShimShape

\* A chunk that arrives changes the count of a request and nothing else of it.
LEMMA ChunkCounted ==
    ASSUME NEW q \in Requests, NEW r, r = [q EXCEPT !.got = @ + 1]
    PROVE  /\ r \in Requests /\ r.c = q.c /\ r.at = q.at /\ r.aborted = q.aborted
           /\ r.listens = q.listens /\ r.got = q.got + 1 /\ r.seen = q.seen
<1> PICK n \in Nat : n = q.got
  BY DEF Requests
<1> PICK k \in Nat : k = n + 1
  OBVIOUS
<1>1. r = [q EXCEPT !.got = k]
  OBVIOUS
<1>2. /\ r \in Requests /\ r.c = q.c /\ r.at = q.at /\ r.aborted = q.aborted
      /\ r.listens = q.listens /\ r.got = k /\ r.seen = q.seen
  BY <1>1 DEF Requests
<1> QED BY <1>2

\* With the channel at hand a call begins to listen, or has been aborted.
LEMMA CallTakes ==
    ASSUME ShimInv, NEW f \in Fetches, NEW c \in Channels, UseChannel(f, c),
           req[f].at \in {"idle", "channel"}
    PROVE  /\ \E r \in Requests :
                /\ req' = [req EXCEPT ![f] = r]
                /\ r.c = c /\ r.got = 0 /\ r.aborted = req[f].aborted
                /\ \/ r.at = "over" /\ ~r.listens /\ r.seen = "failed" /\ r.aborted
                   \/ r.at = "open" /\ r.listens /\ r.seen = "nothing" /\ ~r.aborted
           /\ SealsNothing(sealing) \/ Seal(f, "open", c, sealing)
<1>0. /\ req[f] \in Requests /\ c \in 0..MaxChannels /\ c # 0
      /\ ~req[f].listens /\ req[f].got = 0 /\ req[f].seen = "nothing"
  BY ShimAssumption DEF ShimInv, ShimShape, ChannelsUsed, UsedBy, Channels
<1>1. req \in [Fetches -> Requests]
  BY DEF ShimInv, ShimShape
<1>2. CASE req[f].aborted
  <2> PICK r : r = [req[f] EXCEPT !.at = "over", !.c = c, !.seen = "failed"]
    OBVIOUS
  <2>1. r \in Requests /\ r.c = c /\ r.got = req[f].got /\ r.aborted = req[f].aborted
        /\ r.at = "over" /\ r.listens = req[f].listens /\ r.seen = "failed"
    BY <1>0 DEF Requests
  <2>2. req' = [req EXCEPT ![f] = r] /\ SealsNothing(sealing)
    BY <1>1, <1>2 DEF UseChannel
  <2> QED BY <1>0, <1>2, <2>1, <2>2
<1>3. CASE ~req[f].aborted
  <2> PICK r : r = [req[f] EXCEPT !.at = "open", !.c = c, !.listens = TRUE]
    OBVIOUS
  <2>1. r \in Requests /\ r.c = c /\ r.got = req[f].got /\ r.aborted = req[f].aborted
        /\ r.at = "open" /\ r.listens = TRUE /\ r.seen = req[f].seen
    BY <1>0 DEF Requests
  <2>2. req' = [req EXCEPT ![f] = r] /\ Seal(f, "open", c, sealing)
    BY <1>1, <1>3 DEF UseChannel
  <2> QED BY <1>0, <1>3, <2>1, <2>2
<1> QED BY <1>2, <1>3

\* A call that is as it was, about which nothing has moved, is told as before.
LEMMA StreamKept ==
    ASSUME ShimInv, NEW f \in Fetches, opening' = opening,
           upstream'[f] = upstream[f], req'[f] = req[f]
    PROVE  StreamOf(f)'
BY DEF ShimInv, StreamOf, Coming, Listened, PartsOf, SentParts

\* Nothing has been sent about a call that has not asked.
LEMMA StreamBegins ==
    ASSUME ShimInv, NEW f \in Fetches, req[f].at \in {"idle", "channel"},
           opening' = opening, upstream' = upstream,
           req'[f].c \in Channels, req'[f].got = 0, req'[f].seen # "whole"
    PROVE  StreamOf(f)'
<1>1. upstream[f] = "none" /\ StreamOf(f)
  BY DEF ShimInv, ChannelsUsed, UsedBy
<1>2. \A c \in Channels : \A i \in 1..Len(opening[c]) : opening[c][i].f # f
  BY <1>1 DEF StreamOf, Coming
<1>3. \A c \in Channels : DataOf(opening[c], f) = {}
  BY <1>2 DEF DataOf
<1>4. Cardinality({}) = 0
  BY FS_EmptySet
<1>5. PartsOf(f)' = 0
  BY <1>1 DEF PartsOf, SentParts
<1>6. \A c \in Channels : Coming(opening[c], f)'
  BY <1>2 DEF Coming, IsEnd
<1>7. Listened(opening[req[f].c], f)'
  <2> DEFINE s == opening[req'[f].c]
  <2>1. DataOf(s, f) = {} /\ \A i \in 1..Len(s) : s[i].f # f
    BY <1>2, <1>3
  <2>2. opening'[req'[f].c] = s /\ upstream'[f] = "none"
    BY <1>1
  <2> HIDE DEF s
  <2>3. DataOf(opening[req[f].c], f)' = {}
    BY <2>1, <2>2 DEF DataOf
  <2>4. req'[f].got + Cardinality(DataOf(opening[req[f].c], f)') = PartsOf(f)'
    BY <1>4, <1>5, <2>3
  <2>5. \A i \in 1..Len(opening[req[f].c])' : (opening[req[f].c])'[i].f # f
    BY <2>1, <2>2
  <2> QED BY <2>2, <2>4, <2>5 DEF Listened
<1> QED BY <1>2, <1>6, <1>7 DEF StreamOf

\* One call has taken a channel, and the others are as they were.
LEMMA ChannelTaken ==
    ASSUME ShimInv, NEW f \in Fetches, NEW c \in Channels,
           req[f].at \in {"idle", "channel"}, UseChannel(f, c),
           wsOf' = [wsOf EXCEPT ![c] = "open"], channel' = c,
           wsOf[c] = "open" \/ (req[f].at = "channel" /\ req[f].c = c),
           UNCHANGED <<onWire, opening, upstream>>
    PROVE  ShimInv'
<1>0. PICK r \in Requests :
         /\ req' = [req EXCEPT ![f] = r]
         /\ r.c = c /\ r.got = 0 /\ r.aborted = req[f].aborted
         /\ \/ r.at = "over" /\ ~r.listens /\ r.seen = "failed" /\ r.aborted
            \/ r.at = "open" /\ r.listens /\ r.seen = "nothing" /\ ~r.aborted
  BY CallTakes
<1>1. /\ req' \in [Fetches -> Requests]
      /\ \A g \in Fetches : req'[g] = IF g = f THEN r ELSE req[g]
  BY <1>0, OneRequest DEF ShimInv
<1>2. wsOf' \in [Channels -> {"unused", "opening", "open", "closed"}]
  BY DEF ShimInv, ShimShape
<1>3. \A d \in Channels : wsOf'[d] = IF d = c THEN "open" ELSE wsOf[d]
  BY DEF ShimInv, ShimShape
<1>4. SealsNothing(sealing) \/ Seal(f, "open", c, sealing)
  BY CallTakes
<1>5. NoncesCounted' /\ sealing' \subseteq Sealings /\ counter' \in [Channels -> Nat]
  BY <1>4, SealStep DEF ShimInv, ShimShape
<1>6. \A m \in sealing' : m \in sealing \/ (m.f = f /\ m.kind = "open")
  BY <1>4 DEF Seal, SealsNothing
<1>7. c \in 0..MaxChannels /\ c # 0
  BY ShimAssumption DEF Channels
<1>8. ShimShape'
  BY <1>0, <1>1, <1>2, <1>5, <1>6, <1>7 DEF ShimInv, ShimShape
<1>9. ChannelsUsed'
  <2>1. ASSUME NEW g \in Fetches PROVE UsedBy(g)'
    <3>1. CASE g = f
      BY <1>0, <1>1, <1>3, <1>7, <3>1 DEF UsedBy
    <3>2. CASE g # f
      <4>1. UsedBy(g) /\ req'[g] = req[g] /\ upstream'[g] = upstream[g]
            /\ req[g].c \in 0..MaxChannels
        BY <1>1, <3>2 DEF ShimInv, ChannelsUsed, ShimShape, Requests
      <4>2. req[g].at = "channel" => req[g].c # c
        BY <3>2, <4>1 DEF ShimInv, ChannelsUsed, UsedBy
      <4>3. req[g].c # 0 => req[g].c \in Channels
        BY <4>1, ShimAssumption DEF Channels
      <4>4. req[g].at = "channel" => req[g].c # 0
        BY DEF ShimInv, ShimShape
      <4>5. req[g].listens => req[g].c # 0
        BY <1>7 DEF ShimInv, StreamOf, Channels
      <4> QED BY <1>3, <4>1, <4>2, <4>3, <4>4, <4>5 DEF UsedBy
    <3> QED BY <3>1, <3>2
  <2>2. \A m \in sealing' : req'[m.f].at # "channel" /\ (m.kind = "cancel" => req'[m.f].aborted)
    <3> SUFFICES ASSUME NEW m \in sealing'
                 PROVE  req'[m.f].at # "channel" /\ (m.kind = "cancel" => req'[m.f].aborted)
      OBVIOUS
    <3>1. m.f \in Fetches
      BY <1>5 DEF Sealings
    <3>2. m \in sealing => req[m.f].at # "channel" /\ (m.kind = "cancel" => req[m.f].aborted)
      BY DEF ShimInv, ChannelsUsed
    <3> QED BY <1>0, <1>1, <1>6, <3>1, <3>2
  <2>3. \A g, h \in Fetches :
           req'[g].at = "channel" /\ req'[h].at = "channel" /\ req'[g].c = req'[h].c => g = h
    BY <1>0, <1>1 DEF ShimInv, ChannelsUsed
  <2>4. channel' # 0 => wsOf'[channel'] = "open"
    BY <1>3
  <2> QED BY <2>1, <2>2, <2>3, <2>4 DEF ChannelsUsed
<1>10. ASSUME NEW g \in Fetches PROVE StreamOf(g)'
  <2>1. CASE g = f
    BY <1>0, <1>1, <2>1, StreamBegins
  <2>2. CASE g # f
    BY <1>1, <2>2, StreamKept
  <2> QED BY <2>1, <2>2
<1> QED BY <1>5, <1>8, <1>9, <1>10 DEF ShimInv

LEMMA FetchStep ==
    ASSUME ShimInv, NEW f \in Fetches, Fetch(f)
    PROVE  ShimInv'
<1>1. CASE channel # 0
  <2>1. /\ req[f].at = "idle" /\ UseChannel(f, channel)
        /\ UNCHANGED <<channel, wsOf, onWire, opening, upstream>>
    BY <1>1 DEF Fetch
  <2>2. channel \in Channels /\ wsOf[channel] = "open"
    BY <1>1, ShimAssumption DEF ShimInv, ShimShape, ChannelsUsed, Channels
  <2>3. wsOf' = [wsOf EXCEPT ![channel] = "open"]
    BY <2>1, <2>2 DEF ShimInv, ShimShape
  <2> QED BY <2>1, <2>2, <2>3, ChannelTaken
<1>2. CASE channel = 0
  <2>1. PICK c \in Channels :
           /\ wsOf[c] = "unused" /\ wsOf' = [wsOf EXCEPT ![c] = "opening"]
           /\ req' = [req EXCEPT ![f].at = "channel", ![f].c = c]
    BY <1>2 DEF Fetch
  <2>2. req[f].at = "idle" /\ UNCHANGED <<channel, counter, sealing, onWire, opening, upstream>>
    BY <1>2 DEF Fetch
  <2>3. c \in 0..MaxChannels /\ c # 0
    BY ShimAssumption DEF Channels
  <2>4. /\ req[f] \in Requests /\ ~req[f].listens /\ req[f].got = 0 /\ req[f].seen = "nothing"
        /\ upstream[f] = "none"
    BY <2>2 DEF ShimInv, ShimShape, ChannelsUsed, UsedBy
  <2> PICK r : r = [req[f] EXCEPT !.at = "channel", !.c = c]
    OBVIOUS
  <2>5. /\ r \in Requests /\ r.at = "channel" /\ r.c = c
        /\ ~r.listens /\ r.got = 0 /\ r.seen = "nothing" /\ r.aborted = req[f].aborted
    BY <2>3, <2>4 DEF Requests
  <2>6. req' = [req EXCEPT ![f] = r]
    BY <2>1 DEF ShimInv, ShimShape
  <2>7. /\ req' \in [Fetches -> Requests]
        /\ \A g \in Fetches : req'[g] = IF g = f THEN r ELSE req[g]
    BY <2>5, <2>6, OneRequest DEF ShimInv
  <2>8. \A d \in Channels : wsOf'[d] = IF d = c THEN "opening" ELSE wsOf[d]
    BY <2>1 DEF ShimInv, ShimShape
  <2>9. wsOf' \in [Channels -> {"unused", "opening", "open", "closed"}]
    BY <2>1 DEF ShimInv, ShimShape
  <2>a. ASSUME NEW g \in Fetches
        PROVE  /\ req'[g].at = "idle" <=> req'[g].c = 0
               /\ req'[g].at = "idle" => upstream'[g] = "none"
    <3>1. CASE g = f
      BY <2>3, <2>5, <2>7, <3>1
    <3>2. CASE g # f
      BY <2>2, <2>7, <3>2 DEF ShimInv, ShimShape
    <3> QED BY <3>1, <3>2
  <2>b. \A m \in sealing' : m.f \in Fetches /\ req'[m.f].at # "idle"
    BY <2>2, <2>5, <2>7 DEF ShimInv, ShimShape, Sealings
  <2>10. ShimShape'
    BY <2>2, <2>7, <2>9, <2>a, <2>b DEF ShimInv, ShimShape
  <2>11. NoncesCounted'
    BY <2>2 DEF ShimInv, NoncesCounted, NonceOnce
  <2>12. \A g \in Fetches : g # f => req[g].c # c
    <3> SUFFICES ASSUME NEW g \in Fetches, req[g].c = c PROVE FALSE
      BY <2>2
    <3> QED BY <2>1, <2>3 DEF ShimInv, ChannelsUsed, UsedBy
  <2>13. ASSUME NEW g \in Fetches PROVE UsedBy(g)'
    <3>1. CASE g = f
      BY <2>2, <2>3, <2>4, <2>5, <2>7, <2>8, <3>1, ZenonT(30) DEF UsedBy
    <3>2. CASE g # f
      <4>1. UsedBy(g) /\ req'[g] = req[g] /\ upstream'[g] = upstream[g] /\ req[g].c # c
            /\ req[g].c \in 0..MaxChannels
        BY <2>2, <2>7, <2>12, <3>2 DEF ShimInv, ChannelsUsed, ShimShape, Requests
      <4>3. req[g].c # 0 => req[g].c \in Channels
        BY <4>1, ShimAssumption DEF Channels
      <4>4. req[g].at = "channel" => req[g].c # 0
        BY DEF ShimInv, ShimShape
      <4>5. req[g].listens => req[g].c # 0
        BY <2>3 DEF ShimInv, StreamOf, Channels
      <4> QED BY <2>8, <4>1, <4>3, <4>4, <4>5 DEF UsedBy
    <3> QED BY <3>1, <3>2
  <2>14. \A m \in sealing' : req'[m.f].at # "channel" /\ (m.kind = "cancel" => req'[m.f].aborted)
    <3> SUFFICES ASSUME NEW m \in sealing
                 PROVE  req'[m.f].at # "channel" /\ (m.kind = "cancel" => req'[m.f].aborted)
      BY <2>2
    <3>1. m.f \in Fetches /\ m.f # f
      BY <2>2 DEF ShimInv, ShimShape, Sealings
    <3> QED BY <2>7, <3>1 DEF ShimInv, ChannelsUsed
  <2>15. \A g, h \in Fetches :
           req'[g].at = "channel" /\ req'[h].at = "channel" /\ req'[g].c = req'[h].c => g = h
    <3> SUFFICES ASSUME NEW g \in Fetches, NEW h \in Fetches, g # h,
                        req'[g].at = "channel", req'[h].at = "channel", req'[g].c = req'[h].c
                 PROVE  FALSE
      OBVIOUS
    <3>1. CASE g = f
      BY <2>5, <2>7, <2>12, <3>1
    <3>2. CASE h = f
      BY <2>5, <2>7, <2>12, <3>2
    <3>3. CASE g # f /\ h # f
      BY <2>7, <3>3 DEF ShimInv, ChannelsUsed
    <3> QED BY <3>1, <3>2, <3>3
  <2>16. channel' # 0 => wsOf'[channel'] = "open"
    BY <1>2, <2>2
  <2>17. ChannelsUsed'
    BY <2>13, <2>14, <2>15, <2>16 DEF ChannelsUsed
  <2>18. ASSUME NEW g \in Fetches PROVE StreamOf(g)'
    <3>1. CASE g = f
      BY <2>2, <2>5, <2>7, <3>1, StreamBegins
    <3>2. CASE g # f
      BY <2>2, <2>7, <3>2, StreamKept
    <3> QED BY <3>1, <3>2
  <2> QED BY <2>10, <2>11, <2>17, <2>18 DEF ShimInv
<1> QED BY <1>1, <1>2

LEMMA OpensStep ==
    ASSUME ShimInv, NEW f \in Fetches, ChannelOpens(f)
    PROVE  ShimInv'
<1>1. req[f].c \in 0..MaxChannels /\ req[f].c # 0 /\ req[f].at = "channel"
  BY DEF ShimInv, ShimShape, Requests, ChannelOpens
<1>2. req[f].c \in Channels
  BY <1>1, ShimAssumption DEF Channels
<1> QED BY <1>1, <1>2, ChannelTaken DEF ChannelOpens

\* One call moves on, or is aborted, or hears a frame; it stays on its channel.
LEMMA CallMoves ==
    ASSUME ShimInv, NEW f \in Fetches, NEW r \in Requests, req' = [req EXCEPT ![f] = r],
           req[f].at # "idle", r.c = req[f].c, req[f].aborted => r.aborted,
           r.at = req[f].at \/ (req[f].at # "channel" /\ r.at \notin {"idle", "channel"}),
           r.at = "channel" => ~r.listens /\ r.got = 0 /\ r.seen = "nothing" /\ upstream'[f] = "none",
           r.listens => req[f].listens /\ ~r.aborted,
           ~r.aborted /\ r.seen \in {"nothing", "head"} => r.at = "channel" \/ r.listens,
           UNCHANGED <<channel, wsOf>>,
           counter' \in [Channels -> Nat], onWire' \in [Channels -> SUBSET Nat],
           sealing' \subseteq Sealings, opening' \in [Channels -> Seq(HostFrames)],
           \A m \in sealing' : m \in sealing
               \/ (m.f = f /\ r.at \notin {"idle", "channel"} /\ (m.kind = "cancel" => r.aborted)),
           upstream' \in [Fetches -> States], \A g \in Fetches : g # f => upstream'[g] = upstream[g]
    PROVE  ShimShape' /\ ChannelsUsed'
<1>1. /\ req' \in [Fetches -> Requests]
      /\ \A g \in Fetches : req'[g] = IF g = f THEN r ELSE req[g]
  BY OneRequest DEF ShimInv
<1>2. r.at # "idle" /\ r.c # 0
  BY DEF ShimInv, ShimShape
<1>3. ASSUME NEW g \in Fetches
      PROVE  /\ req'[g].at = "idle" <=> req'[g].c = 0
             /\ req'[g].at = "idle" => upstream'[g] = "none"
             /\ UsedBy(g)'
  <2>1. CASE g = f
    <3>1. UsedBy(f)
      BY DEF ShimInv, ChannelsUsed
    <3>2. r.at = "channel" => req[f].at = "channel"
      OBVIOUS
    <3> QED BY <1>1, <1>2, <2>1, <3>1, <3>2 DEF UsedBy
  <2>2. CASE g # f
    <3>1. UsedBy(g) /\ upstream'[g] = upstream[g] /\ req'[g] = req[g]
      BY <1>1, <2>2 DEF ShimInv, ChannelsUsed
    <3> QED BY <3>1 DEF UsedBy, ShimInv, ShimShape
  <2> QED BY <2>1, <2>2
<1>4. ASSUME NEW m \in sealing'
      PROVE  /\ req'[m.f].at \notin {"idle", "channel"}
             /\ m.kind = "cancel" => req'[m.f].aborted
  <2>1. m.f \in Fetches
    BY DEF Sealings
  <2>2. CASE m \in sealing
    <3>1. req[m.f].at \notin {"idle", "channel"} /\ (m.kind = "cancel" => req[m.f].aborted)
      BY <2>2 DEF ShimInv, ShimShape, ChannelsUsed
    <3>2. CASE m.f = f
      BY <1>1, <1>2, <3>1, <3>2
    <3>3. CASE m.f # f
      BY <1>1, <2>1, <3>1, <3>3
    <3> QED BY <3>2, <3>3
  <2>3. CASE m \notin sealing
    BY <1>1, <2>3
  <2> QED BY <2>2, <2>3
<1>5. ASSUME NEW g \in Fetches, NEW h \in Fetches,
             req'[g].at = "channel", req'[h].at = "channel", req'[g].c = req'[h].c
      PROVE  g = h
  <2>1. /\ req[g].at = "channel" /\ req[g].c = req'[g].c
        /\ req[h].at = "channel" /\ req[h].c = req'[h].c
    BY <1>1, <1>5
  <2> QED BY <1>5, <2>1 DEF ShimInv, ChannelsUsed
<1>6. ShimShape'
  BY <1>1, <1>3, <1>4 DEF ShimInv, ShimShape
<1>7. ChannelsUsed'
  BY <1>3, <1>4, <1>5 DEF ShimInv, ChannelsUsed
<1> QED BY <1>6, <1>7

\* Nothing about it is lost when a call stops listening, asks, or is given up.
LEMMA StreamQuiet ==
    ASSUME ShimInv, NEW f \in Fetches, opening' = opening, req'[f].c = req[f].c,
           req'[f].got = req[f].got, req'[f].listens => req[f].listens,
           req'[f].seen = "whole" => req[f].seen = "whole",
           \/ upstream'[f] = upstream[f]
           \/ upstream'[f] = "asked" /\ upstream[f] = "none"
           \/ upstream'[f] = "ended" /\ upstream[f] # "none" /\ ~req'[f].listens
    PROVE  StreamOf(f)'
<1>0. StreamOf(f)
  BY DEF ShimInv
<1>1. \A c \in Channels : IF c = req'[f].c THEN Coming(opening[c], f)'
                          ELSE \A i \in 1..Len(opening[c]) : opening[c][i].f # f
  BY <1>0 DEF StreamOf, Coming, IsEnd
<1>2. req'[f].listens => req'[f].c \in Channels /\ Listened(opening[req[f].c], f)'
  BY <1>0 DEF StreamOf, Coming, Listened, PartsOf, SentParts, IsEnd
<1> QED BY <1>0, <1>1, <1>2 DEF StreamOf

LEMMA SealedStep ==
    ASSUME ShimInv, NEW m \in sealing, Sealed(m)
    PROVE  ShimInv'
<1> DEFINE f == m.f
           reaches == wsOf[m.c] = "open"
<1>1. /\ f \in Fetches /\ m.c \in Channels /\ m.n \in Nat /\ m.kind \in {"open", "close", "cancel"}
      /\ req[f].at \notin {"idle", "channel"} /\ (m.kind = "cancel" => req[f].aborted)
      /\ req[f] \in Requests /\ upstream[f] \in States
  BY DEF ShimInv, ShimShape, Sealings, ChannelsUsed
<1>2. /\ onWire' = IF reaches THEN [onWire EXCEPT ![m.c] = @ \cup {m.n}] ELSE onWire
      /\ UNCHANGED <<channel, wsOf, opening>>
  BY DEF Sealed
<1>3. onWire' \in [Channels -> SUBSET Nat]
  BY <1>1, <1>2 DEF ShimInv, ShimShape
<1>4. \A c \in Channels : \A n \in onWire'[c] :
         n \in onWire[c] \/ \E o \in sealing \ (sealing \ {m}) : o.c = c /\ o.n = n
  BY <1>1, <1>2 DEF ShimInv, ShimShape
<1>5. PICK r \in Requests :
        /\ req' = [req EXCEPT ![f] = r]
        /\ r.c = req[f].c /\ r.aborted = req[f].aborted /\ r.got = req[f].got
        /\ r.at \notin {"idle", "channel"}
        /\ r.listens => req[f].listens
        /\ r.seen = "whole" => req[f].seen = "whole"
        /\ \/ r.listens = req[f].listens /\ r.seen = req[f].seen
           \/ r.seen \notin {"nothing", "head"}
        /\ \/ upstream' = upstream
           \/ upstream[f] = "none" /\ upstream' = [upstream EXCEPT ![f] = "asked"]
           \/ upstream[f] # "none" /\ upstream' = [upstream EXCEPT ![f] = "ended"] /\ ~r.listens
        /\ \/ SealsNothing(sealing \ {m})
           \/ Seal(f, "close", m.c, sealing \ {m})
  <2>0. req \in [Fetches -> Requests]
    BY DEF ShimInv, ShimShape
  <2>1. CASE m.kind = "cancel"
    <3>1. req' = [req EXCEPT ![f] = req[f]]
      BY <1>1, <2>0, <2>1 DEF Sealed
    <3>2. ~req[f].listens
      BY <1>1, <2>1 DEF ShimInv, ChannelsUsed, UsedBy
    <3>3. /\ SealsNothing(sealing \ {m})
          /\ upstream' = IF reaches /\ upstream[f] # "none"
                         THEN [upstream EXCEPT ![f] = "ended"] ELSE upstream
      BY <2>1 DEF Sealed
    <3> QED BY <1>1, <3>1, <3>2, <3>3
  <2>2. CASE m.kind # "cancel" /\ reaches
    <3>1. After[m.kind] \in {"close", "sent"} /\ (m.kind = "open" => After[m.kind] = "close")
      BY <1>1, <2>2 DEF After
    <3> PICK r : r = [req[f] EXCEPT !.at = After[m.kind]]
      OBVIOUS
    <3>2. /\ r \in Requests /\ r.c = req[f].c /\ r.aborted = req[f].aborted /\ r.got = req[f].got
          /\ r.at = After[m.kind] /\ r.listens = req[f].listens /\ r.seen = req[f].seen
      BY <1>1, <3>1 DEF Requests
    <3>3. req' = [req EXCEPT ![f] = r]
      BY <2>0, <2>2, <1>1 DEF Sealed
    <3>4. \/ SealsNothing(sealing \ {m})
          \/ Seal(f, "close", m.c, sealing \ {m})
      BY <1>1, <2>2, <3>1 DEF Sealed
    <3>5. upstream' = IF m.kind = "open" /\ upstream[f] = "none"
                      THEN [upstream EXCEPT ![f] = "asked"] ELSE upstream
      BY <2>2 DEF Sealed
    <3> QED BY <3>1, <3>2, <3>3, <3>4, <3>5
  <2>3. CASE m.kind # "cancel" /\ ~reaches
    <3> PICK r : r = [req[f] EXCEPT !.at = "over", !.listens = FALSE,
                          !.seen = IF @ \in {"nothing", "head"} THEN "failed" ELSE @]
      OBVIOUS
    <3>2. /\ r \in Requests /\ r.c = req[f].c /\ r.aborted = req[f].aborted /\ r.got = req[f].got
          /\ r.at = "over" /\ ~r.listens
          /\ r.seen = IF req[f].seen \in {"nothing", "head"} THEN "failed" ELSE req[f].seen
      BY <1>1 DEF Requests
    <3>3. req' = [req EXCEPT ![f] = r]
      BY <2>0, <2>3, <1>1 DEF Sealed
    <3>4. SealsNothing(sealing \ {m}) /\ upstream' = upstream
      BY <1>1, <2>3 DEF Sealed
    <3>5. r.seen \notin {"nothing", "head"} /\ (r.seen = "whole" => req[f].seen = "whole")
      BY <3>2
    <3>6. r.at \notin {"idle", "channel"} /\ (r.listens => req[f].listens)
      BY <3>2
    <3> HIDE DEF f
    <3> QED BY <3>2, <3>3, <3>4, <3>5, <3>6
  <2> QED BY <2>1, <2>2, <2>3
<1> HIDE DEF f, reaches
<1>6. NoncesCounted' /\ sealing' \subseteq Sealings /\ counter' \in [Channels -> Nat]
  BY <1>1, <1>3, <1>4, <1>5, SealStep DEF ShimInv
<1>7. \A o \in sealing' : o \in sealing \/ (o.f = f /\ o.kind = "close")
  BY <1>5 DEF Seal, SealsNothing
<1>8. /\ upstream' \in [Fetches -> States]
      /\ \A g \in Fetches : g # f => upstream'[g] = upstream[g]
      /\ \/ upstream'[f] = upstream[f]
         \/ upstream'[f] = "asked" /\ upstream[f] = "none"
         \/ upstream'[f] = "ended" /\ upstream[f] # "none" /\ ~r.listens
  BY <1>1, <1>5 DEF ShimInv, ShimShape, States
<1>9. /\ r.listens => ~r.aborted
      /\ ~r.aborted /\ r.seen \in {"nothing", "head"} => r.listens
  <2>1. UsedBy(f) /\ req[f].c # 0
    BY <1>1 DEF ShimInv, ShimShape, ChannelsUsed
  <2> QED BY <1>1, <1>5, <2>1 DEF UsedBy
<1>10. ShimShape' /\ ChannelsUsed'
  <2>1. opening' \in [Channels -> Seq(HostFrames)]
    BY <1>2 DEF ShimInv, ShimShape
  <2>2. /\ f \in Fetches /\ r \in Requests /\ req' = [req EXCEPT ![f] = r]
        /\ req[f].at # "idle" /\ r.c = req[f].c /\ (req[f].aborted => r.aborted)
        /\ req[f].at # "channel" /\ r.at \notin {"idle", "channel"} /\ r.at # "channel"
        /\ r.listens => req[f].listens /\ ~r.aborted
        /\ ~r.aborted /\ r.seen \in {"nothing", "head"} => r.listens
        /\ UNCHANGED <<channel, wsOf>>
    BY <1>1, <1>2, <1>5, <1>9
  <2>3. \A o \in sealing' : o \in sealing
           \/ (o.f = f /\ r.at \notin {"idle", "channel"} /\ (o.kind = "cancel" => r.aborted))
    BY <1>7, <2>2
  <2>4. upstream' \in [Fetches -> States] /\ \A g \in Fetches : g # f => upstream'[g] = upstream[g]
    BY <1>8
  <2> QED BY ONLY ShimInv, <1>3, <1>6, <2>1, <2>2, <2>3, <2>4, CallMoves
<1>11. ASSUME NEW g \in Fetches PROVE StreamOf(g)'
  <2>0. \A h \in Fetches : req'[h] = IF h = f THEN r ELSE req[h]
    BY <1>1, <1>5, OneRequest DEF ShimInv
  <2>1. CASE g = f
    BY <1>1, <1>2, <1>5, <1>8, <2>0, <2>1, StreamQuiet
  <2>2. CASE g # f
    BY <1>2, <1>8, <2>0, <2>2, StreamKept
  <2> QED BY <2>1, <2>2
<1> QED BY <1>6, <1>10, <1>11 DEF ShimInv

LEMMA AbortStep ==
    ASSUME ShimInv, NEW f \in Fetches, Abort(f)
    PROVE  ShimInv'
<1>0. req[f] \in Requests /\ req[f].c # 0 /\ req[f].at # "idle"
  BY DEF ShimInv, ShimShape, Abort
<1>1. req[f].c \in Channels
  BY <1>0, ShimAssumption DEF Requests, Channels
<1> PICK r : r = [req[f] EXCEPT !.aborted = TRUE, !.listens = FALSE,
                      !.seen = IF @ = "head" THEN "failed" ELSE @]
  OBVIOUS
<1>2. /\ r \in Requests /\ r.c = req[f].c /\ r.aborted /\ r.got = req[f].got
      /\ r.at = req[f].at /\ ~r.listens
      /\ r.seen = IF req[f].seen = "head" THEN "failed" ELSE req[f].seen
  BY <1>0 DEF Requests
<1>3. req' = [req EXCEPT ![f] = r]
  BY DEF Abort, ShimInv, ShimShape
<1>4. \A h \in Fetches : req'[h] = IF h = f THEN r ELSE req[h]
  BY <1>2, <1>3, OneRequest DEF ShimInv
<1>5. UNCHANGED <<channel, wsOf, onWire, opening, upstream>>
  BY DEF Abort
<1>6. \/ SealsNothing(sealing)
      \/ req[f].at # "channel" /\ Seal(f, "cancel", req[f].c, sealing)
  BY DEF Abort
<1>7. NoncesCounted' /\ sealing' \subseteq Sealings /\ counter' \in [Channels -> Nat]
  <2>1. /\ \A c \in Channels : \A n \in onWire'[c] : n \in onWire[c]
        /\ onWire' \in [Channels -> SUBSET Nat]
    BY <1>5 DEF ShimInv, ShimShape
  <2> QED BY <1>1, <1>6, <2>1, SealStep DEF ShimInv
<1>8. \A m \in sealing' : m \in sealing \/ (m.f = f /\ req[f].at # "channel" /\ m.kind = "cancel")
  BY <1>6 DEF Seal, SealsNothing
<1>9. req[f].at = "channel" => req[f].got = 0 /\ req[f].seen = "nothing" /\ upstream'[f] = "none"
  BY <1>5 DEF ShimInv, ChannelsUsed, UsedBy
<1>10. ShimShape' /\ ChannelsUsed'
  <2>1. /\ opening' \in [Channels -> Seq(HostFrames)] /\ onWire' \in [Channels -> SUBSET Nat]
        /\ upstream' \in [Fetches -> States] /\ \A g \in Fetches : g # f => upstream'[g] = upstream[g]
    BY <1>5 DEF ShimInv, ShimShape
  <2>2. /\ r \in Requests /\ req' = [req EXCEPT ![f] = r]
        /\ req[f].at # "idle" /\ r.c = req[f].c /\ r.aborted /\ r.at = req[f].at /\ ~r.listens
        /\ UNCHANGED <<channel, wsOf>>
    BY <1>0, <1>2, <1>3, <1>5
  <2>3. r.at = "channel" => r.got = 0 /\ r.seen = "nothing" /\ upstream'[f] = "none"
    BY <1>2, <1>9
  <2>4. \A m \in sealing' : m \in sealing
           \/ (m.f = f /\ r.at \notin {"idle", "channel"} /\ (m.kind = "cancel" => r.aborted))
    BY <1>8, <2>2
  <2> QED BY ONLY ShimInv, f \in Fetches, <1>7, <2>1, <2>2, <2>3, <2>4, CallMoves
<1>11. ASSUME NEW g \in Fetches PROVE StreamOf(g)'
  <2>1. CASE g = f
    <3>0. req'[f] = r
      BY <1>4
    <3>1. /\ opening' = opening /\ req'[f].c = req[f].c /\ req'[f].got = req[f].got
          /\ ~req'[f].listens /\ (req'[f].seen = "whole" => req[f].seen = "whole")
          /\ upstream'[f] = upstream[f]
      BY <1>2, <1>5, <3>0
    <3> QED BY ONLY ShimInv, f \in Fetches, <2>1, <3>1, StreamQuiet
  <2>2. CASE g # f
    BY <1>4, <1>5, <2>2, StreamKept
  <2> QED BY <2>1, <2>2
<1> QED BY <1>7, <1>10, <1>11 DEF ShimInv

\* The frames a host adds are read last, and the first one is read first.
LEMMA DataCounts ==
    ASSUME NEW s \in Seq(HostFrames), NEW f
    PROVE  IsFiniteSet(DataOf(s, f)) /\ DataOf(s, f) \subseteq 1..Len(s)
           /\ Cardinality(DataOf(s, f)) \in Nat
<1>1. IsFiniteSet(1..Len(s)) /\ Len(s) \in Nat
  BY FS_Interval
<1>2. DataOf(s, f) \in SUBSET (1..Len(s))
  BY DEF DataOf
<1>3. IsFiniteSet(DataOf(s, f))
  BY <1>1, <1>2, FS_Subset
<1> QED BY <1>2, <1>3, FS_CardinalityType

LEMMA OneAdded ==
    ASSUME NEW s \in Seq(HostFrames), NEW e \in HostFrames
    PROVE  /\ Append(s, e) \in Seq(HostFrames)
           /\ Len(Append(s, e)) = Len(s) + 1 /\ Len(s) \in Nat
           /\ \A i \in 1..Len(s) : Append(s, e)[i] = s[i]
           /\ Append(s, e)[Len(s) + 1] = e
           /\ \A f : Cardinality(DataOf(Append(s, e), f)) =
                       Cardinality(DataOf(s, f)) + (IF e.f = f /\ e.type = "data" THEN 1 ELSE 0)
<1> DEFINE t == Append(s, e)
<1>1. /\ t \in Seq(HostFrames) /\ Len(t) = Len(s) + 1 /\ Len(s) \in Nat
      /\ \A i \in 1..Len(s) : t[i] = s[i]
      /\ t[Len(s) + 1] = e
  OBVIOUS
<1> HIDE DEF t
<1>2. ASSUME NEW f
      PROVE  Cardinality(DataOf(t, f)) =
               Cardinality(DataOf(s, f)) + (IF e.f = f /\ e.type = "data" THEN 1 ELSE 0)
  <2>1. IsFiniteSet(DataOf(s, f)) /\ DataOf(s, f) \subseteq 1..Len(s)
        /\ Cardinality(DataOf(s, f)) \in Nat
    BY DataCounts
  <2>2. 1..Len(t) = 1..Len(s) \cup {Len(s) + 1} /\ Len(s) + 1 \notin DataOf(s, f)
    BY <1>1, <2>1
  <2>3. CASE e.f = f /\ e.type = "data"
    <3>1. DataOf(t, f) = DataOf(s, f) \cup {Len(s) + 1}
      BY <1>1, <2>2, <2>3 DEF DataOf
    <3> QED BY <2>1, <2>2, <2>3, <3>1, FS_AddElement, ZenonT(30)
  <2>4. CASE ~(e.f = f /\ e.type = "data")
    <3>1. DataOf(t, f) = DataOf(s, f)
      BY <1>1, <2>2, <2>4 DEF DataOf
    <3> QED BY <2>1, <2>4, <3>1
  <2> QED BY <2>3, <2>4
<1> QED BY <1>1, <1>2 DEF t

LEMMA FirstRead ==
    ASSUME NEW s \in Seq(HostFrames), s # <<>>
    PROVE  /\ RemoveAt(s, 1) \in Seq(HostFrames) /\ s[1] \in HostFrames
           /\ Len(RemoveAt(s, 1)) = Len(s) - 1 /\ Len(s) \in Nat \ {0}
           /\ \A i \in 1..(Len(s) - 1) : RemoveAt(s, 1)[i] = s[i + 1]
           /\ \A f : Cardinality(DataOf(RemoveAt(s, 1), f)) =
                       Cardinality(DataOf(s, f)) - (IF s[1].f = f /\ s[1].type = "data" THEN 1 ELSE 0)
<1> DEFINE t == RemoveAt(s, 1)
<1>0. Len(s) \in Nat \ {0} /\ s[1] \in HostFrames
  OBVIOUS
<1>1. /\ t \in Seq(HostFrames) /\ Len(t) = Len(s) - 1
      /\ \A i \in 1..(Len(s) - 1) : t[i] = s[i + 1]
  <2> DEFINE rest == SubSeq(s, 2, Len(s))
  <2>1. SubSeq(s, 1, 0) = <<>>
    BY <1>0
  <2>2. rest \in Seq(HostFrames) /\ Len(rest) = Len(s) - 1
        /\ \A i \in 1..(Len(s) - 1) : rest[i] = s[i + 1]
    <3> PICK n \in Nat \ {0} : n = Len(s)
      BY <1>0
    <3>1. \A i \in 2..n : s[i] \in HostFrames
      BY <1>0
    <3>2. /\ rest \in Seq(HostFrames)
          /\ Len(rest) = IF 2 <= n THEN n - 2 + 1 ELSE 0
          /\ \A i \in 1..(n - 2 + 1) : rest[i] = s[2 + i - 1]
      BY <3>1, SubSeqProperties
    <3> HIDE DEF rest
    <3>3. n - 2 + 1 = n - 1 /\ (IF 2 <= n THEN n - 2 + 1 ELSE 0) = n - 1
      OBVIOUS
    <3>4. \A i \in 1..(n - 1) : 2 + i - 1 = i + 1
      OBVIOUS
    <3>5. /\ Len(rest) = n - 1
          /\ \A i \in 1..(n - 1) : rest[i] = s[i + 1]
      BY <3>2, <3>3, <3>4
    <3> QED BY <3>2, <3>5
  <2> HIDE DEF rest
  <2>3. <<>> \o rest = rest
    BY <2>2
  <2>4. t = rest
    BY <2>1, <2>3 DEF RemoveAt, rest
  <2> QED BY <2>2, <2>4
<1> HIDE DEF t
<1>2. ASSUME NEW f
      PROVE  Cardinality(DataOf(t, f)) =
               Cardinality(DataOf(s, f)) - (IF s[1].f = f /\ s[1].type = "data" THEN 1 ELSE 0)
  <2> DEFINE later == DataOf(s, f) \ {1}
             shift == [i \in DataOf(t, f) |-> i + 1]
  <2>1. IsFiniteSet(DataOf(s, f)) /\ DataOf(s, f) \subseteq 1..Len(s)
        /\ Cardinality(DataOf(s, f)) \in Nat
    BY DataCounts
  <2>2. IsFiniteSet(DataOf(t, f)) /\ DataOf(t, f) \subseteq 1..Len(t)
    BY <1>1, DataCounts
  <2>3. \A i \in DataOf(t, f) : i \in Int /\ i + 1 \in later
    BY <1>0, <1>1, <2>2 DEF DataOf
  <2>4. \A j \in later : j \in Int /\ j - 1 \in DataOf(t, f) /\ (j - 1) + 1 = j
    BY <1>0, <1>1, <2>1 DEF DataOf
  <2>5. shift \in Bijection(DataOf(t, f), later)
    <3>1. shift \in [DataOf(t, f) -> later]
      BY <2>3
    <3>2. \A i, j \in DataOf(t, f) : shift[i] = shift[j] => i = j
      BY <2>3
    <3>3. \A j \in later : \E i \in DataOf(t, f) : shift[i] = j
      BY <2>4
    <3> HIDE DEF shift, later
    <3>4. shift \in Injection(DataOf(t, f), later)
      BY <3>1, <3>2 DEF Injection, IsInjective
    <3>5. shift \in Surjection(DataOf(t, f), later)
      BY <3>1, <3>3 DEF Surjection
    <3> QED BY <3>4, <3>5 DEF Bijection
  <2>6. ExistsBijection(DataOf(t, f), later)
    BY <2>5 DEF ExistsBijection
  <2> HIDE DEF later
  <2>7. Cardinality(later) = Cardinality(DataOf(t, f))
    BY <2>2, <2>6, FS_Bijection
  <2>8. 1 \in DataOf(s, f) <=> (s[1].f = f /\ s[1].type = "data")
    BY <1>0 DEF DataOf
  <2>9. Cardinality(later) = IF 1 \in DataOf(s, f) THEN Cardinality(DataOf(s, f)) - 1
                             ELSE Cardinality(DataOf(s, f))
    BY <2>1, FS_RemoveElement DEF later
  <2> QED BY <2>1, <2>7, <2>8, <2>9
<1> QED BY <1>0, <1>1, <1>2 DEF t

\* What is said about one call changes nothing for the others.
LEMMA AddedElsewhere ==
    ASSUME ShimInv, NEW g \in Fetches, NEW c \in Channels, NEW e \in HostFrames, e.f # g,
           opening' = [opening EXCEPT ![c] = Append(opening[c], e)],
           upstream'[g] = upstream[g], req'[g] = req[g]
    PROVE  StreamOf(g)'
<1> DEFINE s == opening[c]
           t == Append(s, e)
<1>1. s \in Seq(HostFrames) /\ StreamOf(g) /\ opening \in [Channels -> Seq(HostFrames)]
  BY DEF ShimInv, ShimShape
<1>2. /\ Len(t) = Len(s) + 1 /\ Len(s) \in Nat
      /\ \A i \in 1..Len(s) : t[i] = s[i]
      /\ t[Len(s) + 1] = e
      /\ Cardinality(DataOf(t, g)) = Cardinality(DataOf(s, g)) + 0
      /\ Cardinality(DataOf(s, g)) \in Nat
  BY <1>1, OneAdded, DataCounts
<1>3. \A d \in Channels : opening'[d] = IF d = c THEN t ELSE opening[d]
  BY <1>1
<1> HIDE DEF t
<1>4. \A i \in 1..Len(t) : i \in 1..Len(s) \/ t[i].f # g
  BY <1>2
<1>5. Coming(s, g) => Coming(t, g)
  BY <1>2, <1>4 DEF Coming, IsEnd
<1>6. Listened(s, g) => Listened(t, g)
  <2> SUFFICES ASSUME Listened(s, g) PROVE Listened(t, g)
    OBVIOUS
  <2> HIDE DEF s
  <2>1. upstream[g] # "ended" => req[g].got + Cardinality(DataOf(t, g)) = PartsOf(g)
    <3>1. Cardinality(DataOf(t, g)) = Cardinality(DataOf(s, g))
      BY <1>2
    <3> QED BY <3>1 DEF Listened
  <2>2. \A i \in 1..Len(t) : t[i].f = g /\ t[i].type = "close" => upstream[g] = "whole"
    BY <1>2, <1>4 DEF Listened
  <2>3. upstream[g] \in {"whole", "ended"} => \E i \in 1..Len(t) : IsEnd(t[i], g)
    <3> SUFFICES ASSUME upstream[g] \in {"whole", "ended"}
                 PROVE  \E i \in 1..Len(t) : IsEnd(t[i], g)
      OBVIOUS
    <3>1. PICK i \in 1..Len(s) : IsEnd(s[i], g)
      BY DEF Listened
    <3>2. i \in 1..Len(t) /\ t[i] = s[i]
      BY <1>2
    <3> QED BY <3>1, <3>2
  <2> QED BY <2>1, <2>2, <2>3 DEF Listened
<1>7. (\A i \in 1..Len(s) : s[i].f # g) => \A i \in 1..Len(t) : t[i].f # g
  BY <1>2, <1>4
<1>8. \A q : /\ Coming(q, g)' <=> Coming(q, g)
             /\ Listened(q, g)' <=> Listened(q, g)
  BY DEF Coming, Listened, PartsOf, SentParts
<1>9. ASSUME NEW d \in Channels
      PROVE  IF d = req'[g].c THEN Coming(opening'[d], g)
                              ELSE \A i \in 1..Len(opening'[d]) : opening'[d][i].f # g
  BY <1>1, <1>3, <1>5, <1>7 DEF StreamOf
<1>10. req'[g].listens => req'[g].c \in Channels /\ Listened(opening'[req'[g].c], g)
  BY <1>1, <1>3, <1>6 DEF StreamOf
<1>11. req'[g].seen = "whole" => req'[g].got = Parts /\ ~req'[g].listens
  BY <1>1 DEF StreamOf
<1> QED BY <1>8, <1>9, <1>10, <1>11 DEF StreamOf

LEMMA ReadOn ==
    ASSUME NEW s \in Seq(HostFrames), s # <<>>, NEW g \in Fetches, NEW t, t = RemoveAt(s, 1)
    PROVE  /\ Coming(s, g) => Coming(t, g)
           /\ (\A i \in 1..Len(s) : s[i].f # g) => \A i \in 1..Len(t) : t[i].f # g
           /\ \A i \in 1..Len(s) : i # 1 => \E j \in 1..Len(t) : t[j] = s[i]
           /\ \A j \in 1..Len(t) : \E i \in 1..Len(s) : i # 1 /\ t[j] = s[i]
<1>1. PICK n \in Nat \ {0} : n = Len(s)
  BY FirstRead
<1>2. Len(t) = n - 1 /\ \A i \in 1..(n - 1) : t[i] = s[i + 1]
  BY <1>1, FirstRead
<1>3. \A i \in 1..(n - 1) : i + 1 \in 1..n /\ i + 1 # 1
  OBVIOUS
<1>4. \A j \in 1..n : j # 1 => j - 1 \in 1..(n - 1) /\ (j - 1) + 1 = j
  OBVIOUS
<1>5. \A j \in 1..Len(t) : \E i \in 1..Len(s) : i # 1 /\ t[j] = s[i]
  BY <1>1, <1>2, <1>3
<1>6. \A i \in 1..Len(s) : i # 1 => \E j \in 1..Len(t) : t[j] = s[i]
  BY <1>1, <1>2, <1>4, ZenonT(30)
<1>7. ASSUME Coming(s, g) PROVE Coming(t, g)
  <2>1. \A i \in 1..Len(t) : t[i].f = g => upstream[g] \notin {"none", "asked"}
    BY <1>1, <1>2, <1>3, <1>7 DEF Coming
  <2>2. ASSUME NEW i \in 1..Len(t), IsEnd(t[i], g), NEW j \in 1..Len(t), j > i
        PROVE  upstream[g] \in {"whole", "ended"} /\ t[j].f # g
    <3>1. IsEnd(s[i + 1], g) /\ i + 1 \in 1..Len(s) /\ j + 1 \in 1..Len(s) /\ j + 1 > i + 1
          /\ t[j] = s[j + 1]
      BY <1>1, <1>2, <1>3, <2>2
    <3> QED BY <1>7, <3>1 DEF Coming
  <2>3. ASSUME NEW i \in 1..Len(t), IsEnd(t[i], g)
        PROVE  upstream[g] \in {"whole", "ended"}
    <3>1. IsEnd(s[i + 1], g) /\ i + 1 \in 1..Len(s)
      BY <1>1, <1>2, <1>3, <2>3
    <3> QED BY <1>7, <3>1 DEF Coming
  <2> QED BY <2>1, <2>2, <2>3 DEF Coming
<1>8. (\A i \in 1..Len(s) : s[i].f # g) => \A i \in 1..Len(t) : t[i].f # g
  BY <1>5
<1> QED BY <1>5, <1>6, <1>7, <1>8

\* What is left of a channel after its first frame was read tells a call what
\* it still has to hear.
LEMMA StreamRead ==
    ASSUME ShimInv, NEW g \in Fetches, NEW c \in Channels, opening[c] # <<>>,
           opening' = [opening EXCEPT ![c] = RemoveAt(opening[c], 1)],
           upstream' = upstream, req'[g].c = req[g].c, req'[g].listens => req[g].listens,
           req'[g].listens /\ req[g].c = c =>
               \/ opening[c][1].f # g /\ req'[g].got = req[g].got
               \/ /\ opening[c][1].f = g /\ opening[c][1].type \in {"open", "data"}
                  /\ req'[g].got = req[g].got + (IF opening[c][1].type = "data" THEN 1 ELSE 0),
           req[g].c # c => req'[g] = req[g],
           req'[g].seen = "whole" => req'[g].got = Parts /\ ~req'[g].listens
    PROVE  StreamOf(g)'
<1> PICK s, t : s = opening[c] /\ t = RemoveAt(s, 1)
  OBVIOUS
<1>1. s \in Seq(HostFrames) /\ s # <<>> /\ StreamOf(g) /\ opening \in [Channels -> Seq(HostFrames)]
      /\ req[g] \in Requests
  BY DEF ShimInv, ShimShape
<1>2. /\ s[1] \in HostFrames
      /\ Cardinality(DataOf(t, g)) =
           Cardinality(DataOf(s, g)) - (IF s[1].f = g /\ s[1].type = "data" THEN 1 ELSE 0)
      /\ Cardinality(DataOf(s, g)) \in Nat
  BY <1>1, FirstRead, DataCounts
<1>3. \A d \in Channels : opening'[d] = IF d = c THEN t ELSE opening[d]
  BY <1>1
<1>4. /\ Coming(s, g) => Coming(t, g)
      /\ (\A i \in 1..Len(s) : s[i].f # g) => \A i \in 1..Len(t) : t[i].f # g
      /\ \A i \in 1..Len(s) : i # 1 => \E j \in 1..Len(t) : t[j] = s[i]
      /\ \A j \in 1..Len(t) : \E i \in 1..Len(s) : t[j] = s[i]
  <2>1. \A j \in 1..Len(t) : \E i \in 1..Len(s) : i # 1 /\ t[j] = s[i]
    BY <1>1, ReadOn
  <2>2. \A i \in 1..Len(s) : i # 1 => \E j \in 1..Len(t) : t[j] = s[i]
    BY <1>1, ReadOn
  <2>3. Coming(s, g) => Coming(t, g)
    BY <1>1, ReadOn
  <2> QED BY ONLY <2>1, <2>2, <2>3
<1>5. ASSUME req'[g].listens, req[g].c = c
      PROVE  Listened(t, g)'
  <2>1. Listened(s, g)
    BY <1>1, <1>5 DEF StreamOf
  <2>2. upstream[g] # "ended" => req'[g].got + Cardinality(DataOf(t, g)) = PartsOf(g)
    <3>1. upstream[g] # "ended" => req[g].got + Cardinality(DataOf(s, g)) = PartsOf(g)
      BY <2>1 DEF Listened
    <3>2. req[g].got \in Nat
      BY <1>1 DEF Requests
    <3>3. CASE s[1].f = g /\ s[1].type = "data"
      BY <1>2, <1>5, <3>1, <3>2, <3>3
    <3>4. CASE ~(s[1].f = g /\ s[1].type = "data")
      BY <1>2, <1>5, <3>1, <3>2, <3>4
    <3> QED BY <3>3, <3>4
  <2>3. \A i \in 1..Len(t) : t[i].f = g /\ t[i].type = "close" => upstream[g] = "whole"
    BY <1>4, <2>1 DEF Listened
  <2>4. ASSUME upstream[g] \in {"whole", "ended"}
        PROVE  \E i \in 1..Len(t) : IsEnd(t[i], g)
    <3>1. PICK i \in 1..Len(s) : IsEnd(s[i], g)
      BY <2>1, <2>4 DEF Listened
    <3>2. i # 1
      BY <1>5, <3>1 DEF IsEnd
    <3> QED BY <1>4, <3>1, <3>2
  <2>5. \A q : DataOf(q, g)' = DataOf(q, g) /\ PartsOf(g)' = PartsOf(g)
    BY DEF DataOf, PartsOf, SentParts
  <2> QED BY <2>2, <2>3, <2>4, <2>5 DEF Listened
<1>6. \A q : Coming(q, g)' <=> Coming(q, g)
  BY DEF Coming
<1>7. ASSUME req'[g].listens, req[g].c # c
      PROVE  Listened(opening[req[g].c], g)'
  <2>1. Listened(opening[req[g].c], g) /\ opening'[req'[g].c] = opening[req[g].c]
        /\ req'[g] = req[g] /\ upstream' = upstream
    BY <1>1, <1>3, <1>7 DEF StreamOf
  <2> QED BY <2>1 DEF Listened, PartsOf, SentParts
<1>8. ASSUME NEW d \in Channels
      PROVE  IF d = req'[g].c THEN Coming(opening'[d], g)
                              ELSE \A i \in 1..Len(opening'[d]) : opening'[d][i].f # g
  BY <1>1, <1>3, <1>4 DEF StreamOf
<1>9. req'[g].listens => req'[g].c \in Channels /\ Listened(opening[req[g].c], g)'
  <2>1. CASE req'[g].listens /\ req[g].c = c
    <3>1. opening'[req'[g].c] = t
      BY <1>3, <2>1
    <3> QED BY <1>5, <2>1, <3>1
  <2>2. CASE req'[g].listens /\ req[g].c # c
    BY <1>1, <1>7, <2>2 DEF StreamOf
  <2> QED BY <2>1, <2>2
<1> QED BY <1>6, <1>8, <1>9 DEF StreamOf

LEMMA OpenedStep ==
    ASSUME ShimInv, Serial, NEW c \in Channels, Opened(c)
    PROVE  ShimInv'
<1> PICK s \in Seq(HostFrames) : s = opening[c]
  BY DEF ShimInv, ShimShape
<1>1. s # <<>> /\ UNCHANGED <<channel, wsOf, counter, onWire, sealing, upstream>>
  BY DEF Opened
<1> PICK e \in HostFrames : e = s[1]
  BY <1>1, FirstRead
<1>2. /\ opening' = [opening EXCEPT ![c] = RemoveAt(s, 1)]
      /\ req' = IF req[e.f].listens THEN [req EXCEPT ![e.f] = Handler(req[e.f], e.type)] ELSE req
  <2>1. PICK i \in 1..1 :
           /\ opening' = [opening EXCEPT ![c] = RemoveAt(@, i)]
           /\ req' = IF req[opening[c][i].f].listens
                     THEN [req EXCEPT ![opening[c][i].f] = Handler(@, opening[c][i].type)] ELSE req
    BY DEF Opened
  <2>2. i = 1 /\ e.f \in Fetches
    BY DEF HostFrames
  <2>3. opening[c][i] = e
    BY <2>2
  <2> QED BY <2>1, <2>2, <2>3 DEF ShimInv, ShimShape
<1> PICK f \in Fetches : f = e.f
  BY DEF HostFrames
<1>3. Len(s) \in Nat \ {0} /\ 1 \in 1..Len(s) /\ RemoveAt(s, 1) \in Seq(HostFrames)
  BY <1>1, FirstRead
<1>4. StreamOf(f) /\ UsedBy(f) /\ req[f] \in Requests /\ upstream[f] \in States
  BY DEF ShimInv, ChannelsUsed, ShimShape
<1>5. req[f].c = c /\ Coming(s, f)
  BY <1>3, <1>4 DEF StreamOf
<1>6. upstream[f] \notin {"none", "asked"}
  BY <1>3, <1>5 DEF Coming
<1>7. req[f].at \notin {"idle", "channel"} /\ req[f].c # 0
  BY <1>4, <1>6 DEF ShimInv, ShimShape, UsedBy
<1>8. PICK r \in Requests :
        /\ req' = [req EXCEPT ![f] = r]
        /\ r.c = req[f].c /\ r.at = req[f].at /\ r.aborted = req[f].aborted
        /\ \/ r = req[f] /\ ~r.listens
           \/ /\ req[f].listens /\ r.listens /\ e.type \in {"open", "data"}
              /\ r.seen # "whole" /\ r.got = req[f].got + (IF e.type = "data" THEN 1 ELSE 0)
           \/ req[f].listens /\ ~r.listens /\ e.type = "close" /\ r.seen = "whole" /\ r.got = req[f].got
           \/ req[f].listens /\ ~r.listens /\ r.seen = "failed"
  <2>1. CASE ~req[f].listens
    <3>1. req' = [req EXCEPT ![f] = req[f]]
      BY <1>2, <2>1 DEF ShimInv, ShimShape
    <3> QED BY <1>4, <2>1, <3>1
  <2>2. CASE req[f].listens
    <3> PICK r : r = Handler(req[f], e.type)
      OBVIOUS
    <3>1. req' = [req EXCEPT ![f] = r]
      BY <1>2, <2>2
    <3>2. req[f].seen # "whole"
      BY <1>4, <2>2 DEF StreamOf
    <3>3. CASE e.type = "open"
      <4>1. r = [req[f] EXCEPT !.seen = IF @ = "nothing" THEN "head" ELSE @]
        BY <3>3 DEF Handler
      <4>2. /\ r \in Requests /\ r.c = req[f].c /\ r.at = req[f].at /\ r.aborted = req[f].aborted
            /\ r.listens = req[f].listens /\ r.got = req[f].got /\ r.got \in Nat
            /\ r.seen = IF req[f].seen = "nothing" THEN "head" ELSE req[f].seen
        BY <1>4, <4>1 DEF Requests
      <4>3. r.got = req[f].got + (IF e.type = "data" THEN 1 ELSE 0) /\ r.seen # "whole"
        BY <3>2, <3>3, <4>2
      <4> QED BY <2>2, <3>1, <3>3, <4>2, <4>3
    <3>4. CASE e.type = "data"
      <4>1. r = [req[f] EXCEPT !.got = @ + 1]
        BY <3>4 DEF Handler
      <4>2. /\ r \in Requests /\ r.c = req[f].c /\ r.at = req[f].at /\ r.aborted = req[f].aborted
            /\ r.listens = req[f].listens /\ r.got = req[f].got + 1 /\ r.seen = req[f].seen
        BY <1>4, <4>1, ChunkCounted
      <4> QED BY <2>2, <3>1, <3>2, <3>4, <4>2
    <3>5. CASE e.type = "close"
      <4>1. r = [req[f] EXCEPT !.listens = FALSE, !.seen = "whole"]
        BY <3>5 DEF Handler
      <4>2. /\ r \in Requests /\ r.c = req[f].c /\ r.at = req[f].at /\ r.aborted = req[f].aborted
            /\ ~r.listens /\ r.got = req[f].got /\ r.seen = "whole"
        BY <1>4, <4>1 DEF Requests
      <4> QED BY <2>2, <3>1, <3>5, <4>2
    <3>6. CASE e.type \in {"abort", "error"}
      <4>1. r = [req[f] EXCEPT !.listens = FALSE, !.seen = "failed"]
        BY <3>6 DEF Handler
      <4>2. /\ r \in Requests /\ r.c = req[f].c /\ r.at = req[f].at /\ r.aborted = req[f].aborted
            /\ ~r.listens /\ r.got = req[f].got /\ r.seen = "failed"
        BY <1>4, <4>1 DEF Requests
      <4> QED BY <2>2, <3>1, <4>2
    <3> QED BY <3>3, <3>4, <3>5, <3>6 DEF HostFrames
  <2> QED BY <2>1, <2>2
<1>9. \A h \in Fetches : req'[h] = IF h = f THEN r ELSE req[h]
  BY <1>8, OneRequest DEF ShimInv
<1>10. NoncesCounted'
  BY <1>1 DEF ShimInv, NoncesCounted, NonceOnce
<1>11. ShimShape' /\ ChannelsUsed'
  <2>1. /\ opening' \in [Channels -> Seq(HostFrames)] /\ onWire' \in [Channels -> SUBSET Nat]
        /\ counter' \in [Channels -> Nat] /\ sealing' \subseteq Sealings
        /\ upstream' \in [Fetches -> States] /\ \A g \in Fetches : g # f => upstream'[g] = upstream[g]
        /\ \A m \in sealing' : m \in sealing
    BY <1>1, <1>2, <1>3 DEF ShimInv, ShimShape
  <2>2. /\ r.at \notin {"idle", "channel"} /\ req[f].at \notin {"idle", "channel"}
        /\ r.at = req[f].at /\ r.c = req[f].c /\ r.aborted = req[f].aborted
        /\ r.listens => req[f].listens
    BY <1>7, <1>8
  <2>3. req[f].listens => ~req[f].aborted
    BY <1>4 DEF UsedBy
  <2>4. ~r.aborted /\ r.seen \in {"nothing", "head"} => r.listens
    BY <1>4, <1>7, <1>8 DEF UsedBy
  <2>5. req' = [req EXCEPT ![f] = r] /\ UNCHANGED <<channel, wsOf>>
    BY <1>1, <1>8
  <2> QED BY ONLY ShimInv, f \in Fetches, r \in Requests, <2>1, <2>2, <2>3, <2>4, <2>5, CallMoves
<1>12. r.seen = "whole" => r.got = Parts /\ ~r.listens
  <2>1. CASE r = req[f]
    BY <1>4, <2>1 DEF StreamOf
  <2>2. CASE req[f].listens /\ e.type = "close" /\ ~r.listens /\ r.got = req[f].got
    <3>1. Listened(s, f)
      BY <1>4, <1>5, <2>2 DEF StreamOf
    <3>2. upstream[f] = "whole" /\ IsEnd(s[1], f)
      BY <1>3, <2>2, <3>1 DEF Listened, IsEnd
    <3>3. \A j \in 1..Len(s) : j > 1 => s[j].f # f
      BY <1>3, <1>5, <3>2 DEF Coming
    <3>4. \A j \in 1..Len(s) : j > 1 \/ j = 1
      BY <1>3
    <3>5. DataOf(s, f) = {}
      BY <2>2, <3>3, <3>4 DEF DataOf
    <3>6. Cardinality(DataOf(s, f)) = 0
      BY <3>5, FS_EmptySet
    <3>7. req[f].got + 0 = Parts /\ req[f].got \in Nat
      BY <1>4, <3>1, <3>2, <3>6 DEF Listened, PartsOf, Requests
    <3> QED BY <2>2, <3>7
  <2> QED BY <1>8, <2>1, <2>2
<1>13. ASSUME NEW g \in Fetches PROVE StreamOf(g)'
  <2>0. opening[c] # <<>> /\ opening' = [opening EXCEPT ![c] = RemoveAt(opening[c], 1)]
        /\ upstream' = upstream
    BY <1>1, <1>2
  <2>1. CASE g = f
    <3>1. req'[g] = r
      BY <1>9, <2>1
    <3>2. /\ req'[g].c = req[g].c /\ (req'[g].listens => req[g].listens) /\ req[g].c = c
          /\ req'[g].seen = "whole" => req'[g].got = Parts /\ ~req'[g].listens
      BY <1>5, <1>8, <1>12, <2>1, <3>1
    <3>3. req'[g].listens => /\ opening[c][1].f = g /\ opening[c][1].type \in {"open", "data"}
             /\ req'[g].got = req[g].got + (IF opening[c][1].type = "data" THEN 1 ELSE 0)
      BY <1>8, <2>1, <3>1
    <3> QED BY ONLY ShimInv, g \in Fetches, c \in Channels, <2>0, <3>2, <3>3, StreamRead
  <2>2. CASE g # f
    <3>1. req'[g] = req[g] /\ opening[c][1].f # g
      BY <1>9, <2>2
    <3>2. req[g].seen = "whole" => req[g].got = Parts /\ ~req[g].listens
      BY DEF ShimInv, StreamOf
    <3> QED BY ONLY ShimInv, g \in Fetches, c \in Channels, <2>0, <3>1, <3>2, StreamRead
  <2> QED BY <2>1, <2>2
<1> QED BY <1>10, <1>11, <1>13 DEF ShimInv

\* What a host says next about a call, and what it has done then.
SaysNext(f, type, state) ==
    \/ type = "open" /\ upstream[f] = "asked" /\ state = "head"
    \/ type = "data" /\ upstream[f] = "head" /\ state = "part1"
    \/ type = "data" /\ upstream[f] = "part1" /\ state = "part2"
    \/ /\ type = "close" /\ upstream[f] \in {"head", "part1", "part2"}
       /\ SentParts(f) = Parts /\ state = "whole"
    \/ type \in {"abort", "error"} /\ upstream[f] \in {"asked", "head", "part1", "part2"} /\ state = "ended"

LEMMA AnswersStep ==
    ASSUME ShimInv, NEW f \in Fetches, NEW type, NEW state,
           Answers(f, type, state), SaysNext(f, type, state)
    PROVE  ShimInv'
<1>1. /\ upstream[f] \in {"asked", "head", "part1", "part2"}
      /\ type \in {"open", "data", "close", "abort", "error"}
      /\ state \in {"head", "part1", "part2", "whole", "ended"} /\ state \in States
  BY DEF SaysNext, States
<1>2. req[f] \in Requests /\ StreamOf(f) /\ UsedBy(f)
  BY DEF ShimInv, ShimShape, ChannelsUsed
<1>3. req[f].at \notin {"idle", "channel"} /\ req[f].c # 0
  BY <1>1, <1>2 DEF ShimInv, ShimShape, UsedBy
<1> PICK c \in Channels : c = req[f].c
  BY <1>2, <1>3, ShimAssumption DEF Requests, Channels
<1> PICK e \in HostFrames : e = [f |-> f, type |-> type]
  BY <1>1 DEF HostFrames
<1>4. e.f = f /\ e.type = type
  OBVIOUS
<1> PICK s \in Seq(HostFrames) : s = opening[c]
  BY DEF ShimInv, ShimShape
<1> PICK t : t = Append(s, e)
  OBVIOUS
<1>5. /\ opening' = [opening EXCEPT ![c] = t] /\ upstream' = [upstream EXCEPT ![f] = state]
      /\ UNCHANGED <<channel, wsOf, counter, onWire, sealing, req>>
  BY DEF Answers
<1>6. /\ t \in Seq(HostFrames) /\ Len(t) = Len(s) + 1 /\ Len(s) \in Nat
      /\ \A i \in 1..Len(s) : t[i] = s[i]
      /\ t[Len(s) + 1] = e
      /\ Cardinality(DataOf(t, f)) = Cardinality(DataOf(s, f)) + (IF type = "data" THEN 1 ELSE 0)
      /\ Cardinality(DataOf(s, f)) \in Nat
  BY <1>4, OneAdded, DataCounts
<1>7. /\ upstream' \in [Fetches -> States] /\ upstream'[f] = state
      /\ \A g \in Fetches : g # f => upstream'[g] = upstream[g]
      /\ opening' \in [Channels -> Seq(HostFrames)]
      /\ \A d \in Channels : opening'[d] = IF d = c THEN t ELSE opening[d]
  BY <1>1, <1>5, <1>6 DEF ShimInv, ShimShape
<1>8. NoncesCounted'
  BY <1>5 DEF ShimInv, NoncesCounted, NonceOnce
<1>9. ShimShape' /\ ChannelsUsed'
  <2>1. /\ onWire' \in [Channels -> SUBSET Nat]
        /\ counter' \in [Channels -> Nat] /\ sealing' \subseteq Sealings
        /\ \A m \in sealing' : m \in sealing
        /\ UNCHANGED <<channel, wsOf>>
    BY <1>5 DEF ShimInv, ShimShape
  <2>2. req' = [req EXCEPT ![f] = req[f]]
    BY <1>5 DEF ShimInv, ShimShape
  <2>3. /\ req[f].listens => ~req[f].aborted
        /\ ~req[f].aborted /\ req[f].seen \in {"nothing", "head"} => req[f].listens
    BY <1>2, <1>3 DEF UsedBy
  <2> QED BY ONLY ShimInv, f \in Fetches, <1>2, <1>3, <1>7, <2>1, <2>2, <2>3, CallMoves
<1>10. ASSUME NEW i \in 1..Len(t)
       PROVE  (i \in 1..Len(s) /\ t[i] = s[i]) \/ (i = Len(s) + 1 /\ t[i] = e)
  BY <1>6
<1>11. Coming(s, f) /\ \A i \in 1..Len(s) : ~IsEnd(s[i], f)
  <2>1. Coming(s, f)
    BY <1>2 DEF StreamOf
  <2> QED BY <1>1, <2>1 DEF Coming
<1>12. Coming(t, f)'
  <2>1. \A i \in 1..Len(t) : IsEnd(t[i], f) => i = Len(s) + 1 /\ state \in {"whole", "ended"}
    BY <1>4, <1>10, <1>11, SMTT(30) DEF IsEnd, SaysNext
  <2>2. \A j \in 1..Len(t) : ~(j > Len(s) + 1)
    BY <1>6
  <2> QED BY <1>1, <1>7, <2>1, <2>2 DEF Coming, IsEnd
<1>13. ASSUME req[f].listens PROVE Listened(t, f)'
  <2>1. Listened(s, f)
    BY <1>2, <1>13 DEF StreamOf
  <2>2. req[f].got + Cardinality(DataOf(s, f)) = PartsOf(f) /\ req[f].got \in Nat
    BY <1>1, <1>2, <2>1 DEF Listened, Requests
  <2>3. state # "ended" =>
          PartsOf(f)' = PartsOf(f) + (IF type = "data" THEN 1 ELSE 0)
    BY <1>7 DEF PartsOf, SentParts, SaysNext
  <2>4. state # "ended" => req'[f].got + Cardinality(DataOf(t, f)) = PartsOf(f)'
    <3> PICK n \in Nat : n = Cardinality(DataOf(s, f))
      BY <1>6
    <3>0. req'[f].got = req[f].got /\ req[f].got + n = PartsOf(f)
      BY <1>5, <2>2
    <3>1. CASE type = "data"
      <4>1. Cardinality(DataOf(t, f)) = n + 1
        BY <1>6, <3>1
      <4>2. state # "ended" => PartsOf(f)' = PartsOf(f) + 1
        BY <2>3, <3>1
      <4> QED BY <2>2, <3>0, <4>1, <4>2
    <3>2. CASE type # "data"
      <4>1. Cardinality(DataOf(t, f)) = n
        BY <1>6, <3>2
      <4>2. state # "ended" => PartsOf(f)' = PartsOf(f)
        BY <2>2, <2>3, <3>0, <3>2
      <4> QED BY <2>2, <3>0, <4>1, <4>2
    <3> QED BY <3>1, <3>2
  <2>5. \A i \in 1..Len(t) : t[i].f = f /\ t[i].type = "close" => state = "whole"
    BY <1>4, <1>10, <1>11, SMTT(30) DEF IsEnd, SaysNext
  <2>6. state \in {"whole", "ended"} => \E i \in 1..Len(t) : IsEnd(t[i], f)
    <3>1. Len(s) + 1 \in 1..Len(t)
      BY <1>6
    <3>2. state \in {"whole", "ended"} => IsEnd(t[Len(s) + 1], f)
      BY <1>4, <1>6 DEF IsEnd, SaysNext
    <3> QED BY <3>1, <3>2
  <2> QED BY <1>7, <2>4, <2>5, <2>6, ZenonT(30) DEF Listened, DataOf, IsEnd
<1>14. StreamOf(f)'
  <2>1. ASSUME NEW d \in Channels, d # c
        PROVE  \A i \in 1..Len(opening'[d]) : opening'[d][i].f # f
    <3>1. opening'[d] = opening[d]
      BY <1>7, <2>1
    <3>2. \A i \in 1..Len(opening[d]) : opening[d][i].f # f
      BY <1>2, <2>1 DEF StreamOf
    <3> QED BY <3>1, <3>2
  <2>2. req' = req /\ opening'[c] = t
    BY <1>5, <1>7
  <2>3. req[f].seen = "whole" => req[f].got = Parts /\ ~req[f].listens
    BY <1>2 DEF StreamOf
  <2>4. \A d \in Channels : IF d = req'[f].c THEN Coming(opening[d], f)'
                            ELSE \A i \in 1..Len(opening'[d]) : opening'[d][i].f # f
    BY <1>12, <2>1, <2>2
  <2>5. req'[f].listens => req'[f].c \in Channels /\ Listened(opening[req[f].c], f)'
    BY <1>13, <2>2
  <2> QED BY <2>2, <2>3, <2>4, <2>5 DEF StreamOf
<1>15. ASSUME NEW g \in Fetches PROVE StreamOf(g)'
  <2>1. CASE g # f
    <3>1. e.f # g /\ opening' = [opening EXCEPT ![c] = Append(opening[c], e)]
          /\ upstream'[g] = upstream[g] /\ req'[g] = req[g]
      BY <1>4, <1>5, <1>7, <2>1
    <3> QED BY ONLY ShimInv, g \in Fetches, c \in Channels, e \in HostFrames, <3>1, AddedElsewhere
  <2> QED BY <1>14, <2>1
<1> QED BY <1>8, <1>9, <1>15 DEF ShimInv

LEMMA EndsStep ==
    ASSUME ShimInv, NEW c \in Channels, ChannelEnds(c)
    PROVE  ShimInv'
<1>1. /\ wsOf[c] \in {"opening", "open"} /\ wsOf' = [wsOf EXCEPT ![c] = "closed"]
      /\ channel' = IF channel = c THEN 0 ELSE channel
      /\ opening' = [opening EXCEPT ![c] = <<>>] /\ onWire' = [onWire EXCEPT ![c] = {}]
      /\ UNCHANGED <<counter, sealing>>
  BY DEF ChannelEnds
<1>2. /\ \A d \in Channels : wsOf'[d] = IF d = c THEN "closed" ELSE wsOf[d]
      /\ \A d \in Channels : opening'[d] = IF d = c THEN <<>> ELSE opening[d]
      /\ wsOf' \in [Channels -> {"unused", "opening", "open", "closed"}]
      /\ opening' \in [Channels -> Seq(HostFrames)] /\ onWire' \in [Channels -> SUBSET Nat]
      /\ channel' \in 0..MaxChannels
      /\ \A d \in Channels : \A n \in onWire'[d] : n \in onWire[d]
  BY <1>1, ShimAssumption DEF ShimInv, ShimShape
<1>3. ASSUME NEW f \in Fetches
      PROVE  /\ upstream'[f] = IF req[f].c = c /\ upstream[f] # "none" THEN "ended" ELSE upstream[f]
             /\ upstream'[f] \in States /\ req'[f] \in Requests
             /\ req'[f].c = req[f].c /\ req'[f].got = req[f].got /\ req'[f].aborted = req[f].aborted
             /\ \/ req'[f] = req[f] /\ (req[f].c = c => req[f].at # "channel" /\ ~req[f].listens)
                \/ /\ req[f].c = c /\ ~req'[f].listens /\ req'[f].seen = "failed"
                   /\ req'[f].at = req[f].at /\ req[f].at # "channel"
                \/ /\ req[f].c = c /\ ~req'[f].listens /\ req'[f].seen = "failed"
                   /\ req'[f].at = "over" /\ req[f].at = "channel"
  <2>1. upstream'[f] = IF req[f].c = c /\ upstream[f] # "none" THEN "ended" ELSE upstream[f]
    BY DEF ChannelEnds
  <2>2. UsedBy(f) /\ req[f] \in Requests /\ upstream[f] \in States
    BY DEF ShimInv, ShimShape, ChannelsUsed
  <2>3. upstream'[f] \in States
    BY <2>1, <2>2 DEF States
  <2>4. CASE wsOf[c] = "open"
    <3>1. req'[f] = IF req[f].listens /\ req[f].c = c
                    THEN [req[f] EXCEPT !.listens = FALSE, !.seen = "failed"] ELSE req[f]
      BY <2>4 DEF ChannelEnds, FailAll
    <3>2. req[f].c = c => req[f].at # "channel"
      BY <2>2, <2>4 DEF UsedBy
    <3>3. CASE req[f].listens /\ req[f].c = c
      <4> PICK r : r = [req[f] EXCEPT !.listens = FALSE, !.seen = "failed"]
        OBVIOUS
      <4>1. /\ r \in Requests /\ r.at = req[f].at /\ r.c = req[f].c /\ r.got = req[f].got
            /\ r.aborted = req[f].aborted /\ ~r.listens /\ r.seen = "failed"
        BY <2>2 DEF Requests
      <4>2. req'[f] = r
        BY <3>1, <3>3
      <4> QED BY <2>1, <2>3, <3>2, <3>3, <4>1, <4>2
    <3>4. CASE ~(req[f].listens /\ req[f].c = c)
      BY <2>1, <2>2, <2>3, <3>1, <3>2, <3>4
    <3> QED BY <3>3, <3>4
  <2>5. CASE wsOf[c] = "opening"
    <3>1. req'[f] = IF req[f].at = "channel" /\ req[f].c = c
                    THEN [req[f] EXCEPT !.at = "over", !.seen = "failed"] ELSE req[f]
      BY <2>5 DEF ChannelEnds
    <3>2. req[f].c = c => ~req[f].listens
      BY <2>2, <2>5 DEF UsedBy
    <3>3. CASE req[f].at = "channel" /\ req[f].c = c
      <4> PICK r : r = [req[f] EXCEPT !.at = "over", !.seen = "failed"]
        OBVIOUS
      <4>1. /\ r \in Requests /\ r.at = "over" /\ r.c = req[f].c /\ r.got = req[f].got
            /\ r.aborted = req[f].aborted /\ r.listens = req[f].listens /\ r.seen = "failed"
        BY <2>2 DEF Requests
      <4>2. req'[f] = r
        BY <3>1, <3>3
      <4> QED BY <2>1, <2>3, <3>2, <3>3, <4>1, <4>2
    <3>4. CASE ~(req[f].at = "channel" /\ req[f].c = c)
      BY <2>1, <2>2, <2>3, <3>1, <3>2, <3>4
    <3> QED BY <3>3, <3>4
  <2> QED BY <1>1, <2>4, <2>5
<1>4. req' \in [Fetches -> Requests] /\ upstream' \in [Fetches -> States]
  <2>1. ASSUME wsOf[c] = "open" PROVE req' \in [Fetches -> Requests]
    <3>1. req' = [f \in Fetches |-> req'[f]]
      BY <2>1 DEF ChannelEnds, FailAll
    <3> QED BY <1>3, <3>1
  <2>2. ASSUME wsOf[c] = "opening" PROVE req' \in [Fetches -> Requests]
    <3>1. req' = [f \in Fetches |-> req'[f]]
      BY <2>2 DEF ChannelEnds
    <3> QED BY <1>3, <3>1
  <2>3. upstream' \in [Fetches -> States]
    <3>1. upstream' = [f \in Fetches |-> upstream'[f]]
      BY DEF ChannelEnds
    <3> QED BY <1>3, <3>1
  <2>4. req' \in [Fetches -> Requests]
    BY <1>1, <2>1, <2>2
  <2> QED BY <2>3, <2>4
<1>5. NoncesCounted'
  <2>1. SealsNothing(sealing)
    BY <1>1 DEF SealsNothing
  <2> QED BY <1>2, <2>1, SealStep DEF ShimInv
<1>6. c \in 0..MaxChannels /\ c # 0
  BY ShimAssumption DEF Channels
<1>7. ASSUME NEW f \in Fetches
      PROVE  /\ req'[f].at = "idle" <=> req'[f].c = 0
             /\ req'[f].at = "idle" => upstream'[f] = "none"
             /\ UsedBy(f)'
  <2>1. UsedBy(f) /\ (req[f].at = "idle" <=> req[f].c = 0) /\ (req[f].at = "idle" => upstream[f] = "none")
        /\ req[f] \in Requests /\ (req[f].c # 0 => req[f].c \in Channels)
    BY ShimAssumption DEF ShimInv, ShimShape, ChannelsUsed, Requests, Channels
  <2>2. CASE req[f].c # c
    BY <1>2, <1>3, <2>1, <2>2 DEF UsedBy
  <2>3. CASE req[f].c = c
    BY <1>2, <1>3, <1>6, <2>1, <2>3 DEF UsedBy
  <2> QED BY <2>2, <2>3
<1>8. ASSUME NEW m \in sealing'
      PROVE  /\ req'[m.f].at \notin {"idle", "channel"}
             /\ m.kind = "cancel" => req'[m.f].aborted
  <2>1. /\ m.f \in Fetches /\ req[m.f].at \notin {"idle", "channel"}
        /\ m.kind = "cancel" => req[m.f].aborted
    BY <1>1 DEF ShimInv, ShimShape, Sealings, ChannelsUsed
  <2> QED BY <1>3, <2>1
<1>9. ShimShape'
  BY <1>1, <1>2, <1>4, <1>7, <1>8 DEF ShimInv, ShimShape
<1>10. ChannelsUsed'
  <2>1. channel' # 0 => wsOf'[channel'] = "open"
    <3>1. channel # 0 => channel \in Channels /\ wsOf[channel] = "open"
      BY ShimAssumption DEF ShimInv, ShimShape, ChannelsUsed, Channels
    <3> QED BY <1>1, <1>2, <3>1
  <2>2. ASSUME NEW g \in Fetches, NEW h \in Fetches,
               req'[g].at = "channel", req'[h].at = "channel", req'[g].c = req'[h].c
        PROVE  g = h
    <3>1. /\ req[g].at = "channel" /\ req[g].c = req'[g].c
          /\ req[h].at = "channel" /\ req[h].c = req'[h].c
      BY <1>3, <2>2
    <3> QED BY <2>2, <3>1 DEF ShimInv, ChannelsUsed
  <2> QED BY <1>7, <1>8, <2>1, <2>2 DEF ChannelsUsed
<1>11. ASSUME NEW f \in Fetches PROVE StreamOf(f)'
  <2>1. StreamOf(f)
    BY DEF ShimInv
  <2>2. ASSUME NEW d \in Channels
        PROVE  IF d = req'[f].c THEN Coming(opening[d], f)'
                                ELSE \A i \in 1..Len(opening'[d]) : opening'[d][i].f # f
    <3>1. CASE d = c
      <4>1. opening'[d] = <<>> /\ 1..Len(<<>>) = {}
        BY <1>2, <3>1
      <4> QED BY <4>1 DEF Coming
    <3>2. CASE d # c
      <4>1. opening'[d] = opening[d] /\ req'[f].c = req[f].c
        BY <1>2, <1>3, <3>2
      <4>2. req[f].c = d => upstream'[f] = upstream[f]
        BY <1>3, <3>2
      <4> QED BY <2>1, <4>1, <4>2 DEF StreamOf, Coming
    <3> QED BY <3>1, <3>2
  <2>3. req'[f].listens => req'[f].c \in Channels /\ Listened(opening[req[f].c], f)'
    <3> SUFFICES ASSUME req'[f].listens
                 PROVE  req'[f].c \in Channels /\ Listened(opening[req[f].c], f)'
      OBVIOUS
    <3>1. req'[f] = req[f] /\ req[f].c # c /\ upstream'[f] = upstream[f]
      BY <1>3
    <3>2. req[f].c \in Channels /\ Listened(opening[req[f].c], f)
      BY <2>1, <3>1 DEF StreamOf
    <3>3. opening'[req'[f].c] = opening[req[f].c]
      BY <1>2, <3>1, <3>2
    <3> QED BY <3>1, <3>2, <3>3 DEF Listened, PartsOf, SentParts
  <2>4. req'[f].seen = "whole" => req'[f].got = Parts /\ ~req'[f].listens
    BY <1>3, <2>1 DEF StreamOf
  <2> QED BY <2>2, <2>3, <2>4 DEF StreamOf
<1> QED BY <1>5, <1>9, <1>10, <1>11 DEF ShimInv

LEMMA ShimStep ==
    ASSUME ShimInv, Serial, [ShimNext]_shimVars
    PROVE  ShimInv'
<1>1. CASE UNCHANGED shimVars
  <2>0. /\ channel' = channel /\ wsOf' = wsOf /\ counter' = counter /\ onWire' = onWire
        /\ sealing' = sealing /\ opening' = opening /\ req' = req /\ upstream' = upstream
    BY <1>1 DEF shimVars
  <2>1. ShimShape'
    BY <2>0 DEF ShimInv, ShimShape
  <2>2. NoncesCounted'
    BY <2>0 DEF ShimInv, NoncesCounted, NonceOnce
  <2>3. ChannelsUsed'
    BY <2>0 DEF ShimInv, ChannelsUsed, UsedBy
  <2>4. \A f \in Fetches : StreamOf(f)'
    BY <2>0, StreamKept
  <2> QED BY <2>1, <2>2, <2>3, <2>4 DEF ShimInv
<1>2. ASSUME NEW f \in Fetches, Fetch(f) PROVE ShimInv'
  BY <1>2, FetchStep
<1>3. ASSUME NEW f \in Fetches, ChannelOpens(f) PROVE ShimInv'
  BY <1>3, OpensStep
<1>4. ASSUME NEW m \in sealing, Sealed(m) PROVE ShimInv'
  BY <1>4, SealedStep
<1>5. ASSUME NEW f \in Fetches, Abort(f) PROVE ShimInv'
  BY <1>5, AbortStep
<1>6. ASSUME NEW f \in Fetches, HostHead(f) PROVE ShimInv'
  <2>1. Answers(f, "open", "head") /\ SaysNext(f, "open", "head")
    BY <1>6 DEF HostHead, SaysNext
  <2> QED BY <2>1, AnswersStep
<1>7. ASSUME NEW f \in Fetches, HostPart(f) PROVE ShimInv'
  <2>1. CASE upstream[f] = "head"
    <3>1. Answers(f, "data", "part1") /\ SaysNext(f, "data", "part1")
      BY <1>7, <2>1 DEF HostPart, SaysNext
    <3> QED BY <3>1, AnswersStep
  <2>2. CASE upstream[f] = "part1"
    <3>1. Answers(f, "data", "part2") /\ SaysNext(f, "data", "part2")
      BY <1>7, <2>2 DEF HostPart, SaysNext
    <3> QED BY <3>1, AnswersStep
  <2> QED BY <1>7, <2>1, <2>2 DEF HostPart
<1>8. ASSUME NEW f \in Fetches, HostEnd(f) PROVE ShimInv'
  <2>1. Answers(f, "close", "whole") /\ SaysNext(f, "close", "whole")
    BY <1>8 DEF HostEnd, SaysNext
  <2> QED BY <2>1, AnswersStep
<1>9. ASSUME NEW f \in Fetches, HostFails(f) PROVE ShimInv'
  <2>1. PICK type \in {"abort", "error"} : Answers(f, type, "ended")
    BY <1>9 DEF HostFails
  <2>2. SaysNext(f, type, "ended")
    BY <1>9 DEF HostFails, SaysNext
  <2> QED BY <2>1, <2>2, AnswersStep
<1>10. ASSUME NEW c \in Channels, Opened(c) PROVE ShimInv'
  BY <1>10, OpenedStep
<1>11. ASSUME NEW c \in Channels, ChannelEnds(c) PROVE ShimInv'
  BY <1>11, EndsStep
<1> QED BY <1>1, <1>2, <1>3, <1>4, <1>5, <1>6, <1>7, <1>8, <1>9, <1>10, <1>11 DEF ShimNext

LEMMA ShimTold == ShimInv => ChannelHolds
<1> SUFFICES ASSUME ShimInv PROVE ChannelHolds
  OBVIOUS
<1>1. WholeIsWhole
  BY DEF WholeIsWhole, ShimInv, StreamOf
<1>2. NonceOnce
  BY DEF ShimInv, NoncesCounted
<1>3. NoSilentHang
  <2> SUFFICES ASSUME NEW f \in Fetches, req[f].c # 0, ~req[f].aborted,
                      req[f].seen \notin {"whole", "failed"},
                      \/ wsOf[req[f].c] = "closed"
                      \/ /\ wsOf[req[f].c] = "open" /\ upstream[f] \in {"whole", "ended"}
                         /\ ~ \E i \in DOMAIN opening[req[f].c] : opening[req[f].c][i].f = f
               PROVE  FALSE
    BY DEF NoSilentHang
  <2>1. req[f] \in Requests /\ UsedBy(f) /\ StreamOf(f)
    BY DEF ShimInv, ShimShape, ChannelsUsed
  <2>2. req[f].seen \in {"nothing", "head"}
    BY <2>1 DEF Requests
  <2>3. req[f].at = "channel" \/ req[f].listens
    BY <2>1, <2>2 DEF UsedBy
  <2>4. req[f].listens /\ wsOf[req[f].c] = "open"
    BY <2>1, <2>3 DEF UsedBy
  <2>5. req[f].c \in Channels /\ Listened(opening[req[f].c], f)
    BY <2>1, <2>4 DEF StreamOf
  <2>6. upstream[f] \in {"whole", "ended"}
    BY <2>4
  <2>7. PICK i \in 1..Len(opening[req[f].c]) : IsEnd(opening[req[f].c][i], f)
    BY <2>5, <2>6 DEF Listened
  <2>8. DOMAIN opening[req[f].c] = 1..Len(opening[req[f].c])
    BY <2>5 DEF ShimInv, ShimShape
  <2> QED BY <2>4, <2>7, <2>8 DEF IsEnd
<1> QED BY <1>1, <1>2, <1>3 DEF ChannelHolds, AnswersTrue

\* While the browser ends its decryptions in the order it started them, an
\* answer that a fetch of the page reports as whole is whole, no call hangs in
\* silence, and no nonce seals two frames of a channel: whatever fetches and
\* aborts run beside each other and whenever a channel ends (e2ee-shim.ts).
THEOREM PagesAreTold ==
    ASSUME Serial
    PROVE  ShimSpec => []ChannelHolds
<1>1. ShimInit => ShimInv
  BY ShimStart
<1>2. ShimInv /\ [ShimNext]_shimVars => ShimInv'
  BY ShimStep
<1>3. ShimInv => ChannelHolds
  BY ShimTold
<1> QED BY <1>1, <1>2, <1>3, PTL DEF ShimSpec

\* The nonces do not depend on the order in which decryptions end: that needs
\* the shape of the state alone.
LEMMA ShapeMoves ==
    ASSUME ShimShape, NEW f \in Fetches, NEW r \in Requests, req' = [req EXCEPT ![f] = r],
           r.at # "idle", r.c # 0, channel' \in 0..MaxChannels,
           wsOf' \in [Channels -> {"unused", "opening", "open", "closed"}],
           counter' \in [Channels -> Nat], onWire' \in [Channels -> SUBSET Nat],
           sealing' \subseteq Sealings, opening' \in [Channels -> Seq(HostFrames)],
           \A m \in sealing' : m \in sealing \/ m.f = f,
           upstream' \in [Fetches -> States], \A g \in Fetches : g # f => upstream'[g] = upstream[g]
    PROVE  ShimShape'
<1>1. /\ req' \in [Fetches -> Requests]
      /\ \A g \in Fetches : req'[g] = IF g = f THEN r ELSE req[g]
  BY OneRequest
<1>2. ASSUME NEW g \in Fetches
      PROVE  /\ req'[g].at = "idle" <=> req'[g].c = 0
             /\ req'[g].at = "idle" => upstream'[g] = "none"
  <2>1. CASE g = f
    BY <1>1, <2>1
  <2>2. CASE g # f
    BY <1>1, <2>2 DEF ShimShape
  <2> QED BY <2>1, <2>2
<1>3. ASSUME NEW m \in sealing' PROVE req'[m.f].at # "idle"
  <2>1. m.f \in Fetches /\ (m.f # f => req[m.f].at # "idle")
    BY DEF ShimShape, Sealings
  <2> QED BY <1>1, <2>1
<1> QED BY <1>1, <1>2, <1>3 DEF ShimShape

LEMMA TakesShape ==
    ASSUME ShimShape, NoncesCounted, NEW f \in Fetches, NEW c \in Channels, UseChannel(f, c),
           channel' \in 0..MaxChannels, wsOf' \in [Channels -> {"unused", "opening", "open", "closed"}],
           UNCHANGED <<onWire, opening, upstream>>
    PROVE  ShimShape' /\ NoncesCounted'
<1>1. PICK r \in Requests : /\ req' = [req EXCEPT ![f] = r] /\ r.at # "idle" /\ r.c # 0
                            /\ SealsNothing(sealing) \/ Seal(f, "open", c, sealing)
  <2>0. req[f] \in Requests /\ req \in [Fetches -> Requests] /\ c \in 0..MaxChannels /\ c # 0
    BY ShimAssumption DEF ShimShape, Channels
  <2>1. CASE req[f].aborted
    <3> PICK r : r = [req[f] EXCEPT !.at = "over", !.c = c, !.seen = "failed"]
      OBVIOUS
    <3>1. r \in Requests /\ r.at = "over" /\ r.c = c
      BY <2>0 DEF Requests
    <3>2. req' = [req EXCEPT ![f] = r] /\ SealsNothing(sealing)
      BY <2>0, <2>1 DEF UseChannel
    <3> QED BY <2>0, <3>1, <3>2
  <2>2. CASE ~req[f].aborted
    <3> PICK r : r = [req[f] EXCEPT !.at = "open", !.c = c, !.listens = TRUE]
      OBVIOUS
    <3>1. r \in Requests /\ r.at = "open" /\ r.c = c
      BY <2>0 DEF Requests
    <3>2. req' = [req EXCEPT ![f] = r] /\ Seal(f, "open", c, sealing)
      BY <2>0, <2>2 DEF UseChannel
    <3> QED BY <2>0, <3>1, <3>2
  <2> QED BY <2>1, <2>2
<1>2. /\ onWire' \in [Channels -> SUBSET Nat] /\ opening' \in [Channels -> Seq(HostFrames)]
      /\ upstream' \in [Fetches -> States] /\ \A g \in Fetches : upstream'[g] = upstream[g]
      /\ \A d \in Channels : \A n \in onWire'[d] : n \in onWire[d]
  BY DEF ShimShape
<1>3. NoncesCounted' /\ sealing' \subseteq Sealings /\ counter' \in [Channels -> Nat]
  BY <1>1, <1>2, SealStep
<1>4. \A m \in sealing' : m \in sealing \/ m.f = f
  BY <1>1 DEF Seal, SealsNothing
<1> QED BY <1>1, <1>2, <1>3, <1>4, ShapeMoves

LEMMA CallsShape ==
    ASSUME ShimShape, NoncesCounted, NEW f \in Fetches, Fetch(f) \/ ChannelOpens(f) \/ Abort(f)
    PROVE  ShimShape' /\ NoncesCounted'
<1>0. /\ req[f] \in Requests /\ req \in [Fetches -> Requests]
      /\ wsOf \in [Channels -> {"unused", "opening", "open", "closed"}]
      /\ channel \in 0..MaxChannels /\ (req[f].at # "idle" => req[f].c \in Channels)
      /\ (channel # 0 => channel \in Channels) /\ \A c \in Channels : c \in 0..MaxChannels /\ c # 0
  BY ShimAssumption DEF ShimShape, Requests, Channels
<1>1. CASE Fetch(f) /\ channel # 0
  <2>1. UseChannel(f, channel) /\ UNCHANGED <<channel, wsOf, onWire, opening, upstream>>
    BY <1>1 DEF Fetch
  <2> QED BY <1>0, <1>1, <2>1, TakesShape
<1>2. CASE ChannelOpens(f)
  <2>1. /\ UseChannel(f, req[f].c) /\ channel' = req[f].c /\ req[f].at = "channel"
        /\ wsOf' = [wsOf EXCEPT ![req[f].c] = "open"] /\ UNCHANGED <<onWire, opening, upstream>>
    BY <1>2 DEF ChannelOpens
  <2>2. /\ wsOf' \in [Channels -> {"unused", "opening", "open", "closed"}]
        /\ channel' \in 0..MaxChannels /\ req[f].c \in Channels
    BY <1>0, <2>1
  <2> QED BY <2>1, <2>2, TakesShape
<1>3. CASE Fetch(f) /\ channel = 0
  <2>1. PICK c \in Channels :
           /\ wsOf' = [wsOf EXCEPT ![c] = "opening"]
           /\ req' = [req EXCEPT ![f].at = "channel", ![f].c = c]
    BY <1>3 DEF Fetch
  <2>2. UNCHANGED <<channel, counter, sealing, onWire, opening, upstream>>
    BY <1>3 DEF Fetch
  <2> PICK r : r = [req[f] EXCEPT !.at = "channel", !.c = c]
    OBVIOUS
  <2>3. r \in Requests /\ r.at = "channel" /\ r.c = c /\ c # 0
    BY <1>0 DEF Requests
  <2>4. req' = [req EXCEPT ![f] = r]
    BY <1>0, <2>1
  <2>5. /\ wsOf' \in [Channels -> {"unused", "opening", "open", "closed"}] /\ channel' \in 0..MaxChannels
        /\ counter' \in [Channels -> Nat] /\ onWire' \in [Channels -> SUBSET Nat]
        /\ sealing' \subseteq Sealings /\ opening' \in [Channels -> Seq(HostFrames)]
        /\ upstream' \in [Fetches -> States]
        /\ sealing' = sealing /\ upstream' = upstream
    BY <1>0, <2>1, <2>2 DEF ShimShape
  <2>6. NoncesCounted'
    BY <2>2 DEF NoncesCounted, NonceOnce
  <2> QED BY <2>3, <2>4, <2>5, <2>6, ShapeMoves
<1>4. CASE Abort(f)
  <2>1. req[f].at # "idle"
    BY <1>4 DEF Abort
  <2> PICK r : r = [req[f] EXCEPT !.aborted = TRUE, !.listens = FALSE,
                        !.seen = IF @ = "head" THEN "failed" ELSE @]
    OBVIOUS
  <2>2. r \in Requests /\ r.at = req[f].at /\ r.c = req[f].c
    BY <1>0 DEF Requests
  <2>3. req' = [req EXCEPT ![f] = r]
    BY <1>0, <1>4 DEF Abort
  <2>4. /\ UNCHANGED <<channel, wsOf, onWire, opening, upstream>>
        /\ SealsNothing(sealing) \/ Seal(f, "cancel", req[f].c, sealing)
    BY <1>4 DEF Abort
  <2>5. /\ wsOf' \in [Channels -> {"unused", "opening", "open", "closed"}] /\ channel' \in 0..MaxChannels
        /\ onWire' \in [Channels -> SUBSET Nat] /\ opening' \in [Channels -> Seq(HostFrames)]
        /\ upstream' \in [Fetches -> States] /\ upstream' = upstream
        /\ \A d \in Channels : \A n \in onWire'[d] : n \in onWire[d]
    BY <1>0, <2>4 DEF ShimShape
  <2>6. req[f].c \in Channels
    BY <1>0, <2>1
  <2>7. NoncesCounted' /\ sealing' \subseteq Sealings /\ counter' \in [Channels -> Nat]
    BY <2>4, <2>5, <2>6, SealStep
  <2>8. \A m \in sealing' : m \in sealing \/ m.f = f
    BY <2>4 DEF Seal, SealsNothing
  <2> QED BY <1>0, <2>1, <2>2, <2>3, <2>5, <2>6, <2>7, <2>8, ShapeMoves
<1> QED BY <1>1, <1>2, <1>3, <1>4

LEMMA SealedShape ==
    ASSUME ShimShape, NoncesCounted, NEW m \in sealing, Sealed(m)
    PROVE  ShimShape' /\ NoncesCounted'
<1> PICK f \in Fetches : f = m.f
  BY DEF ShimShape, Sealings
<1>1. /\ m.c \in Channels /\ m.n \in Nat /\ m.kind \in {"open", "close", "cancel"}
      /\ req[f].at # "idle" /\ req[f].c # 0 /\ req[f] \in Requests /\ req \in [Fetches -> Requests]
  BY DEF ShimShape, Sealings
<1>2. /\ onWire' = IF wsOf[m.c] = "open" THEN [onWire EXCEPT ![m.c] = @ \cup {m.n}] ELSE onWire
      /\ UNCHANGED <<channel, wsOf, opening>>
  BY DEF Sealed
<1>3. onWire' \in [Channels -> SUBSET Nat]
  BY <1>1, <1>2 DEF ShimShape
<1>4. \A c \in Channels : \A n \in onWire'[c] :
         n \in onWire[c] \/ \E o \in sealing \ (sealing \ {m}) : o.c = c /\ o.n = n
  BY <1>1, <1>2 DEF ShimShape
<1>5. PICK r \in Requests :
        /\ req' = [req EXCEPT ![f] = r] /\ r.c = req[f].c /\ r.at # "idle"
        /\ \/ upstream' = upstream
           \/ \E st \in States : upstream' = [upstream EXCEPT ![f] = st]
        /\ SealsNothing(sealing \ {m}) \/ Seal(f, "close", m.c, sealing \ {m})
  <2>1. CASE m.kind = "cancel"
    <3>1. req' = [req EXCEPT ![f] = req[f]] /\ SealsNothing(sealing \ {m})
          /\ \/ upstream' = upstream
             \/ upstream' = [upstream EXCEPT ![f] = "ended"]
      BY <1>1, <2>1 DEF Sealed
    <3>2. "ended" \in States
      BY DEF States
    <3> QED BY <1>1, <3>1, <3>2
  <2>2. CASE m.kind # "cancel" /\ wsOf[m.c] = "open"
    <3>1. After[m.kind] \in {"close", "sent"} /\ (m.kind = "open" => After[m.kind] = "close")
      BY <1>1, <2>2 DEF After
    <3> PICK r : r = [req[f] EXCEPT !.at = After[m.kind]]
      OBVIOUS
    <3>2. r \in Requests /\ r.c = req[f].c /\ r.at = After[m.kind]
      BY <1>1, <3>1 DEF Requests
    <3>3. req' = [req EXCEPT ![f] = r]
      BY <1>1, <2>2 DEF Sealed
    <3>4. SealsNothing(sealing \ {m}) \/ Seal(f, "close", m.c, sealing \ {m})
      BY <1>1, <2>2, <3>1 DEF Sealed
    <3>5. upstream' = upstream \/ upstream' = [upstream EXCEPT ![f] = "asked"]
      BY <2>2 DEF Sealed
    <3>6. "asked" \in States
      BY DEF States
    <3> QED BY <3>1, <3>2, <3>3, <3>4, <3>5, <3>6
  <2>3. CASE m.kind # "cancel" /\ wsOf[m.c] # "open"
    <3> PICK r : r = [req[f] EXCEPT !.at = "over", !.listens = FALSE,
                          !.seen = IF @ \in {"nothing", "head"} THEN "failed" ELSE @]
      OBVIOUS
    <3>2. r \in Requests /\ r.c = req[f].c /\ r.at = "over"
      BY <1>1 DEF Requests
    <3>3. req' = [req EXCEPT ![f] = r]
      BY <1>1, <2>3 DEF Sealed
    <3>4. SealsNothing(sealing \ {m}) /\ upstream' = upstream
      BY <1>1, <2>3 DEF Sealed
    <3> QED BY <3>2, <3>3, <3>4
  <2> QED BY <2>1, <2>2, <2>3
<1>6. NoncesCounted' /\ sealing' \subseteq Sealings /\ counter' \in [Channels -> Nat]
  BY <1>1, <1>3, <1>4, <1>5, SealStep
<1>7. \A o \in sealing' : o \in sealing \/ o.f = f
  BY <1>5 DEF Seal, SealsNothing
<1>8. upstream' \in [Fetches -> States] /\ \A g \in Fetches : g # f => upstream'[g] = upstream[g]
  BY <1>5 DEF ShimShape
<1>9. /\ channel' \in 0..MaxChannels /\ opening' \in [Channels -> Seq(HostFrames)]
      /\ wsOf' \in [Channels -> {"unused", "opening", "open", "closed"}]
  BY <1>2 DEF ShimShape
<1> QED BY <1>1, <1>3, <1>5, <1>6, <1>7, <1>8, <1>9, ShapeMoves

LEMMA AnswersShape ==
    ASSUME ShimShape, NoncesCounted, NEW f \in Fetches, NEW type, NEW state,
           Answers(f, type, state), SaysNext(f, type, state)
    PROVE  ShimShape' /\ NoncesCounted'
<1>1. /\ upstream[f] # "none" /\ state \in States
      /\ type \in {"open", "data", "close", "abort", "error"}
  BY DEF SaysNext, States
<1>2. req[f] \in Requests /\ req[f].at # "idle" /\ req[f].c # 0
  BY <1>1 DEF ShimShape
<1> PICK c \in Channels : c = req[f].c
  BY <1>2, ShimAssumption DEF Requests, Channels
<1> PICK e \in HostFrames : e = [f |-> f, type |-> type]
  BY <1>1 DEF HostFrames
<1> PICK s \in Seq(HostFrames) : s = opening[c]
  BY DEF ShimShape
<1>3. /\ opening' = [opening EXCEPT ![c] = Append(s, e)] /\ upstream' = [upstream EXCEPT ![f] = state]
      /\ UNCHANGED <<channel, wsOf, counter, onWire, sealing, req>>
  BY DEF Answers
<1>4. NoncesCounted'
  BY <1>3 DEF NoncesCounted, NonceOnce
<1>5. /\ opening' \in [Channels -> Seq(HostFrames)] /\ upstream' \in [Fetches -> States]
      /\ \A g \in Fetches : g # f => upstream'[g] = upstream[g]
      /\ channel' \in 0..MaxChannels /\ counter' \in [Channels -> Nat]
      /\ wsOf' \in [Channels -> {"unused", "opening", "open", "closed"}]
      /\ onWire' \in [Channels -> SUBSET Nat] /\ sealing' \subseteq Sealings /\ sealing' = sealing
      /\ req' = [req EXCEPT ![f] = req[f]]
  BY <1>1, <1>3 DEF ShimShape
<1> QED BY <1>2, <1>4, <1>5, ShapeMoves

LEMMA OpenedShape ==
    ASSUME ShimShape, NoncesCounted, NEW c \in Channels, Opened(c)
    PROVE  ShimShape' /\ NoncesCounted'
<1> PICK s \in Seq(HostFrames) : s = opening[c]
  BY DEF ShimShape
<1> PICK n \in Nat \ {0} : n = Len(s)
  BY DEF Opened
<1>1. PICK i \in 1..n :
         /\ opening' = [opening EXCEPT ![c] = RemoveAt(s, i)]
         /\ req' = IF req[s[i].f].listens
                   THEN [req EXCEPT ![s[i].f] = Handler(@, s[i].type)] ELSE req
  <2>1. 1..(IF Serial THEN 1 ELSE n) \subseteq 1..n
    OBVIOUS
  <2> QED BY <2>1 DEF Opened, ShimShape
<1>2. UNCHANGED <<channel, wsOf, counter, onWire, sealing, upstream>>
  BY DEF Opened
<1> PICK e \in HostFrames : e = s[i]
  OBVIOUS
<1> PICK f \in Fetches : f = e.f
  BY DEF HostFrames
<1>3. RemoveAt(s, i) \in Seq(HostFrames)
  <2>1. \A j \in 1..(i - 1) : s[j] \in HostFrames
    OBVIOUS
  <2>2. \A j \in (i + 1)..n : s[j] \in HostFrames
    OBVIOUS
  <2>3. SubSeq(s, 1, i - 1) \in Seq(HostFrames)
    BY <2>1, SubSeqProperties
  <2>4. SubSeq(s, i + 1, n) \in Seq(HostFrames)
    BY <2>2, SubSeqProperties
  <2> QED BY <2>3, <2>4 DEF RemoveAt
<1>4. opening' \in [Channels -> Seq(HostFrames)]
  BY <1>1, <1>3 DEF ShimShape
<1>5. NoncesCounted'
  BY <1>2 DEF NoncesCounted, NonceOnce
<1>6. ShimShape'
  <2>1. CASE ~req[f].listens
    BY <1>1, <1>2, <1>4, <2>1 DEF ShimShape
  <2>2. ASSUME req[f].listens PROVE ShimShape'
    <3> PICK r : r = Handler(req[f], e.type)
      OBVIOUS
    <3>0. req[f] \in Requests /\ req' = [req EXCEPT ![f] = r]
      BY <1>1, <2>2 DEF ShimShape
    <3>1. r \in Requests /\ r.at = req[f].at /\ r.c = req[f].c
      <4>1. CASE e.type = "open"
        <5>1. r = [req[f] EXCEPT !.seen = IF @ = "nothing" THEN "head" ELSE @]
          BY <4>1 DEF Handler
        <5> QED BY <3>0, <5>1 DEF Requests
      <4>2. CASE e.type = "data"
        <5>1. r = [req[f] EXCEPT !.got = @ + 1]
          BY <4>2 DEF Handler
        <5> QED BY <3>0, <5>1, ChunkCounted
      <4>3. CASE e.type = "close"
        <5>1. r = [req[f] EXCEPT !.listens = FALSE, !.seen = "whole"]
          BY <4>3 DEF Handler
        <5> QED BY <3>0, <5>1 DEF Requests
      <4>4. CASE e.type \in {"abort", "error"}
        <5>1. r = [req[f] EXCEPT !.listens = FALSE, !.seen = "failed"]
          BY <4>4 DEF Handler
        <5> QED BY <3>0, <5>1 DEF Requests
      <4> QED BY <4>1, <4>2, <4>3, <4>4 DEF HostFrames
    <3>2. req' \in [Fetches -> Requests] /\ \A g \in Fetches : req'[g] = IF g = f THEN r ELSE req[g]
      BY <3>0, <3>1, OneRequest
    <3>3. \A g \in Fetches : req'[g].at = req[g].at /\ req'[g].c = req[g].c
      BY <3>1, <3>2
    <3>4. \A m \in sealing : m.f \in Fetches
      BY DEF ShimShape, Sealings
    <3> QED BY <1>2, <1>4, <3>2, <3>3, <3>4, ZenonT(30) DEF ShimShape
  <2> QED BY <2>1, <2>2
<1> QED BY <1>5, <1>6

LEMMA EndsShape ==
    ASSUME ShimShape, NoncesCounted, NEW c \in Channels, ChannelEnds(c)
    PROVE  ShimShape' /\ NoncesCounted'
<1>1. /\ wsOf[c] \in {"opening", "open"} /\ wsOf' = [wsOf EXCEPT ![c] = "closed"]
      /\ channel' = IF channel = c THEN 0 ELSE channel
      /\ opening' = [opening EXCEPT ![c] = <<>>] /\ onWire' = [onWire EXCEPT ![c] = {}]
      /\ UNCHANGED <<counter, sealing>>
  BY DEF ChannelEnds
<1>2. /\ wsOf' \in [Channels -> {"unused", "opening", "open", "closed"}]
      /\ opening' \in [Channels -> Seq(HostFrames)] /\ onWire' \in [Channels -> SUBSET Nat]
      /\ channel' \in 0..MaxChannels
      /\ \A d \in Channels : \A n \in onWire'[d] : n \in onWire[d]
  BY <1>1, ShimAssumption DEF ShimShape
<1>3. ASSUME NEW f \in Fetches
      PROVE  /\ upstream'[f] = IF req[f].c = c /\ upstream[f] # "none" THEN "ended" ELSE upstream[f]
             /\ upstream'[f] \in States /\ req'[f] \in Requests /\ req'[f].c = req[f].c
             /\ \/ req'[f].at = req[f].at
                \/ req[f].at = "channel" /\ req'[f].at = "over"
  <2>1. /\ upstream'[f] = IF req[f].c = c /\ upstream[f] # "none" THEN "ended" ELSE upstream[f]
        /\ upstream'[f] \in States
    BY DEF ChannelEnds, ShimShape, States
  <2>2. req[f] \in Requests
    BY DEF ShimShape
  <2>3. \/ req'[f] = req[f]
        \/ req'[f] = [req[f] EXCEPT !.listens = FALSE, !.seen = "failed"]
        \/ req[f].at = "channel" /\ req'[f] = [req[f] EXCEPT !.at = "over", !.seen = "failed"]
    <3>1. CASE wsOf[c] = "open"
      BY <3>1 DEF ChannelEnds, FailAll
    <3>2. CASE wsOf[c] = "opening"
      BY <3>2 DEF ChannelEnds
    <3> QED BY <1>1, <3>1, <3>2
  <2>4. CASE req'[f] = req[f]
    BY <2>1, <2>2, <2>4
  <2>5. CASE req'[f] = [req[f] EXCEPT !.listens = FALSE, !.seen = "failed"]
    <3>1. req'[f] \in Requests /\ req'[f].at = req[f].at /\ req'[f].c = req[f].c
      BY <2>2, <2>5 DEF Requests
    <3> QED BY <2>1, <3>1
  <2>6. CASE req[f].at = "channel" /\ req'[f] = [req[f] EXCEPT !.at = "over", !.seen = "failed"]
    <3>1. req'[f] \in Requests /\ req'[f].at = "over" /\ req'[f].c = req[f].c
      BY <2>2, <2>6 DEF Requests
    <3> QED BY <2>1, <2>6, <3>1
  <2> QED BY <2>3, <2>4, <2>5, <2>6
<1>4. req' \in [Fetches -> Requests] /\ upstream' \in [Fetches -> States]
  <2>1. ASSUME wsOf[c] = "open" PROVE req' \in [Fetches -> Requests]
    <3>1. req' = [f \in Fetches |-> req'[f]]
      BY <2>1 DEF ChannelEnds, FailAll
    <3> QED BY <1>3, <3>1
  <2>2. ASSUME wsOf[c] = "opening" PROVE req' \in [Fetches -> Requests]
    <3>1. req' = [f \in Fetches |-> req'[f]]
      BY <2>2 DEF ChannelEnds
    <3> QED BY <1>3, <3>1
  <2>3. upstream' \in [Fetches -> States]
    <3>1. upstream' = [f \in Fetches |-> upstream'[f]]
      BY DEF ChannelEnds
    <3> QED BY <1>3, <3>1
  <2>4. req' \in [Fetches -> Requests]
    BY <1>1, <2>1, <2>2
  <2> QED BY <2>3, <2>4
<1>5. NoncesCounted'
  <2>1. SealsNothing(sealing)
    BY <1>1 DEF SealsNothing
  <2> QED BY <1>2, <2>1, SealStep
<1>6. ASSUME NEW f \in Fetches
      PROVE  /\ req'[f].at = "idle" <=> req'[f].c = 0
             /\ req'[f].at = "idle" => upstream'[f] = "none"
  <2>1. (req[f].at = "idle" <=> req[f].c = 0) /\ (req[f].at = "idle" => upstream[f] = "none")
    BY DEF ShimShape
  <2> QED BY <1>3, <2>1
<1>7. \A m \in sealing' : req'[m.f].at # "idle"
  <2>1. \A m \in sealing : m.f \in Fetches /\ req[m.f].at # "idle"
    BY DEF ShimShape, Sealings
  <2> QED BY <1>1, <1>3, <2>1
<1> QED BY <1>1, <1>2, <1>4, <1>5, <1>6, <1>7 DEF ShimShape

LEMMA ShapeStep ==
    ASSUME ShimShape, NoncesCounted, [ShimNext]_shimVars
    PROVE  ShimShape' /\ NoncesCounted'
<1>1. CASE UNCHANGED shimVars
  BY <1>1 DEF shimVars, ShimShape, NoncesCounted, NonceOnce
<1>2. ASSUME NEW f \in Fetches, Fetch(f) \/ ChannelOpens(f) \/ Abort(f)
      PROVE  ShimShape' /\ NoncesCounted'
  BY <1>2, CallsShape
<1>3. ASSUME NEW m \in sealing, Sealed(m) PROVE ShimShape' /\ NoncesCounted'
  BY <1>3, SealedShape
<1>4. ASSUME NEW f \in Fetches, HostHead(f) \/ HostPart(f) \/ HostEnd(f) \/ HostFails(f)
      PROVE  ShimShape' /\ NoncesCounted'
  <2>1. \E type, state : Answers(f, type, state) /\ SaysNext(f, type, state)
    <3>1. CASE HostHead(f)
      <4>1. Answers(f, "open", "head") /\ SaysNext(f, "open", "head")
        BY <3>1 DEF HostHead, SaysNext
      <4> QED BY <4>1
    <3>2. CASE HostPart(f)
      <4>1. CASE upstream[f] = "head"
        <5>1. Answers(f, "data", "part1") /\ SaysNext(f, "data", "part1")
          BY <3>2, <4>1 DEF HostPart, SaysNext
        <5> QED BY <5>1
      <4>2. CASE upstream[f] = "part1"
        <5>1. Answers(f, "data", "part2") /\ SaysNext(f, "data", "part2")
          BY <3>2, <4>2 DEF HostPart, SaysNext
        <5> QED BY <5>1
      <4> QED BY <3>2, <4>1, <4>2 DEF HostPart
    <3>3. CASE HostEnd(f)
      <4>1. Answers(f, "close", "whole") /\ SaysNext(f, "close", "whole")
        BY <3>3 DEF HostEnd, SaysNext
      <4> QED BY <4>1
    <3>4. CASE HostFails(f)
      <4>1. PICK type \in {"abort", "error"} : Answers(f, type, "ended")
        BY <3>4 DEF HostFails
      <4>2. SaysNext(f, type, "ended")
        BY <3>4 DEF HostFails, SaysNext
      <4> QED BY <4>1, <4>2
    <3> QED BY <1>4, <3>1, <3>2, <3>3, <3>4
  <2> QED BY <2>1, AnswersShape
<1>5. ASSUME NEW c \in Channels, Opened(c) PROVE ShimShape' /\ NoncesCounted'
  BY <1>5, OpenedShape
<1>6. ASSUME NEW c \in Channels, ChannelEnds(c) PROVE ShimShape' /\ NoncesCounted'
  BY <1>6, EndsShape
<1> QED BY <1>1, <1>2, <1>3, <1>4, <1>5, <1>6 DEF ShimNext

\* In whatever order decryptions end, no nonce seals two frames of a channel
\* (Aead.encrypt counts before it waits).
THEOREM NoNonceTwice == ShimSpec => []NonceOnce
<1>1. ShimInit => ShimShape /\ NoncesCounted
  BY ShimStart DEF ShimInv
<1>2. ShimShape /\ NoncesCounted /\ [ShimNext]_shimVars => (ShimShape /\ NoncesCounted)'
  BY ShapeStep
<1>3. NoncesCounted => NonceOnce
  BY DEF NoncesCounted
<1> QED BY <1>1, <1>2, <1>3, PTL DEF ShimSpec

-----------------------------------------------------------------------------
(* PortalTables: what comes last is what the page should show.                *)

Asks == [at : {"sent", "read"}, filter : Filters \cup {Closed}, seen : Nat, live : Nat,
         late : BOOLEAN, old : BOOLEAN]
Actings == [how : {"dialog", "button"}, at : {"sent", "made"}, filter : Filters \cup {Closed}, made : Nat]
Shown == [at : {"none", "rows", "error"}, filter : Filters \cup {Closed}, seen : Nat, live : Nat,
          late : BOOLEAN, old : BOOLEAN]

TablesShape ==
    /\ shape \in Shapes /\ want \in Filters \cup {Closed} /\ timer \in BOOLEAN
    /\ asks \in Seq(Asks) /\ acting \in Seq(Actings) /\ table \in Shown
    /\ written \in Nat /\ own \in Nat /\ own <= written
    /\ \A j \in 1..Len(acting) : acting[j].made <= written
    /\ online \in Nat /\ past \in Nat /\ pushed \in Seq(Nat)

\* The rows of what a request brings, or a table shows, are as they should be.
Fits(r) ==
    /\ want # Closed /\ ~timer => r.filter = want \/ r.old
    /\ r.at \in {"read", "rows"} => r.seen >= own

\* The last request is still to come and brings what the page should show; or
\* all that is still to come is late, and the page shows it.
LastFits ==
    \/ asks # <<>> /\ ~asks[Len(asks)].late /\ Fits(asks[Len(asks)])
    \/ /\ \A i \in 1..Len(asks) : asks[i].late
       /\ table.at = "rows" /\ ~table.late => Fits(table)

\* While no event is on its way, what was read is what the hub has, or is older
\* than an event that the page has taken or will not get.
Marked(v) == v <= online /\ (pushed = <<>> => v = online \/ v < past)
EventsFollow ==
    /\ pushed # <<>> => socket = "open" /\ pushed[Len(pushed)] = online
    /\ \A k \in 1..Len(pushed) : pushed[k] <= online
    /\ shape.live => Marked(table.live)
    /\ shape.live => \A i \in 1..Len(asks) : asks[i].at = "read" => Marked(asks[i].live)

TablesInv == TablesShape /\ LastFits /\ EventsFollow

LEMMA ShapeFacts ==
    ASSUME NEW s \in Shapes
    PROVE  /\ s.delay \in BOOLEAN /\ s.live \in BOOLEAN /\ s.goes \in BOOLEAN
           /\ ~s.eager => s.delay \/ s.goes
           /\ s.live => ~s.clears
BY ZenonT(30) DEF Shapes, Plain, AdminUsers, AdminHosts, AdminBilling, AdminNodes, AdminAudit, AdminJoinTokens,
       AdminAdmins, AdminLlmModels, AdminLlmKeys, AdminVoiceProviderConfigs, AdminLlmRouters,
       AdminUserDetail, AdminNodeDetail, HostsPage, SharePanel, LlmKeysPage, AddHostPage, UsagePage

LEMMA RequestFacts ==
    ASSUME NEW f \in Filters \cup {Closed}, NEW now
    PROVE  /\ Request(f, now) \in Asks /\ Request(f, now).at = "sent" /\ Request(f, now).filter = f
           /\ ~Request(f, now).late /\ (Request(f, now).old <=> f # now)
BY DEF Request, Asks

LEMMA AskedLast ==
    ASSUME TablesShape, NEW f \in Filters \cup {Closed}, NEW now, Send(f, now)
    PROVE  /\ asks' \in Seq(Asks) /\ asks' # <<>>
           /\ asks'[Len(asks')] = Request(f, now)
           /\ \A i \in 1..Len(asks') : (i \in 1..Len(asks) /\ asks'[i] = asks[i])
                                       \/ asks'[i] = Request(f, now)
<1>1. asks \in Seq(Asks) /\ Request(f, now) \in Asks
  BY RequestFacts DEF TablesShape
<1>2. asks' = Append(asks, Request(f, now))
  BY DEF Send
<1> QED BY <1>1, <1>2

LEMMA AskRemoved ==
    ASSUME TablesShape, NEW i \in 1..Len(asks), asks' = Without(i)
    PROVE  /\ asks' \in Seq(Asks) /\ Len(asks') = Len(asks) - 1
           /\ \A j \in 1..Len(asks') :
                \/ j < i /\ asks'[j] = [asks[j] EXCEPT !.late = TRUE]
                \/ j >= i /\ j + 1 \in 1..Len(asks) /\ asks'[j] = asks[j + 1]
<1>1. asks \in Seq(Asks) /\ Len(asks) \in Nat \ {0}
  BY DEF TablesShape
<1> PICK n \in Nat : n = Len(asks) - 1
  BY <1>1, SMTT(30)
<1> PICK q : q = [j \in 1..n |-> IF j < i THEN [asks[j] EXCEPT !.late = TRUE] ELSE asks[j + 1]]
  OBVIOUS
<1>2. asks' = q
  BY DEF Without
<1>3. \A j \in 1..n : /\ q[j] = IF j < i THEN [asks[j] EXCEPT !.late = TRUE] ELSE asks[j + 1]
                      /\ j \in 1..Len(asks) /\ j + 1 \in 1..Len(asks)
  BY <1>1
<1>4. \A j \in 1..n : q[j] \in Asks
  <2> SUFFICES ASSUME NEW j \in 1..n PROVE q[j] \in Asks
    OBVIOUS
  <2>1. asks[j] \in Asks /\ asks[j + 1] \in Asks
    BY <1>1, <1>3
  <2>2. [asks[j] EXCEPT !.late = TRUE] \in Asks
    BY <2>1 DEF Asks
  <2> QED BY <1>3, <2>1, <2>2
<1>5. q \in Seq(Asks) /\ Len(q) = n
  BY <1>4
<1> QED BY <1>1, <1>2, <1>3, <1>5

LEMMA TablesStart == TablesInit => TablesInv
<1> SUFFICES ASSUME TablesInit PROVE TablesInv
  OBVIOUS
<1>1. shape \in Shapes /\ shape.delay \in BOOLEAN
  BY ShapeFacts DEF TablesInit
<1>2. want \in Filters \cup {Closed}
  BY TablesAssumption DEF TablesInit
<1>3. table \in Shown /\ table.at = "none" /\ table.live = 0
  BY DEF TablesInit, NoRows, Shown
<1>4. \/ asks = <<>>
      \/ asks = <<Request(want, want)>>
  BY DEF TablesInit
<1>5. Request(want, want) \in Asks /\ Request(want, want).at = "sent" /\ ~Request(want, want).late
      /\ Request(want, want).filter = want
  BY <1>2, RequestFacts
<1> PICK r : r = Request(want, want)
  OBVIOUS
<1>20. r \in Asks /\ r.at = "sent" /\ (asks = <<>> \/ asks = <<r>>)
  BY <1>4, <1>5
<1>21. ASSUME asks = <<r>> PROVE asks \in Seq(Asks) /\ \A i \in 1..Len(asks) : asks[i].at = "sent"
  <2>1. asks \in Seq(Asks) /\ Len(asks) = 1 /\ asks[1] = r
    BY <1>20, <1>21
  <2> QED BY <2>1, <1>20
<1>22. ASSUME asks = <<>> PROVE asks \in Seq(Asks) /\ \A i \in 1..Len(asks) : asks[i].at = "sent"
  BY <1>22
<1>6. asks \in Seq(Asks) /\ \A i \in 1..Len(asks) : asks[i].at = "sent"
  BY <1>20, <1>21, <1>22
<1>7. LastFits
  BY <1>3, <1>4, <1>5 DEF LastFits, Fits
<1>8. acting = <<>> /\ pushed = <<>> /\ online = 0 /\ past = 0 /\ written = 0 /\ own = 0
  BY DEF TablesInit
<1>9. EventsFollow
  BY <1>3, <1>6, <1>8 DEF EventsFollow, Marked
<1>10. timer \in BOOLEAN
  BY <1>1 DEF TablesInit
<1>11. TablesShape
  BY <1>1, <1>2, <1>3, <1>6, <1>8, <1>10 DEF TablesShape
<1> QED BY <1>7, <1>9, <1>11 DEF TablesInv

ActingsFit == acting \in Seq(Actings) /\ \A j \in 1..Len(acting) : acting[j].made <= written

\* A request for what the page shows now, or for what it showed before, is
\* the last, and no change of the page's own can be missing in its answer.
LEMMA SendKeeps ==
    ASSUME TablesInv, NEW f \in Filters \cup {Closed}, Send(f, want'), want' \in Filters \cup {Closed},
           timer' \in BOOLEAN, own' \in Nat, own' <= written, ActingsFit',
           UNCHANGED <<shape, table, hubRows>>
    PROVE  TablesInv'
<1>1. /\ TablesShape /\ EventsFollow /\ written' = written /\ online' = online /\ pushed' = pushed
      /\ past' = past /\ socket' = socket /\ table' = table /\ shape' = shape
  BY DEF TablesInv, hubRows
<1> PICK r : r = Request(f, want')
  OBVIOUS
<1>2. r \in Asks /\ r.at = "sent" /\ r.filter = f /\ ~r.late /\ (r.old <=> f # want')
  BY RequestFacts
<1>3. /\ asks' \in Seq(Asks) /\ asks' # <<>> /\ asks'[Len(asks')] = r
      /\ \A i \in 1..Len(asks') : (i \in 1..Len(asks) /\ asks'[i] = asks[i]) \/ asks'[i] = r
  BY <1>1, AskedLast
<1>4. TablesShape'
  BY <1>1, <1>3 DEF TablesShape, ActingsFit
<1>5. LastFits'
  BY <1>2, <1>3 DEF LastFits, Fits
<1>6. shape.live => \A i \in 1..Len(asks') : asks'[i].at = "read" => Marked(asks'[i].live)
  BY <1>1, <1>2, <1>3 DEF EventsFollow
<1>7. EventsFollow'
  BY <1>1, <1>6 DEF EventsFollow, Marked
<1> QED BY <1>4, <1>5, <1>7 DEF TablesInv

\* What changes no rows and asks for none.
LEMMA OthersKeep ==
    ASSUME TablesInv, want' \in Filters \cup {Closed}, timer' \in BOOLEAN, ActingsFit',
           written' \in Nat, written <= written',
           want' # Closed /\ ~timer' => want' = want /\ ~timer,
           UNCHANGED <<shape, asks, table, own, online, socket, pushed, past>>
    PROVE  TablesInv'
<1>1. TablesShape'
  BY DEF TablesInv, TablesShape, ActingsFit
<1>2. \A r : Fits(r) => Fits(r)'
  BY DEF Fits
<1>3. LastFits'
  BY <1>2 DEF TablesInv, LastFits
<1>4. EventsFollow'
  BY DEF TablesInv, EventsFollow, Marked
<1> QED BY <1>1, <1>3, <1>4 DEF TablesInv

LEMMA ActingFacts ==
    ASSUME TablesShape
    PROVE  /\ ActingsFit
           /\ \A j \in 1..Len(acting) : acting[j] \in Actings
           /\ UNCHANGED <<acting, written>> => ActingsFit'
           /\ acting' = acting /\ written' \in Nat /\ written <= written' => ActingsFit'
<1>1. acting \in Seq(Actings) /\ \A j \in 1..Len(acting) : acting[j] \in Actings
  BY DEF TablesShape
<1>2. \A j \in 1..Len(acting) : acting[j].made \in Nat /\ acting[j].made <= written
  BY <1>1 DEF TablesShape, Actings
<1>3. written \in Nat
  BY DEF TablesShape
<1>4. acting' = acting /\ written' \in Nat /\ written <= written' => ActingsFit'
  BY <1>1, <1>2, <1>3 DEF ActingsFit
<1> QED BY <1>1, <1>2, <1>3, <1>4 DEF ActingsFit

LEMMA ActingAppended ==
    ASSUME TablesShape, NEW how \in {"dialog", "button"}, acting' = Act(how), UNCHANGED written
    PROVE  ActingsFit'
<1> PICK r : r = [how |-> how, at |-> "sent", filter |-> want, made |-> 0]
  OBVIOUS
<1>1. r \in Actings /\ r.made = 0
  BY DEF TablesShape, Actings
<1>2. acting' = Append(acting, r) /\ acting \in Seq(Actings)
  BY DEF Act, TablesShape
<1>3. acting' \in Seq(Actings) /\ \A j \in 1..Len(acting') : (j \in 1..Len(acting) /\ acting'[j] = acting[j]) \/ acting'[j] = r
  BY <1>1, <1>2
<1>4. written' \in Nat /\ \A j \in 1..Len(acting) : acting[j].made <= written'
  BY DEF TablesShape
<1> QED BY <1>1, <1>3, <1>4 DEF ActingsFit

LEMMA ActingRemoved ==
    ASSUME TablesShape, NEW i \in 1..Len(acting), acting' = Others(i), UNCHANGED written
    PROVE  ActingsFit'
<1>1. acting \in Seq(Actings) /\ Len(acting) \in Nat \ {0}
  BY DEF TablesShape
<1> PICK n \in Nat : n = Len(acting) - 1
  BY <1>1
<1> PICK q : q = [j \in 1..n |-> IF j < i THEN acting[j] ELSE acting[j + 1]]
  OBVIOUS
<1>2. acting' = q
  BY DEF Others
<1>3. \A j \in 1..n : /\ q[j] = IF j < i THEN acting[j] ELSE acting[j + 1]
                      /\ j \in 1..Len(acting) /\ j + 1 \in 1..Len(acting)
  BY <1>1
<1>4. \A j \in 1..n : q[j] \in Actings /\ q[j].made <= written
  BY <1>1, <1>3 DEF TablesShape
<1>5. q \in Seq(Actings) /\ Len(q) = n
  BY <1>4
<1> QED BY <1>2, <1>4, <1>5 DEF ActingsFit

LEMMA ReadKeeps ==
    ASSUME TablesInv, NEW i \in 1..Len(asks), ReadRows(i)
    PROVE  TablesInv'
<1>1. /\ TablesShape /\ LastFits /\ EventsFollow /\ written' = written /\ online' = online /\ pushed' = pushed
      /\ past' = past /\ socket' = socket /\ table' = table /\ shape' = shape /\ want' = want /\ timer' = timer /\ own' = own
      /\ acting' = acting
  BY DEF TablesInv, hubRows, ReadRows
<1>2. asks \in Seq(Asks) /\ asks[i] \in Asks /\ written \in Nat /\ online \in Nat /\ own <= written
  BY <1>1 DEF TablesShape
<1> PICK r : r = [asks[i] EXCEPT !.at = "read", !.seen = written, !.live = online]
  OBVIOUS
<1>3. /\ r \in Asks /\ r.at = "read" /\ r.seen = written /\ r.live = online
      /\ r.filter = asks[i].filter /\ r.late = asks[i].late /\ r.old = asks[i].old
  BY <1>2 DEF Asks
<1>4. asks' = [asks EXCEPT ![i] = r]
  BY DEF ReadRows
<1>5. /\ asks' \in Seq(Asks) /\ Len(asks') = Len(asks)
      /\ \A j \in 1..Len(asks) : asks'[j] = IF j = i THEN r ELSE asks[j]
  BY <1>2, <1>3, <1>4
<1>6. asks' # <<>> /\ asks # <<>> /\ Len(asks) \in 1..Len(asks)
  BY <1>2, <1>5
<1>7. TablesShape'
  BY <1>1, <1>5 DEF TablesShape
<1>8. Fits(r) \/ ~Fits(asks[i])
  BY <1>2, <1>3 DEF Fits
<1>9. \A x : Fits(x) => Fits(x)'
  BY <1>1 DEF Fits
<1>10. LastFits'
  <2>1. CASE ~asks[Len(asks)].late /\ Fits(asks[Len(asks)])
    <3>1. ~asks'[Len(asks')].late /\ Fits(asks'[Len(asks')])
      BY <2>1, <1>3, <1>5, <1>6, <1>8
    <3>2. \A x : x = asks'[Len(asks')] => Fits(x)'
      BY <3>1, <1>9
    <3> QED BY <3>1, <3>2, <1>6 DEF LastFits, Fits
  <2>2. CASE (\A k \in 1..Len(asks) : asks[k].late) /\ (table.at = "rows" /\ ~table.late => Fits(table))
    <3>1. \A k \in 1..Len(asks') : asks'[k].late
      BY <2>2, <1>3, <1>5
    <3>2. table'.at = "rows" /\ ~table'.late => Fits(table)'
      BY <2>2, <1>1, <1>9
    <3> QED BY <3>1, <3>2 DEF LastFits
  <2> QED BY <2>1, <2>2, <1>1 DEF LastFits
<1>11. \A v : Marked(v) => Marked(v)'
  BY <1>1 DEF Marked
<1>12. Marked(online)
  BY <1>2 DEF Marked
<1>13. shape.live => \A j \in 1..Len(asks') : asks'[j].at = "read" => Marked(asks'[j].live)
  BY <1>1, <1>3, <1>5, <1>12, ZenonT(30) DEF EventsFollow
<1>14. EventsFollow'
  BY <1>1, <1>13 DEF EventsFollow, Marked
<1> QED BY <1>7, <1>10, <1>14 DEF TablesInv

\* A request comes back, whatever order they were sent in.
LEMMA RemovedKeeps ==
    ASSUME TablesInv, NEW i \in 1..Len(asks), asks' = Without(i), table' \in Shown,
           table'.at = "rows" => /\ asks[i].at = "read" /\ table'.filter = asks[i].filter
                                 /\ table'.seen = asks[i].seen /\ table'.late = asks[i].late
                                 /\ table'.old = asks[i].old,
           shape.live => Marked(table'.live),
           UNCHANGED <<shape, want, timer, dialog, acting, own, turns, hubRows>>
    PROVE  TablesInv'
<1>1. /\ TablesShape /\ LastFits /\ EventsFollow /\ written' = written /\ online' = online /\ pushed' = pushed
      /\ past' = past /\ socket' = socket /\ shape' = shape /\ want' = want /\ timer' = timer /\ own' = own
      /\ acting' = acting
  BY DEF TablesInv, hubRows
<1> PICK n : n = Len(asks)
  OBVIOUS
<1>2. n \in Nat /\ i \in 1..n /\ \A j \in 1..n : asks[j] \in Asks
  BY <1>1 DEF TablesShape
<1>3. /\ asks' \in Seq(Asks) /\ Len(asks') = n - 1
      /\ \A j \in 1..Len(asks') :
           \/ j < i /\ asks'[j] = [asks[j] EXCEPT !.late = TRUE]
           \/ j >= i /\ j + 1 \in 1..n /\ asks'[j] = asks[j + 1]
  BY <1>1, AskRemoved
<1>4. TablesShape'
  BY <1>1, <1>3 DEF TablesShape
<1>5. \A x : Fits(x) => Fits(x)'
  BY <1>1 DEF Fits
<1>6. \A j \in 1..n : j < i => [asks[j] EXCEPT !.late = TRUE].late /\ [asks[j] EXCEPT !.late = TRUE].at = asks[j].at
                             /\ [asks[j] EXCEPT !.late = TRUE].live = asks[j].live
  BY <1>2 DEF Asks
<1>7. LastFits'
  <2>1. CASE ~asks[n].late /\ Fits(asks[n]) /\ i < n
    <3>1. asks' # <<>> /\ Len(asks') \in 1..Len(asks') /\ Len(asks') >= i /\ Len(asks') + 1 = n
      BY <2>1, <1>2, <1>3
    <3> PICK m : m = Len(asks')
      OBVIOUS
    <3>4. m \in 1..m /\ m >= i /\ m + 1 = n /\ i \in Nat /\ m \in Nat
      BY <3>1, <1>2, <1>3
    <3>5. ~(m < i)
      BY <3>4
    <3>6. asks'[m] = asks[m + 1]
      BY <1>3, <3>4, <3>5
    <3>2. asks'[Len(asks')] = asks[n]
      BY <3>4, <3>6
    <3>3. \A x : x = asks'[Len(asks')] => Fits(x)'
      BY <3>2, <2>1, <1>5
    <3> QED BY <2>1, <3>1, <3>2, <3>3 DEF LastFits, Fits
  <2>2. CASE ~asks[n].late /\ Fits(asks[n]) /\ i = n
    <3>1. \A j \in 1..Len(asks') : asks'[j].late
      <4> SUFFICES ASSUME NEW j \in 1..Len(asks') PROVE asks'[j].late
        OBVIOUS
      <4>1. j < i /\ j \in 1..n
        BY <2>2, <1>2, <1>3
      <4>2. asks'[j] = [asks[j] EXCEPT !.late = TRUE]
        BY <4>1, <1>2, <1>3
      <4> QED BY <4>1, <4>2, <1>6
    <3>2. table'.at = "rows" => Fits(table')
      BY <2>2, <1>2 DEF Fits
    <3>3. \A x : x = table' /\ table'.at = "rows" => Fits(x)'
      BY <3>2, <1>5
    <3> QED BY <3>1, <3>3 DEF LastFits, Fits
  <2>3. CASE \A k \in 1..n : asks[k].late
    <3>1. \A j \in 1..Len(asks') : asks'[j].late
      <4> SUFFICES ASSUME NEW j \in 1..Len(asks') PROVE asks'[j].late
        OBVIOUS
      <4>1. CASE j < i /\ asks'[j] = [asks[j] EXCEPT !.late = TRUE]
        <5>1. j \in 1..n
          BY <4>1, <1>2, <1>3
        <5> QED BY <4>1, <5>1, <1>6
      <4>2. CASE j + 1 \in 1..n /\ asks'[j] = asks[j + 1]
        BY <4>2, <2>3
      <4> QED BY <4>1, <4>2, <1>3
    <3>2. ~(table'.at = "rows" /\ ~table'.late)
      BY <2>3, <1>2
    <3> QED BY <3>1, <3>2 DEF LastFits
  <2>4. i < n \/ i = n
    BY <1>2
  <2> QED BY <2>1, <2>2, <2>3, <2>4, <1>1 DEF LastFits
<1>8. \A v : Marked(v) => Marked(v)'
  BY <1>1 DEF Marked
<1>9. shape.live => \A j \in 1..Len(asks') : asks'[j].at = "read" => Marked(asks'[j].live)
  <2> SUFFICES ASSUME shape.live, NEW j \in 1..Len(asks'), asks'[j].at = "read"
               PROVE  Marked(asks'[j].live)
    OBVIOUS
  <2>1. CASE j < i /\ asks'[j] = [asks[j] EXCEPT !.late = TRUE]
    <3>1. j \in 1..n
      BY <2>1, <1>2, <1>3
    <3>2. asks'[j].at = asks[j].at /\ asks'[j].live = asks[j].live
      BY <2>1, <3>1, <1>6
    <3> QED BY <3>1, <3>2, <1>1 DEF EventsFollow
  <2>2. CASE j + 1 \in 1..n /\ asks'[j] = asks[j + 1]
    BY <2>2, <1>1 DEF EventsFollow
  <2> QED BY <2>1, <2>2, <1>3
<1>10. EventsFollow'
  BY <1>1, <1>9 DEF EventsFollow, Marked
<1> QED BY <1>4, <1>7, <1>10 DEF TablesInv

LEMMA ShowKeeps ==
    ASSUME TablesInv, NEW i \in 1..Len(asks), Show(i)
    PROVE  TablesInv'
<1>1. asks[i] \in Asks /\ table \in Shown /\ asks[i].at = "read" /\ EventsFollow
  BY DEF TablesInv, TablesShape, Show
<1>2. CASE table.at = "error" /\ shape.sticks
  <2>1. table' = table
    BY <1>2 DEF Show
  <2>2. shape.live => Marked(table'.live)
    BY <2>1, <1>1 DEF EventsFollow
  <2> QED BY <1>1, <1>2, <2>1, <2>2, RemovedKeeps DEF Show
<1>3. CASE ~(table.at = "error" /\ shape.sticks)
  <2>1. table' = [at |-> "rows", filter |-> asks[i].filter, seen |-> asks[i].seen, live |-> asks[i].live,
                  late |-> asks[i].late, old |-> asks[i].old]
    BY <1>3 DEF Show
  <2>2. table' \in Shown /\ table'.live = asks[i].live
    BY <2>1, <1>1 DEF Shown, Asks
  <2>3. shape.live => Marked(table'.live)
    BY <2>2, <1>1 DEF EventsFollow
  <2>4. /\ table'.filter = asks[i].filter /\ table'.seen = asks[i].seen /\ table'.late = asks[i].late
        /\ table'.old = asks[i].old
    BY <2>1
  <2> QED BY <1>1, <2>2, <2>3, <2>4, RemovedKeeps DEF Show
<1> QED BY <1>2, <1>3

LEMMA RequestFailsKeeps ==
    ASSUME TablesInv, NEW i \in 1..Len(asks), RequestFails(i)
    PROVE  TablesInv'
<1>1. table \in Shown /\ EventsFollow /\ shape \in Shapes
  BY DEF TablesInv, TablesShape
<1>2. table' = IF shape.clears THEN [NoRows EXCEPT !.at = "error"] ELSE [table EXCEPT !.at = "error"]
  BY DEF RequestFails
<1>3. table' \in Shown /\ table'.at = "error" /\ (~shape.clears => table'.live = table.live)
  BY <1>1, <1>2 DEF Shown, NoRows
<1>4. shape.live => Marked(table'.live)
  BY <1>1, <1>3, ShapeFacts DEF EventsFollow
<1> QED BY <1>3, <1>4, RemovedKeeps DEF RequestFails

LEMMA EventsKeep ==
    ASSUME TablesInv, HostTurns \/ SocketOpens \/ SocketDies \/ TakeEvent
    PROVE  TablesInv'
<1>1. /\ TablesShape /\ LastFits /\ EventsFollow /\ shape' = shape /\ want' = want /\ timer' = timer
      /\ asks' = asks /\ acting' = acting /\ written' = written /\ own' = own
  BY DEF TablesInv, HostTurns, SocketOpens, SocketDies, TakeEvent
<1>2. /\ online \in Nat /\ past \in Nat /\ pushed \in Seq(Nat) /\ table \in Shown
      /\ \A j \in 1..Len(asks) : asks[j] \in Asks
  BY <1>1 DEF TablesShape
<1>3. pushed # <<>> => Head(pushed) \in Nat /\ Head(pushed) = pushed[1] /\ 1 \in 1..Len(pushed)
  BY <1>2
<1>4. /\ table' \in Shown /\ table'.at = table.at /\ table'.filter = table.filter /\ table'.seen = table.seen
      /\ table'.late = table.late /\ table'.old = table.old
  <2>1. CASE TakeEvent
    <3>1. table' = [table EXCEPT !.live = Head(pushed)] /\ Head(pushed) \in Nat
      BY <2>1, <1>3 DEF TakeEvent
    <3> QED BY <3>1, <1>2 DEF Shown
  <2>2. CASE ~TakeEvent
    BY <2>2, <1>2 DEF HostTurns, SocketOpens, SocketDies
  <2> QED BY <2>1, <2>2
<1>5. online' \in Nat /\ past' \in Nat /\ pushed' \in Seq(Nat)
  <2>1. CASE HostTurns
    <3>1. Append(pushed, online + 1) \in Seq(Nat)
      BY <1>2
    <3>2. CASE socket = "open"
      BY <2>1, <3>1, <3>2, <1>2 DEF HostTurns
    <3>3. CASE socket # "open"
      BY <2>1, <3>3, <1>2 DEF HostTurns
    <3> QED BY <3>2, <3>3
  <2>2. CASE SocketOpens
    BY <2>2, <1>2 DEF SocketOpens
  <2>3. CASE SocketDies
    BY <2>3, <1>2 DEF SocketDies
  <2>4. CASE TakeEvent
    BY <2>4, <1>2, <1>3 DEF TakeEvent
  <2> QED BY <2>1, <2>2, <2>3, <2>4
<1>6. TablesShape'
  BY <1>1, <1>4, <1>5 DEF TablesShape
<1>7. \A x : Fits(x) => Fits(x)'
  BY <1>1 DEF Fits
<1>8. Fits(table) => Fits(table)'
  BY <1>1, <1>4 DEF Fits
<1>9. LastFits'
  BY <1>1, <1>4, <1>7, <1>8 DEF LastFits
<1>10. EventsFollow /\ TablesShape
  BY <1>1
<1> PICK tl \in Nat : tl = table'.live
  BY <1>4 DEF Shown
<1>20. ASSUME table' = table, \A v \in Nat : Marked(v) => Marked(v)' PROVE shape.live => Marked(tl)'
  <2>1. shape.live => Marked(tl)
    BY <1>20, <1>10 DEF EventsFollow
  <2> QED BY <2>1, <1>20
<1>21. \A j \in 1..Len(asks) : asks[j].live \in Nat
  <2>1. \A j \in 1..Len(asks) : asks[j] \in Asks
    BY <1>10 DEF TablesShape
  <2> QED BY <2>1 DEF Asks
<1>22. ASSUME pushed' # <<>> => socket' = "open" /\ pushed'[Len(pushed')] = online',
              \A k \in 1..Len(pushed') : pushed'[k] <= online',
              \A v \in Nat : Marked(v) => Marked(v)', shape.live => Marked(tl)'
       PROVE  EventsFollow'
  <2>1. ASSUME shape.live, NEW j \in 1..Len(asks), asks[j].at = "read"
        PROVE  asks'[j].live <= online' /\ (pushed' = <<>> => asks'[j].live = online' \/ asks'[j].live < past')
    <3> PICK v \in Nat : v = asks[j].live
      BY <1>21
    <3>1. Marked(v)
      BY <2>1, <1>10 DEF EventsFollow
    <3>2. Marked(v)'
      BY <3>1, <1>22
    <3> QED BY <3>2, <1>1 DEF Marked
  <2>2. shape.live => table'.live <= online' /\ (pushed' = <<>> => table'.live = online' \/ table'.live < past')
    BY <1>22 DEF Marked
  <2> QED BY <2>1, <2>2, <1>1, <1>22 DEF EventsFollow, Marked
<1>11. ASSUME HostTurns PROVE EventsFollow'
  <2>1. online' = online + 1 /\ socket' = socket /\ table' = table
    BY <1>11 DEF HostTurns
  <2>2. CASE socket = "open"
    <3>1. pushed' = Append(pushed, online + 1)
      BY <1>11, <2>2 DEF HostTurns
    <3>2. /\ pushed' # <<>> /\ pushed'[Len(pushed')] = online'
          /\ \A k \in 1..Len(pushed') : (k \in 1..Len(pushed) /\ pushed'[k] = pushed[k]) \/ pushed'[k] = online + 1
      BY <3>1, <2>1, <1>2
    <3>3. \A k \in 1..Len(pushed') : pushed'[k] <= online'
      <4>1. \A k \in 1..Len(pushed) : pushed[k] \in Nat /\ pushed[k] <= online
        BY <1>2, <1>10 DEF EventsFollow
      <4> QED BY <3>2, <2>1, <4>1, <1>2, SMTT(30)
    <3>4. \A v \in Nat : Marked(v) => Marked(v)'
      BY <3>2, <2>1, <1>2 DEF Marked
    <3>5. shape.live => Marked(tl)'
      BY <3>4, <2>1, <1>20
    <3> QED BY <3>2, <3>3, <3>4, <3>5, <2>1, <2>2, <1>22
  <2>3. CASE socket # "open"
    <3>1. pushed' = pushed /\ pushed = <<>> /\ past' = online + 1
      BY <1>11, <2>3, <1>10 DEF HostTurns, EventsFollow
    <3>3. \A k \in 1..Len(pushed') : pushed'[k] <= online'
      BY <3>1
    <3>4. \A v \in Nat : Marked(v) => Marked(v)'
      BY <3>1, <2>1, <1>2 DEF Marked
    <3>5. shape.live => Marked(tl)'
      BY <3>4, <2>1, <1>20
    <3> QED BY <3>1, <3>3, <3>4, <3>5, <1>22
  <2> QED BY <2>2, <2>3
<1>12. ASSUME SocketOpens PROVE EventsFollow'
  <2>1. pushed = <<>> /\ pushed' = pushed /\ online' = online /\ past' = past /\ table' = table
    BY <1>12, <1>10 DEF SocketOpens, EventsFollow
  <2>2. \A v \in Nat : Marked(v) => Marked(v)'
    BY <2>1 DEF Marked
  <2>3. \A k \in 1..Len(pushed') : pushed'[k] <= online'
    BY <2>1
  <2>4. shape.live => Marked(tl)'
    BY <2>1, <2>2, <1>20
  <2> QED BY <2>1, <2>2, <2>3, <2>4, <1>22
<1>13. ASSUME SocketDies PROVE EventsFollow'
  <2>1. pushed' = <<>> /\ online' = online /\ table' = table /\ past' = IF pushed # <<>> THEN online ELSE past
    BY <1>13 DEF SocketDies
  <2>2. \A v \in Nat : Marked(v) => Marked(v)'
    BY <2>1, <1>2 DEF Marked
  <2>3. \A k \in 1..Len(pushed') : pushed'[k] <= online'
    BY <2>1
  <2>4. shape.live => Marked(tl)'
    BY <2>1, <2>2, <1>20
  <2> QED BY <2>1, <2>2, <2>3, <2>4, <1>22
<1>14. ASSUME TakeEvent PROVE EventsFollow'
  <2>1. /\ pushed # <<>> /\ pushed' = Tail(pushed) /\ past' = pushed[1] /\ online' = online /\ socket' = socket
        /\ table' = [table EXCEPT !.live = pushed[1]]
    BY <1>14, <1>3 DEF TakeEvent
  <2> PICK n : n = Len(pushed)
    OBVIOUS
  <2>2. /\ n \in Nat \ {0} /\ Len(pushed') = n - 1 /\ (pushed' = <<>> <=> n = 1)
        /\ \A k \in 1..(n - 1) : k + 1 \in 1..n /\ pushed'[k] = pushed[k + 1]
    <3>1. n \in Nat \ {0} /\ Len(pushed') = n - 1 /\ pushed' \in Seq(Nat)
      BY <2>1, <1>2, <1>5
    <3>4. pushed' = <<>> => Len(pushed') = 0
      OBVIOUS
    <3>5. Len(pushed') = 0 => pushed' = <<>>
      BY <3>1
    <3>2. pushed' = <<>> <=> n = 1
      BY <3>1, <3>4, <3>5
    <3>3. \A k \in 1..(n - 1) : k + 1 \in 1..n /\ pushed'[k] = pushed[k + 1]
      BY <2>1, <3>1, <1>2
    <3> QED BY <3>1, <3>2, <3>3
  <2>3. \A k \in 1..n : pushed[k] \in Nat /\ pushed[k] <= online
    BY <1>2, <1>10 DEF EventsFollow
  <2>4. pushed[n] = online
    BY <2>1, <1>10 DEF EventsFollow
  <2>5. pushed[1] \in Nat /\ pushed[1] <= online /\ (pushed' = <<>> => pushed[1] = online)
    BY <2>2, <2>3, <2>4
  <2>6. \A v \in Nat : Marked(v) => Marked(v)'
    BY <2>1, <2>5, <1>2 DEF Marked
  <2>7. tl = pushed[1]
    BY <2>1, <1>2 DEF Shown
  <2>8. Marked(tl)'
    BY <2>1, <2>5, <2>7 DEF Marked
  <2>9. pushed' # <<>> => pushed'[Len(pushed')] = online'
    <3>1. ASSUME n # 1 PROVE n - 1 \in 1..(n - 1) /\ n - 1 + 1 = n
      BY <3>1, <2>2
    <3>2. ASSUME n # 1 PROVE pushed'[n - 1] = pushed[n]
      BY <3>1, <3>2, <2>2
    <3> QED BY <3>2, <2>1, <2>2, <2>4
  <2>10. \A k \in 1..Len(pushed') : pushed'[k] <= online'
    BY <2>1, <2>2, <2>3
  <2>11. pushed' # <<>> => socket' = "open"
    BY <2>1, <1>10 DEF EventsFollow
  <2> QED BY <2>6, <2>8, <2>9, <2>10, <2>11, <1>22
<1>15. EventsFollow'
  BY <1>11, <1>12, <1>13, <1>14
<1> QED BY <1>6, <1>9, <1>15 DEF TablesInv

LEMMA ActionsKeep ==
    ASSUME TablesInv, NEW j \in 1..Len(acting), ActionCommits(j) \/ ActionFails(j) \/ ActionWorks(j)
    PROVE  TablesInv'
<1>1. /\ TablesShape /\ want \in Filters \cup {Closed} /\ timer \in BOOLEAN
      /\ written \in Nat /\ own \in Nat /\ own <= written
  BY DEF TablesInv, TablesShape
<1>2. acting \in Seq(Actings) /\ acting[j] \in Actings /\ acting[j].made <= written
  BY <1>1 DEF TablesShape
<1>3. acting[j].filter \in Filters \cup {Closed} /\ acting[j].made \in Nat
  BY <1>2 DEF Actings
<1>4. CASE ActionCommits(j)
  <2> PICK r : r = [acting[j] EXCEPT !.at = "made", !.made = written + 1]
    OBVIOUS
  <2> PICK m \in Nat : m = written + 1
    BY <1>1
  <2>0. acting[j] \in Actings /\ r = [acting[j] EXCEPT !.at = "made", !.made = m]
    BY <1>2
  <2>1. r \in Actings /\ r.made = written + 1
    BY <2>0 DEF Actings
  <2>2. acting' = [acting EXCEPT ![j] = r] /\ written' = written + 1
    BY <1>4 DEF ActionCommits
  <2>3. /\ acting' \in Seq(Actings) /\ Len(acting') = Len(acting)
        /\ \A k \in 1..Len(acting) : acting'[k] = IF k = j THEN r ELSE acting[k]
    BY <2>1, <2>2, <1>2
  <2>4. \A k \in 1..Len(acting) : acting[k] \in Actings /\ acting[k].made <= written
    BY <1>1 DEF TablesShape
  <2>5. \A k \in 1..Len(acting) : acting[k].made \in Nat
    BY <2>4 DEF Actings
  <2>6. ActingsFit'
    BY <2>1, <2>2, <2>3, <2>4, <2>5, <1>1 DEF ActingsFit
  <2>7. /\ want' \in Filters \cup {Closed} /\ timer' \in BOOLEAN /\ written' \in Nat /\ written <= written'
        /\ (want' # Closed /\ ~timer' => want' = want /\ ~timer)
        /\ UNCHANGED <<shape, asks, table, own, online, socket, pushed, past>>
    BY <1>1, <1>4, <2>2 DEF ActionCommits
  <2> QED BY <2>6, <2>7, OthersKeep
<1>5. CASE ActionFails(j)
  <2>1. ActingsFit'
    BY <1>1, <1>5, ActingRemoved DEF ActionFails, hubRows
  <2>2. /\ want' \in Filters \cup {Closed} /\ timer' \in BOOLEAN /\ written' \in Nat /\ written <= written'
        /\ (want' # Closed /\ ~timer' => want' = want /\ ~timer)
        /\ UNCHANGED <<shape, asks, table, own, online, socket, pushed, past>>
    BY <1>1, <1>5 DEF ActionFails, hubRows
  <2> QED BY <2>1, <2>2, OthersKeep
<1>6. CASE ActionWorks(j)
  <2>1. ActingsFit'
    BY <1>1, <1>6, ActingRemoved DEF ActionWorks, Done, hubRows
  <2>2. want' \in Filters \cup {Closed} /\ timer' \in BOOLEAN /\ own' \in Nat /\ own' <= written
    BY <1>1, <1>2, <1>3, <1>6 DEF ActionWorks, Done
  <2>3. Send(acting[j].filter, want') /\ UNCHANGED <<shape, table, hubRows>>
    BY <1>6 DEF ActionWorks
  <2> QED BY <1>3, <2>1, <2>2, <2>3, SendKeeps
<1> QED BY <1>4, <1>5, <1>6

LEMMA PageKeeps ==
    ASSUME TablesInv,
           \/ \E f \in Filters : Choose(f)
           \/ ClosePanel \/ DelayEnds \/ OpenDialog \/ Submit \/ CancelDialog \/ Press \/ SomeoneWrites
    PROVE  TablesInv'
<1>1. /\ TablesShape /\ want \in Filters \cup {Closed} /\ timer \in BOOLEAN /\ shape \in Shapes
      /\ written \in Nat /\ own \in Nat /\ own <= written
  BY DEF TablesInv, TablesShape
<1>2. UNCHANGED <<acting, written>> => ActingsFit'
  BY <1>1, ActingFacts
<1>3. ASSUME NEW f \in Filters, Choose(f) PROVE TablesInv'
  <2>1. want' = f /\ shape' = shape /\ table' = table /\ own' = own /\ ActingsFit' /\ UNCHANGED hubRows
    BY <1>2, <1>3 DEF Choose, hubRows
  <2>2. CASE shape.delay
    BY <1>1, <1>3, <2>1, <2>2, OthersKeep DEF Choose, hubRows
  <2>3. CASE ~shape.delay
    <3>1. Send(f, want') /\ timer' = timer
      BY <1>3, <2>1, <2>3 DEF Choose
    <3> QED BY <1>1, <2>1, <3>1, SendKeeps
  <2> QED BY <2>2, <2>3
<1>4. CASE DelayEnds
  <2>1. want' = want /\ timer' = FALSE /\ Send(want, want') /\ own' = own /\ UNCHANGED <<shape, table, hubRows>>
        /\ ActingsFit'
    BY <1>2, <1>4 DEF DelayEnds, hubRows
  <2> QED BY <1>1, <2>1, SendKeeps
<1>5. CASE ClosePanel \/ OpenDialog \/ CancelDialog
  BY <1>1, <1>2, <1>5, OthersKeep DEF ClosePanel, OpenDialog, CancelDialog, hubRows
<1>6. CASE Submit \/ Press
  <2>1. ActingsFit'
    BY <1>1, <1>6, ActingAppended DEF Submit, Press, hubRows
  <2> QED BY <1>1, <1>6, <2>1, OthersKeep DEF Submit, Press, hubRows
<1>7. CASE SomeoneWrites
  <2>1. written' = written + 1 /\ acting' = acting
    BY <1>7 DEF SomeoneWrites
  <2>2. ActingsFit'
    BY <1>1, <2>1, ActingFacts
  <2> QED BY <1>1, <1>7, <2>1, <2>2, OthersKeep DEF SomeoneWrites
<1> QED BY <1>3, <1>4, <1>5, <1>6, <1>7

LEMMA TablesStep == TablesInv /\ [TablesNext]_tableVars => TablesInv'
<1> SUFFICES ASSUME TablesInv, [TablesNext]_tableVars PROVE TablesInv'
  OBVIOUS
<1>1. CASE UNCHANGED tableVars
  BY <1>1 DEF tableVars, TablesInv, TablesShape, LastFits, Fits, EventsFollow, Marked
<1>2. ASSUME NEW i \in 1..Len(asks), ReadRows(i) \/ Show(i) \/ RequestFails(i) PROVE TablesInv'
  BY <1>2, ReadKeeps, ShowKeeps, RequestFailsKeeps
<1>3. ASSUME NEW j \in 1..Len(acting), ActionCommits(j) \/ ActionFails(j) \/ ActionWorks(j) PROVE TablesInv'
  BY <1>3, ActionsKeep
<1>4. CASE \/ \E f \in Filters : Choose(f)
           \/ ClosePanel \/ DelayEnds \/ OpenDialog \/ Submit \/ CancelDialog \/ Press \/ SomeoneWrites
  BY <1>4, PageKeeps
<1>5. CASE HostTurns \/ SocketOpens \/ SocketDies \/ TakeEvent
  BY <1>5, EventsKeep
<1> QED BY <1>1, <1>2, <1>3, <1>4, <1>5 DEF TablesNext

\* A table that has settled shows what its filter asks for and what the page
\* itself has changed (the eighteen pages of pages.tsx that load, reload and act),
\* but for the exceptions of TableShown, whatever is asked, overtaken, lost or
\* changed by others.  The invariant follows the last request: until it has come
\* back it will bring what the page should show, after it all others are late.
THEOREM TablesSettleRight == TablesSpec => []TableShown
<1>1. TablesInv => TableShown
  BY DEF TablesInv, LastFits, EventsFollow, TableShown, Settled, Fits, Marked
<1> QED BY <1>1, TablesStart, TablesStep, PTL DEF TablesSpec

-----------------------------------------------------------------------------
(* Plugin: calls of the panel that overlap leave nothing half done.          *)

PluginCall == [op : Ops \cup {"none"}, cfg : Configs, fresh : BOOLEAN,
               at : {"idle", "register", "load", "write", "rename",
                     "finish", "failed", "flush", "direct", "probe"}]
PluginSync == [at : {"idle", "stopping", "listen", "bound"},
               code : Codes, counted : BOOLEAN]

LEMMA WrittenType == ASSUME NEW c \in PluginCall PROVE Written(c) \in Configs
BY DEF PluginCall, Written, Configs

LEMMA RestTypes == Idle \in PluginCall /\ NoSync \in PluginSync
BY PluginAssumption DEF Idle, NoSync, PluginCall, PluginSync, Configs, Ops

\* What a step of the listener keeps.
LanTypes == /\ port \in [code : Codes, counted : BOOLEAN] \cup {Down}
            /\ direct \in {"null", "port", "gone"}
            /\ applied \in [code : Codes, counted : BOOLEAN] \cup {Down}
            /\ sync \in [Slots -> PluginSync]

LEMMA SyncFromType ==
    ASSUME LanTypes, NEW s \in Slots, NEW code \in Codes, NEW counted \in BOOLEAN,
           SyncFrom(s, code, counted)
    PROVE  LanTypes'
<1>1. sync' \in [Slots -> PluginSync]
  BY RestTypes DEF LanTypes, SyncFrom, PluginSync
<1>2. port' \in [code : Codes, counted : BOOLEAN] \cup {Down}
  BY DEF LanTypes, SyncFrom, ClosePort, lan
<1>3. direct' \in {"null", "port", "gone"}
  BY DEF LanTypes, SyncFrom, ClosePort, lan
<1>4. applied' \in [code : Codes, counted : BOOLEAN] \cup {Down}
  BY DEF LanTypes, SyncFrom, ClosePort, lan
<1> QED
  BY <1>1, <1>2, <1>3, <1>4 DEF LanTypes

TunTypes == /\ {handle, meter} \subseteq BOOLEAN
            /\ tunnel \in Codes \cup {Down} /\ live \in Codes

LEMMA StartTunnelType ==
    ASSUME LanTypes, TunTypes, NEW s \in Slots, NEW cfg \in Configs, StartTunnel(s, cfg)
    PROVE  LanTypes' /\ TunTypes'
<1>0. cfg.code \in Codes
  BY DEF Configs
<1>1. CASE disposed \/ tunnel # Down
  BY <1>0, <1>1 DEF StartTunnel, LanTypes, TunTypes, tun, lan
<1>2. CASE ~disposed /\ tunnel = Down
  <2>1. SyncFrom(s, cfg.code, TRUE)
    BY <1>2 DEF StartTunnel
  <2> QED
    BY <1>0, <1>2, <2>1, SyncFromType DEF StartTunnel, TunTypes
<1> QED
  BY <1>1, <1>2

RestTypesOK == /\ file \in Configs /\ tmp \in Configs \cup {Down}
               /\ {token, disposed} \subseteq BOOLEAN
               /\ teardown \in {"no", "direct", "flush", "done"}
               /\ excuse \subseteq {"stale", "overlap", "lost"}
               /\ calls \in 0..MaxCalls /\ ends \in 0..MaxEnds

LEMMA TypeParts ==
    PluginTypeOK <=> LanTypes /\ TunTypes /\ RestTypesOK /\ call \in [Slots -> PluginCall]
BY DEF PluginTypeOK, LanTypes, TunTypes, RestTypesOK, PluginCall, PluginSync

\* Every variable keeps its type.
LEMMA PluginTypeInit == PluginInit => PluginTypeOK
<1> SUFFICES ASSUME PluginInit PROVE PluginTypeOK
  OBVIOUS
<1>1. call \in [Slots -> PluginCall]
  <2>1. PICK auto \in Slots :
          call = [s \in Slots |-> IF s = auto THEN [Idle EXCEPT !.op = "auto", !.at = "load"]
                                  ELSE Idle]
    BY DEF PluginInit
  <2>2. [Idle EXCEPT !.op = "auto", !.at = "load"] \in PluginCall
    BY RestTypes DEF PluginCall, Ops
  <2> QED
    BY <2>1, <2>2, RestTypes
<1>2. LanTypes /\ TunTypes /\ RestTypesOK
  <2>1. LanTypes
    BY RestTypes DEF PluginInit, LanTypes
  <2>2. TunTypes
    BY PluginAssumption DEF PluginInit, TunTypes
  <2>3. RestTypesOK
    <3>1. calls = 0 /\ ends = 0 /\ teardown = "no" /\ excuse = {}
      BY DEF PluginInit
    <3>2. /\ file \in Configs /\ tmp \in Configs \cup {Down}
          /\ {token, disposed} \subseteq BOOLEAN
      BY DEF PluginInit
    <3> QED
      BY <3>1, <3>2, PluginAssumption DEF RestTypesOK
  <2> QED
    BY <2>1, <2>2, <2>3
<1> QED
  BY <1>1, <1>2, TypeParts

LEMMA PluginTypeStep == PluginTypeOK /\ [PluginNext]_vars => PluginTypeOK'
<1> SUFFICES ASSUME PluginTypeOK, [PluginNext]_vars PROVE PluginTypeOK'
  OBVIOUS
<1> USE DEF LanTypes, TunTypes, RestTypesOK
<1>0. /\ LanTypes /\ TunTypes /\ RestTypesOK /\ call \in [Slots -> PluginCall]
      /\ \A s \in Slots : /\ call[s] \in PluginCall /\ call[s].cfg \in Configs
                          /\ call[s].cfg.code \in Codes
                          /\ sync[s] \in PluginSync /\ sync[s].code \in Codes
                          /\ sync[s].counted \in BOOLEAN
  <2>1. /\ LanTypes /\ TunTypes /\ RestTypesOK /\ call \in [Slots -> PluginCall]
        /\ \A s \in Slots : call[s] \in PluginCall /\ sync[s] \in PluginSync
    BY TypeParts
  <2> QED
    BY <2>1 DEF PluginCall, PluginSync, Configs
<1> SUFFICES LanTypes' /\ TunTypes' /\ RestTypesOK' /\ (call \in [Slots -> PluginCall])'
  BY TypeParts DEF PluginTypeOK, PluginCall, PluginSync
<1>1. ASSUME NEW s \in Slots,
             SyncStopped(s) \/ SyncListen(s) \/ SyncGiveUp(s) \/ SyncBound(s)
      PROVE  LanTypes' /\ TunTypes' /\ RestTypesOK' /\ (call \in [Slots -> PluginCall])'
  <2>1. CASE SyncStopped(s)
    BY <1>0, <2>1 DEF SyncStopped, Forget, Blame, PluginSync, disk, tun, down
  <2>2. CASE SyncListen(s)
    BY <1>0, <2>2 DEF SyncListen, PluginSync, disk, tun, down
  <2>3. CASE SyncGiveUp(s)
    BY <1>0, <2>3, RestTypes DEF SyncGiveUp, Blame, disk, tun, down
  <2>4. CASE SyncBound(s)
    BY <1>0, <2>4, RestTypes DEF SyncBound, disk, tun, down
  <2> QED
    BY <1>1, <2>1, <2>2, <2>3, <2>4
<1>2. ASSUME NEW s \in Slots, NEW at \in {"write", "rename", "finish", "failed", "load",
                                          "flush", "direct", "probe"}, Goto(s, at)
      PROVE  (call \in [Slots -> PluginCall])'
  BY <1>0, <1>2 DEF Goto, PluginCall
<1>3. ASSUME NEW s \in Slots, Return(s) PROVE (call \in [Slots -> PluginCall])'
  BY <1>0, <1>3, RestTypes DEF Return
<1>4. ASSUME NEW s \in Slots, Begin(s) PROVE calls' \in 0..MaxCalls
  BY <1>0, <1>4, PluginAssumption DEF Begin
<1>5. ASSUME NEW s \in Slots, Connect(s) \/ Disconnect(s) \/ SetCode(s) \/ SetCompat(s)
      PROVE  LanTypes' /\ TunTypes' /\ RestTypesOK' /\ (call \in [Slots -> PluginCall])'
  <2>1. PICK c \in PluginCall : call' = [call EXCEPT ![s] = c]
    <3>1. CASE Connect(s)
      <4>1. PICK op \in {"connect", "scan"} :
              call' = [call EXCEPT ![s] = [Idle EXCEPT !.op = op, !.at = "register"]]
        BY <3>1 DEF Connect
      <4>2. [Idle EXCEPT !.op = op, !.at = "register"] \in PluginCall
        BY RestTypes DEF PluginCall, Ops
      <4> QED
        BY <4>1, <4>2
    <3>2. CASE Disconnect(s)
      <4>1. PICK op \in {"disconnect", "revoke"} :
              call' = [call EXCEPT ![s] = [Idle EXCEPT !.op = op, !.at = "flush"]]
        BY <3>2 DEF Disconnect
      <4>2. [Idle EXCEPT !.op = op, !.at = "flush"] \in PluginCall
        BY RestTypes DEF PluginCall, Ops
      <4> QED
        BY <4>1, <4>2
    <3>3. CASE SetCode(s)
      <4>1. PICK code \in Codes :
              call' = [call EXCEPT ![s] = [Idle EXCEPT !.op = "code", !.at = "load",
                                                      !.cfg.code = code]]
        BY <3>3 DEF SetCode
      <4>2. [Idle EXCEPT !.op = "code", !.at = "load", !.cfg.code = code] \in PluginCall
        BY RestTypes DEF PluginCall, Ops, Configs
      <4> QED
        BY <4>1, <4>2
    <3>4. CASE SetCompat(s)
      <4>1. call' = [call EXCEPT ![s] = [Idle EXCEPT !.op = "compat", !.at = "load"]]
        BY <3>4 DEF SetCompat
      <4>2. [Idle EXCEPT !.op = "compat", !.at = "load"] \in PluginCall
        BY RestTypes DEF PluginCall, Ops
      <4> QED
        BY <4>1, <4>2
    <3> QED
      BY <1>5, <3>1, <3>2, <3>3, <3>4
  <2>2. (call \in [Slots -> PluginCall])'
    BY <1>0, <2>1
  <2>3. CASE Connect(s)
    BY <1>0, <1>4, <2>2, <2>3 DEF Connect, disk, tun, lan, down
  <2>4. CASE Disconnect(s)
    BY <1>0, <1>4, <2>2, <2>4 DEF Disconnect, CloseTunnel, disk, tun, lan, down
  <2>5. CASE SetCode(s)
    BY <1>0, <1>4, <2>2, <2>5 DEF SetCode, Blame, disk, tun, lan, down
  <2>6. CASE SetCompat(s)
    BY <1>0, <1>4, <2>2, <2>6 DEF SetCompat, disk, tun, lan, down
  <2> QED
    BY <1>5, <2>3, <2>4, <2>5, <2>6
<1>6. ASSUME NEW s \in Slots, Register(s) \/ Write(s) \/ SaveFailed(s) \/ Revoked(s) \/ CompatSaved(s)
      PROVE  LanTypes' /\ TunTypes' /\ RestTypesOK' /\ (call \in [Slots -> PluginCall])'
  <2>1. CASE Register(s)
    BY <1>0, <1>2, <1>3, <2>1 DEF Register, tun, lan, down
  <2>2. CASE Write(s)
    BY <1>0, <1>2, <2>2, WrittenType DEF Write, tun, lan, down
  <2>3. CASE SaveFailed(s)
    BY <1>0, <1>3, <2>3 DEF SaveFailed, Blame, disk, tun, lan, down
  <2>4. CASE Revoked(s)
    BY <1>0, <1>3, <2>4 DEF Revoked, Blame, tun, lan, down
  <2>5. CASE CompatSaved(s)
    BY <1>0, <1>3, <2>5 DEF CompatSaved, disk, tun, lan, down
  <2> QED
    BY <1>6, <2>1, <2>2, <2>3, <2>4, <2>5
<1>7. ASSUME NEW s \in Slots, Load(s) \/ Rename(s) \/ AutoLoad(s)
      PROVE  LanTypes' /\ TunTypes' /\ RestTypesOK' /\ (call \in [Slots -> PluginCall])'
  <2>1. CASE Load(s)
    <3>1. PICK cfg \in Configs :
            call' = [call EXCEPT ![s].at = "write", ![s].fresh = TRUE, ![s].cfg = cfg]
      <4>1. [file EXCEPT !.code = call[s].cfg.code] \in Configs
        BY <1>0 DEF Configs
      <4> QED
        BY <1>0, <2>1, <4>1 DEF Load
    <3>2. (call \in [Slots -> PluginCall])'
      <4>1. [call[s] EXCEPT !.at = "write", !.fresh = TRUE, !.cfg = cfg] \in PluginCall
        BY <1>0 DEF PluginCall
      <4>2. call' = [call EXCEPT ![s] =
                       [call[s] EXCEPT !.at = "write", !.fresh = TRUE, !.cfg = cfg]]
        BY <1>0, <3>1
      <4> QED
        BY <1>0, <4>1, <4>2
    <3> QED
      BY <1>0, <2>1, <3>2 DEF Load, disk, tun, lan, down
  <2>2. CASE Rename(s)
    <3>1. CASE tmp = Down
      BY <1>0, <1>2, <2>2, <3>1 DEF Rename, tun, lan, down
    <3>2. CASE tmp # Down
      <4>1. (call \in [Slots -> PluginCall])'
        <5>1. \A c \in Slots : /\ [call[c] EXCEPT !.at = "finish"] \in PluginCall
                               /\ [call[c] EXCEPT !.fresh = (call[c] = Idle)] \in PluginCall
          BY <1>0, ZenonT(30) DEF PluginCall
        <5> QED
          BY <2>2, <3>2, <5>1 DEF Rename
      <4> QED
        BY <1>0, <2>2, <3>2, <4>1 DEF Rename, Blame, tun, lan, down
    <3> QED
      BY <3>1, <3>2
  <2>3. CASE AutoLoad(s)
    <3>1. (call \in [Slots -> PluginCall])'
      BY <1>0, <1>3, <2>3 DEF AutoLoad, PluginCall
    <3> QED
      BY <1>0, <2>3, <3>1 DEF AutoLoad, disk, tun, lan, down
  <2> QED
    BY <1>7, <2>1, <2>2, <2>3
<1>8. ASSUME NEW s \in Slots, Connected(s) \/ AutoStart(s) \/ CodeSaved(s)
      PROVE  LanTypes' /\ TunTypes' /\ RestTypesOK' /\ (call \in [Slots -> PluginCall])'
  <2>1. CASE Connected(s)
    <3>1. LanTypes' /\ TunTypes'
      BY <1>0, <2>1, StartTunnelType, WrittenType DEF Connected
    <3> QED
      BY <1>0, <1>3, <2>1, <3>1 DEF Connected, Blames, disk, down
  <2>2. CASE AutoStart(s)
    <3>1. LanTypes' /\ TunTypes'
      <4>1. CASE token
        BY <1>0, <2>2, <4>1, StartTunnelType DEF AutoStart
      <4>2. CASE ~token
        BY <1>0, <2>2, <4>2 DEF AutoStart, tun, lan
      <4> QED
        BY <4>1, <4>2
    <3> QED
      BY <1>0, <1>3, <2>2, <3>1 DEF AutoStart, Blames, disk, down
  <2>3. CASE CodeSaved(s)
    <3>1. LanTypes'
      BY <1>0, <2>3, SyncFromType DEF CodeSaved
    <3> QED
      BY <1>0, <1>3, <2>3, <3>1 DEF CodeSaved, disk, tun, down
  <2> QED
    BY <1>8, <2>1, <2>2, <2>3
<1>9. ASSUME NEW s \in Slots, Flushed(s) \/ DirectStopped(s)
      PROVE  LanTypes' /\ TunTypes' /\ RestTypesOK' /\ (call \in [Slots -> PluginCall])'
  <2>1. CASE Flushed(s)
    <3>1. (call \in [Slots -> PluginCall])'
      BY <1>2, <1>3, <2>1 DEF Flushed
    <3> QED
      BY <1>0, <2>1, <3>1 DEF Flushed, Blame, ClosePort, Forget, disk, down, lan
  <2>2. CASE DirectStopped(s)
    BY <1>0, <1>2, <2>2 DEF DirectStopped, Blame, Forget, disk, tun, down
  <2> QED
    BY <1>9, <2>1, <2>2
<1>10. CASE TunnelEnds
  <2>1. ends' \in 0..MaxEnds
    BY <1>0, <1>10, PluginAssumption DEF TunnelEnds
  <2> QED
    BY <1>0, <1>10, <2>1 DEF TunnelEnds, CloseTunnel, disk, lan, down
<1>11. CASE Teardown
  BY <1>0, <1>11 DEF Teardown, ClosePort, Blame, disk, tun, lan
<1>12. CASE TeardownTunnel
  BY <1>0, <1>12 DEF TeardownTunnel, CloseTunnel, Forget, disk, tun
<1>13. CASE TeardownDone
  BY <1>0, <1>13 DEF TeardownDone, disk, tun, lan
<1>14. CASE UNCHANGED vars
  BY <1>0, <1>14 DEF vars, disk, tun, lan, down
<1> QED
  BY <1>1, <1>5, <1>6, <1>7, <1>8, <1>9, <1>10, <1>11, <1>12, <1>13, <1>14 DEF PluginNext

\* What the properties rest on.  The calls and the synchronisations keep to
\* the steps of their kind ...
Stages ==
    \A s \in Slots :
       /\ call[s].op = "none" => call[s] = Idle
       /\ call[s].at = "idle" => call[s] = Idle
       /\ sync[s].at = "idle" => sync[s] = NoSync
       /\ call[s].op = "auto" => call[s].at \in {"load", "probe"}
       /\ call[s].at = "direct" => call[s].op = "revoke"

\* ... the file says what the call at work read or has written ...
FileKnown ==
    "stale" \notin excuse =>
       /\ file.mode = "join" => token
       /\ \A s \in Slots :
             /\ call[s].fresh /\ call[s].at \in {"write", "rename", "probe"}
                   => /\ call[s].cfg.mode = file.mode
                      /\ call[s].op # "code" => call[s].cfg.code = file.code
             /\ call[s].fresh /\ call[s].at = "finish" => file = Written(call[s])
       /\ \A s, t \in Slots : call[s].op = "code" /\ call[t].op = "code" => s = t

\* ... there is a handle of the tunnel, and none once the plugin is down ...
TunnelHandled ==
    /\ disposed <=> teardown # "no"
    /\ handle => tunnel # Down
    /\ "lost" \notin excuse => /\ tunnel # Down => handle
                               /\ teardown \in {"flush", "done"} => tunnel = Down

Active(s) == sync[s].at # "idle"

\* ... one synchronisation moves the listener at a time, and nothing forgets a
\* listener that is open ...
ListenerKnown ==
    "overlap" \notin excuse =>
       /\ \A s, t \in Slots : Active(s) /\ Active(t) => s = t
       /\ teardown = "direct" => \A s \in Slots : ~Active(s)
       /\ disposed => direct # "port"
       /\ direct = "port" => port # Down /\ applied = port
       /\ direct = "null" => applied = Down
       /\ direct = "gone" => port = Down /\ Moving
       /\ port # Down => direct = "port" \/ \E s \in Slots : sync[s].at = "bound"
       /\ \A s \in Slots :
             /\ sync[s].at = "stopping" => direct = "gone"
             /\ sync[s].at = "listen" => direct = "null" /\ port = Down
             /\ sync[s].at = "bound" =>
                   /\ direct = "null"
                   /\ port = [code |-> sync[s].code, counted |-> sync[s].counted]

\* ... and everything asks for the code that was set last.
CodeKnown ==
    excuse = {} /\ ~disposed =>
       /\ tunnel # Down =>
             /\ tunnel = live /\ meter
             /\ (\A s \in Slots : call[s].op # "code") => live = file.code
             /\ \/ direct = "port" /\ port.counted
                \/ \E s \in Slots : Active(s) /\ sync[s].counted
       /\ \A s \in Slots : call[s].op = "code" /\ tunnel # Down => live = call[s].cfg.code
       /\ (\A s \in Slots : ~At(s, {"code"}, "finish")) =>
             /\ port # Down => port.code = file.code
             /\ \A s \in Slots : Active(s) => sync[s].code = file.code

PluginInv == Stages /\ FileKnown /\ TunnelHandled /\ ListenerKnown /\ CodeKnown

\* How the steps move a call and a synchronisation.
LEMMA IdleIs ==
    /\ Idle.op = "none" /\ Idle.at = "idle" /\ Idle.fresh = TRUE
    /\ NoSync.at = "idle"
BY DEF Idle, NoSync

LEMMA GotoIs ==
    ASSUME call \in [Slots -> PluginCall], NEW s \in Slots, NEW at, Goto(s, at)
    PROVE  /\ call'[s].at = at /\ call'[s].op = call[s].op
           /\ call'[s].cfg = call[s].cfg /\ call'[s].fresh = call[s].fresh
           /\ \A t \in Slots \ {s} : call'[t] = call[t]
BY DEF Goto, PluginCall

LEMMA ReturnIs ==
    ASSUME call \in [Slots -> PluginCall], NEW s \in Slots, Return(s)
    PROVE  call'[s] = Idle /\ \A t \in Slots \ {s} : call'[t] = call[t]
BY DEF Return

\* A call that begins.
LEMMA BeginIs ==
    ASSUME call \in [Slots -> PluginCall], NEW s \in Slots,
           Connect(s) \/ Disconnect(s) \/ SetCode(s) \/ SetCompat(s)
    PROVE  /\ call[s] = Idle
           /\ \A t \in Slots \ {s} : call'[t] = call[t]
           /\ call'[s].fresh = TRUE
           /\ \/ call'[s].op \in {"connect", "scan"} /\ call'[s].at = "register"
              \/ call'[s].op \in {"disconnect", "revoke"} /\ call'[s].at = "flush"
              \/ call'[s].op \in {"code", "compat"} /\ call'[s].at = "load"
           /\ call'[s].op = "code" => SetCode(s)
<1>1. CASE Connect(s)
  <2>1. PICK o \in {"connect", "scan"} :
          call' = [call EXCEPT ![s] = [Idle EXCEPT !.op = o, !.at = "register"]]
    BY <1>1 DEF Connect
  <2>2. call'[s] = [Idle EXCEPT !.op = o, !.at = "register"]
    BY <2>1
  <2> QED
    BY <1>1, <2>1, <2>2 DEF Connect, Begin, Idle
<1>2. CASE Disconnect(s)
  <2>1. PICK o \in {"disconnect", "revoke"} :
          call' = [call EXCEPT ![s] = [Idle EXCEPT !.op = o, !.at = "flush"]]
    BY <1>2 DEF Disconnect
  <2>2. call'[s] = [Idle EXCEPT !.op = o, !.at = "flush"]
    BY <2>1
  <2> QED
    BY <1>2, <2>1, <2>2 DEF Disconnect, Begin, Idle
<1>3. CASE SetCode(s)
  <2>1. PICK code \in Codes :
          call' = [call EXCEPT ![s] = [Idle EXCEPT !.op = "code", !.at = "load",
                                                  !.cfg.code = code]]
    BY <1>3 DEF SetCode
  <2>2. call'[s] = [Idle EXCEPT !.op = "code", !.at = "load", !.cfg.code = code]
    BY <2>1
  <2> QED
    BY <1>3, <2>1, <2>2 DEF SetCode, Begin, Idle
<1>4. CASE SetCompat(s)
  <2>1. call'[s] = [Idle EXCEPT !.op = "compat", !.at = "load"]
    BY <1>4 DEF SetCompat
  <2> QED
    BY <1>4, <2>1 DEF SetCompat, Begin, Idle
<1> QED
  BY <1>1, <1>2, <1>3, <1>4

LEMMA SetCodeIs ==
    ASSUME call \in [Slots -> PluginCall], NEW s \in Slots, SetCode(s)
    PROVE  \E code \in Codes :
              /\ live' = code /\ tunnel' = IF handle THEN code ELSE tunnel
              /\ call'[s].op = "code" /\ call'[s].at = "load"
              /\ call'[s].cfg.code = code
<1>1. PICK code \in Codes :
         /\ live' = code
         /\ tunnel' = IF handle THEN code ELSE tunnel
         /\ call' = [call EXCEPT ![s] = [Idle EXCEPT !.op = "code", !.at = "load",
                                                     !.cfg.code = code]]
  BY DEF SetCode
<1>2. call'[s] = [Idle EXCEPT !.op = "code", !.at = "load", !.cfg.code = code]
  BY <1>1
<1> QED
  BY <1>1, <1>2 DEF Idle

LEMMA LoadIs ==
    ASSUME PluginTypeOK, NEW s \in Slots, Load(s)
    PROVE  /\ call'[s].at = "write" /\ call'[s].op = call[s].op
           /\ call'[s].cfg.mode = file.mode
           /\ call'[s].cfg.code = IF call[s].op = "code" THEN call[s].cfg.code
                                  ELSE file.code
           /\ \A t \in Slots \ {s} : call'[t] = call[t]
<1> DEFINE cfg == IF call[s].op = "code" THEN [file EXCEPT !.code = call[s].cfg.code]
                  ELSE file
<1>1. call' = [call EXCEPT ![s].at = "write", ![s].fresh = TRUE, ![s].cfg = cfg]
  BY DEF Load
<1>2. call \in [Slots -> PluginCall] /\ call[s] \in PluginCall /\ file \in Configs
  BY TypeParts DEF RestTypesOK
<1>3. call'[s] = [call[s] EXCEPT !.at = "write", !.fresh = TRUE, !.cfg = cfg]
  BY <1>1, <1>2
<1>4. /\ call'[s].at = "write" /\ call'[s].op = call[s].op /\ call'[s].cfg = cfg
      /\ \A t \in Slots \ {s} : call'[t] = call[t]
  BY <1>1, <1>2, <1>3 DEF PluginCall
<1>5. cfg.mode = file.mode /\ cfg.code = IF call[s].op = "code" THEN call[s].cfg.code
                                        ELSE file.code
  BY <1>2 DEF Configs
<1> QED
  BY <1>4, <1>5

\* The rename succeeds: the file is what the temporary file was, and every other
\* call that is under way has read something older.
LEMMA RenameIs ==
    ASSUME call \in [Slots -> PluginCall], NEW s \in Slots, Rename(s), tmp # Down
    PROVE  /\ file' = tmp
           /\ call'[s].at = "finish" /\ call'[s].op = call[s].op
           /\ call'[s].cfg = call[s].cfg /\ call'[s].fresh = call[s].fresh
           /\ \A t \in Slots \ {s} :
                 /\ call'[t].at = call[t].at /\ call'[t].op = call[t].op
                 /\ call'[t].cfg = call[t].cfg
                 /\ call'[t].fresh => call[t] = Idle
                 /\ call[t] = Idle => call'[t] = Idle
<1>1. file' = tmp /\ call' = [c \in Slots |->
                          IF c = s THEN [call[c] EXCEPT !.at = "finish"]
                          ELSE [call[c] EXCEPT !.fresh = (call[c] = Idle)]]
  BY DEF Rename
<1>2. \A t \in Slots : call[t] \in PluginCall
  OBVIOUS
<1>3. call'[s] = [call[s] EXCEPT !.at = "finish"]
  BY <1>1
<1>4. /\ call'[s].at = "finish" /\ call'[s].op = call[s].op
      /\ call'[s].cfg = call[s].cfg /\ call'[s].fresh = call[s].fresh
  BY <1>2, <1>3 DEF PluginCall
<1>5. ASSUME NEW t \in Slots \ {s}
      PROVE  /\ call'[t].at = call[t].at /\ call'[t].op = call[t].op
             /\ call'[t].cfg = call[t].cfg
             /\ call'[t].fresh => call[t] = Idle
             /\ call[t] = Idle => call'[t] = Idle
  <2>1. call'[t] = [call[t] EXCEPT !.fresh = (call[t] = Idle)]
    BY <1>1
  <2>2. /\ call'[t].at = call[t].at /\ call'[t].op = call[t].op
        /\ call'[t].cfg = call[t].cfg
    BY <1>2, <2>1 DEF PluginCall
  <2>3. call'[t].fresh = (call[t] = Idle)
    BY <1>2, <2>1 DEF PluginCall
  <2>4. call[t] = Idle => [call[t] EXCEPT !.fresh = (call[t] = Idle)] = Idle
    BY IdleIs, RestTypes DEF PluginCall
  <2> QED
    BY <2>1, <2>2, <2>3, <2>4
<1> QED
  BY <1>1, <1>4, <1>5

LEMMA AutoLoadIs ==
    ASSUME call \in [Slots -> PluginCall], NEW s \in Slots, AutoLoad(s)
    PROVE  /\ \A t \in Slots \ {s} : call'[t] = call[t]
           /\ call[s].op = "auto"
           /\ \/ call'[s] = Idle
              \/ call'[s].op = "auto" /\ call'[s].at = "probe" /\ call'[s].cfg = file
<1>1. CASE ~handle /\ tunnel = Down /\ file.mode = "join" /\ token
  <2>1. call' = [call EXCEPT ![s].at = "probe", ![s].cfg = file, ![s].fresh = TRUE]
    BY <1>1 DEF AutoLoad
  <2>2. call'[s] = [call[s] EXCEPT !.at = "probe", !.cfg = file, !.fresh = TRUE]
    BY <2>1
  <2> QED
    BY <2>1, <2>2 DEF AutoLoad, At, PluginCall
<1>2. CASE ~(~handle /\ tunnel = Down /\ file.mode = "join" /\ token)
  BY <1>2, ReturnIs DEF AutoLoad, At
<1> QED
  BY <1>1, <1>2

\* One step of a synchronisation, and its start.
LEMMA SyncIs ==
    ASSUME sync \in [Slots -> PluginSync], NEW s \in Slots,
           SyncStopped(s) \/ SyncListen(s) \/ SyncGiveUp(s) \/ SyncBound(s)
    PROVE  /\ Active(s) /\ call' = call /\ \A t \in Slots \ {s} : sync'[t] = sync[t]
           /\ \/ sync'[s] = NoSync
              \/ /\ sync'[s].at \in {"listen", "bound"}
                 /\ sync'[s].code = sync[s].code /\ sync'[s].counted = sync[s].counted
<1>1. CASE SyncStopped(s)
  BY <1>1 DEF SyncStopped, Active, PluginSync
<1>2. CASE SyncListen(s)
  BY <1>2 DEF SyncListen, Active, PluginSync
<1>3. CASE SyncGiveUp(s)
  BY <1>3 DEF SyncGiveUp, Active
<1>4. CASE SyncBound(s)
  BY <1>4 DEF SyncBound, Active
<1> QED
  BY <1>1, <1>2, <1>3, <1>4

LEMMA SyncFromIs ==
    ASSUME sync \in [Slots -> PluginSync], NEW s \in Slots, NEW code, NEW counted,
           SyncFrom(s, code, counted)
    PROVE  /\ \A t \in Slots \ {s} : sync'[t] = sync[t]
           /\ \/ sync'[s] = NoSync
              \/ /\ sync'[s].at \in {"stopping", "listen"}
                 /\ sync'[s].code = code /\ sync'[s].counted = counted
BY DEF SyncFrom

LEMMA StagesStep ==
    PluginTypeOK /\ Stages /\ [PluginNext]_vars => Stages'
<1> SUFFICES ASSUME PluginTypeOK, Stages, [PluginNext]_vars PROVE Stages'
  OBVIOUS
<1>0. /\ call \in [Slots -> PluginCall] /\ sync \in [Slots -> PluginSync]
  BY TypeParts DEF LanTypes
<1> DEFINE CallStage(s) == /\ call[s].op = "none" => call[s] = Idle
                           /\ call[s].at = "idle" => call[s] = Idle
                           /\ call[s].op = "auto" => call[s].at \in {"load", "probe"}
                           /\ call[s].at = "direct" => call[s].op = "revoke"
           SyncStage(s) == sync[s].at = "idle" => sync[s] = NoSync
<1>a. \A s \in Slots : CallStage(s) /\ SyncStage(s)
  BY DEF Stages
<1> SUFFICES \A s \in Slots : CallStage(s)' /\ SyncStage(s)'
  BY DEF Stages
<1>1. ASSUME NEW s \in Slots,
             SyncStopped(s) \/ SyncListen(s) \/ SyncGiveUp(s) \/ SyncBound(s)
      PROVE  \A t \in Slots : CallStage(t)' /\ SyncStage(t)'
  <2>1. call' = call
    BY <1>0, <1>1, SyncIs
  <2>2. \A t \in Slots : SyncStage(t)'
    BY <1>0, <1>1, <1>a, SyncIs
  <2> QED
    BY <1>a, <2>1, <2>2
<1>2. ASSUME NEW s \in Slots, sync' = sync, \A t \in Slots \ {s} : call'[t] = call[t],
             CallStage(s)'
      PROVE  \A t \in Slots : CallStage(t)' /\ SyncStage(t)'
  BY <1>2, <1>a
<1>3. ASSUME NEW s \in Slots, Connect(s) \/ Disconnect(s) \/ SetCode(s) \/ SetCompat(s)
      PROVE  \A t \in Slots : CallStage(t)' /\ SyncStage(t)'
  <2>1. sync' = sync
    BY <1>3 DEF Connect, Disconnect, SetCode, SetCompat
  <2>2. CallStage(s)'
    BY <1>0, <1>3, BeginIs
  <2>3. \A t \in Slots \ {s} : call'[t] = call[t]
    BY <1>0, <1>3, BeginIs
  <2> QED
    BY <1>2, <2>1, <2>2, <2>3
<1>4. ASSUME NEW s \in Slots, Return(s)
      PROVE  CallStage(s)' /\ \A t \in Slots \ {s} : call'[t] = call[t]
  BY <1>0, <1>4, ReturnIs, IdleIs
<1>5. ASSUME NEW s \in Slots, NEW at, Goto(s, at), call[s].op \notin {"none", "auto"},
             at # "idle", at = "direct" => call[s].op = "revoke"
      PROVE  CallStage(s)' /\ \A t \in Slots \ {s} : call'[t] = call[t]
  BY <1>0, <1>5, GotoIs
<1>6. ASSUME NEW s \in Slots, Register(s) \/ Write(s) \/ SaveFailed(s) \/ Revoked(s)
                              \/ CompatSaved(s) \/ Flushed(s) \/ DirectStopped(s)
      PROVE  \A t \in Slots : CallStage(t)' /\ SyncStage(t)'
  <2>1. sync' = sync
    BY <1>6 DEF Register, Write, SaveFailed, Revoked, CompatSaved, Flushed, DirectStopped
  <2>2. CallStage(s)' /\ \A t \in Slots \ {s} : call'[t] = call[t]
    <3>1. CASE Register(s)
      BY <1>4, <1>5, <3>1 DEF Register, At
    <3>2. CASE Write(s)
      <4>1. call[s].op \notin {"none", "auto"}
        BY <1>a, <3>2 DEF Write, At, Ops
      <4> QED
        BY <1>5, <3>2, <4>1 DEF Write
    <3>3. CASE SaveFailed(s)
      BY <1>4, <3>3 DEF SaveFailed
    <3>4. CASE Revoked(s)
      BY <1>4, <3>4 DEF Revoked
    <3>5. CASE CompatSaved(s)
      BY <1>4, <3>5 DEF CompatSaved
    <3>6. CASE Flushed(s)
      BY <1>4, <1>5, <3>6 DEF Flushed, At
    <3>7. CASE DirectStopped(s)
      BY <1>5, <3>7 DEF DirectStopped, At
    <3> QED
      BY <1>6, <3>1, <3>2, <3>3, <3>4, <3>5, <3>6, <3>7
  <2> QED
    BY <1>2, <2>1, <2>2
<1>7. ASSUME NEW s \in Slots, Load(s)
      PROVE  \A t \in Slots : CallStage(t)' /\ SyncStage(t)'
  <2>1. call[s].op \notin {"none", "auto"}
    BY <1>7 DEF Load, At, Ops
  <2>2. CallStage(s)' /\ \A t \in Slots \ {s} : call'[t] = call[t]
    BY <1>7, <2>1, LoadIs
  <2> QED
    BY <1>2, <1>7, <2>2 DEF Load
<1>8. ASSUME NEW s \in Slots, Rename(s)
      PROVE  \A t \in Slots : CallStage(t)' /\ SyncStage(t)'
  <2>0. sync' = sync /\ call[s].op \notin {"none", "auto"}
    BY <1>8, <1>a DEF Rename, At, Ops
  <2>1. CASE tmp = Down
    BY <1>2, <1>5, <1>8, <2>0, <2>1 DEF Rename
  <2>2. CASE tmp # Down
    <3>1. CallStage(s)'
      BY <1>0, <1>8, <2>0, <2>2, RenameIs
    <3>2. ASSUME NEW t \in Slots \ {s} PROVE CallStage(t)'
      BY <1>0, <1>8, <1>a, <2>2, RenameIs
    <3>3. \A t \in Slots : SyncStage(t)'
      BY <1>a, <2>0
    <3> QED
      BY <3>1, <3>2, <3>3
  <2> QED
    BY <2>1, <2>2
<1>9. ASSUME NEW s \in Slots, AutoLoad(s)
      PROVE  \A t \in Slots : CallStage(t)' /\ SyncStage(t)'
  <2>1. CallStage(s)' /\ \A t \in Slots \ {s} : call'[t] = call[t]
    BY <1>0, <1>9, AutoLoadIs, IdleIs
  <2> QED
    BY <1>2, <1>9, <2>1 DEF AutoLoad
<1>10. ASSUME NEW s \in Slots, Connected(s) \/ AutoStart(s) \/ CodeSaved(s)
       PROVE  \A t \in Slots : CallStage(t)' /\ SyncStage(t)'
  <2>1. CallStage(s)' /\ \A t \in Slots \ {s} : call'[t] = call[t]
    BY <1>10, <1>4 DEF Connected, AutoStart, CodeSaved
  <2>2. \A t \in Slots : SyncStage(t)'
    <3>1. sync' = sync \/ \E code, counted : SyncFrom(s, code, counted)
      BY <1>10 DEF Connected, AutoStart, CodeSaved, StartTunnel
    <3> QED
      BY <1>0, <1>a, <3>1, SyncFromIs
  <2> QED
    BY <1>a, <2>1, <2>2
<1>11. CASE TunnelEnds \/ Teardown \/ TeardownTunnel \/ TeardownDone \/ UNCHANGED vars
  <2>1. call' = call /\ sync' = sync
    BY <1>11 DEF TunnelEnds, Teardown, TeardownTunnel, TeardownDone, vars
  <2> QED
    BY <1>a, <2>1
<1> QED
  BY <1>1, <1>3, <1>6, <1>7, <1>8, <1>9, <1>10, <1>11 DEF PluginNext

\* What has once gone wrong is not forgotten.
LEMMA ExcusesStay == [PluginNext]_vars => excuse \subseteq excuse'
BY DEF PluginNext, SyncStopped, SyncListen, SyncGiveUp, SyncBound, Connect, Register,
   Load, Write, Rename, SaveFailed, Connected, AutoLoad, AutoStart, Disconnect, Flushed,
   DirectStopped, Revoked, SetCode, CodeSaved, SetCompat, CompatSaved, TunnelEnds,
   Teardown, TeardownTunnel, TeardownDone, vars, Blame, Blames

\* A call knows the file it works on.
Knows(s) ==
    /\ call[s].fresh /\ call[s].at \in {"write", "rename", "probe"}
          => /\ call[s].cfg.mode = file.mode
             /\ call[s].op # "code" => call[s].cfg.code = file.code
    /\ call[s].fresh /\ call[s].at = "finish" => file = Written(call[s])

LEMMA WrittenIs ==
    ASSUME NEW c, c.cfg \in Configs
    PROVE  /\ Written(c) \in Configs /\ Written(c).code = c.cfg.code
           /\ Written(c).mode = CASE c.op \in {"connect", "scan"} -> "join"
                                  [] c.op = "revoke" -> "lan"
                                  [] OTHER -> c.cfg.mode
BY DEF Written, Configs

LEMMA FileStep ==
    PluginTypeOK /\ Stages /\ FileKnown /\ [PluginNext]_vars => FileKnown'
<1> SUFFICES ASSUME PluginTypeOK, Stages, FileKnown, [PluginNext]_vars, "stale" \notin excuse'
    PROVE  /\ (file.mode = "join" => token)'
           /\ \A s \in Slots : Knows(s)'
           /\ \A s, t \in Slots : call'[s].op = "code" /\ call'[t].op = "code" => s = t
  BY DEF FileKnown, Knows
<1>0. /\ call \in [Slots -> PluginCall] /\ file \in Configs
      /\ \A s \in Slots : call[s] \in PluginCall /\ call[s].cfg \in Configs
      /\ tmp \in Configs \cup {Down} /\ Stages'
  <2>1. call \in [Slots -> PluginCall] /\ file \in Configs /\ tmp \in Configs \cup {Down}
    BY TypeParts DEF RestTypesOK
  <2>2. \A s \in Slots : call[s] \in PluginCall /\ call[s].cfg \in Configs
    BY <2>1 DEF PluginCall
  <2> QED
    BY <2>1, <2>2, StagesStep
<1>a. /\ file.mode = "join" => token
      /\ \A s \in Slots : Knows(s)
      /\ \A s, t \in Slots : call[s].op = "code" /\ call[t].op = "code" => s = t
  <2>1. "stale" \notin excuse
    BY ExcusesStay
  <2> QED
    BY <2>1 DEF FileKnown, Knows
<1> DEFINE FileKept == file' = file /\ (file.mode = "join" /\ token => token')
           Goal == /\ (file.mode = "join" => token)'
                   /\ \A s \in Slots : Knows(s)'
                   /\ \A s, t \in Slots : call'[s].op = "code" /\ call'[t].op = "code" => s = t
<1>1. ASSUME FileKept, call' = call PROVE Goal
  BY <1>1, <1>a DEF Knows
<1>2. ASSUME NEW s \in Slots, FileKept, \A t \in Slots \ {s} : call'[t] = call[t], Knows(s)',
             \/ call'[s].op = "code" => call[s].op = "code"
             \/ \A t \in Slots : call[t].op # "code"
      PROVE  Goal
  <2>1. \A t \in Slots : Knows(t)'
    BY <1>2, <1>a DEF Knows
  <2>2. \A t, u \in Slots : call'[t].op = "code" /\ call'[u].op = "code" => t = u
    BY <1>2, <1>a
  <2> QED
    BY <1>2, <1>a, <2>1, <2>2
<1>3. ASSUME NEW s \in Slots, FileKept, Return(s) PROVE Goal
  <2>1. Knows(s)'
    BY <1>0, <1>3, ReturnIs, IdleIs DEF Knows
  <2> QED
    BY <1>0, <1>2, <1>3, <2>1, ReturnIs, IdleIs
<1>4. ASSUME NEW s \in Slots, FileKept, NEW at, Goto(s, at),
             at \notin {"write", "rename", "probe", "finish"}
      PROVE  Goal
  <2>1. Knows(s)'
    BY <1>0, <1>4, GotoIs DEF Knows
  <2> QED
    BY <1>0, <1>2, <1>4, <2>1, GotoIs
<1>5. ASSUME NEW s \in Slots,
             SyncStopped(s) \/ SyncListen(s) \/ SyncGiveUp(s) \/ SyncBound(s)
      PROVE  Goal
  BY <1>1, <1>5 DEF SyncStopped, SyncListen, SyncGiveUp, SyncBound, disk
<1>6. ASSUME NEW s \in Slots, Connect(s) \/ Disconnect(s) \/ SetCode(s) \/ SetCompat(s)
      PROVE  Goal
  <2>1. FileKept
    <3>1. disk' = disk
      BY <1>6 DEF Connect, Disconnect, SetCode, SetCompat
    <3> QED
      BY <3>1 DEF disk
  <2>2. Knows(s)' /\ \A t \in Slots \ {s} : call'[t] = call[t]
    BY <1>0, <1>6, BeginIs DEF Knows
  <2>3. (call'[s].op = "code" => call[s].op = "code") \/ \A t \in Slots : call[t].op # "code"
    <3>1. CASE SetCode(s)
      BY <3>1 DEF SetCode, Blame
    <3>2. CASE ~SetCode(s)
      BY <1>0, <1>6, <3>2, BeginIs
    <3> QED
      BY <3>1, <3>2
  <2> QED
    BY <1>2, <2>1, <2>2, <2>3
<1>7. ASSUME NEW s \in Slots, Register(s) PROVE Goal
  BY <1>3, <1>4, <1>7 DEF Register
<1>8. ASSUME NEW s \in Slots, Load(s) PROVE Goal
  <2>1. Knows(s)' /\ call'[s].op = call[s].op /\ \A t \in Slots \ {s} : call'[t] = call[t]
    BY <1>8, LoadIs DEF Knows, Load, disk
  <2>2. FileKept
    BY <1>8 DEF Load, disk
  <2> QED
    BY <1>2, <2>1, <2>2
<1>9. ASSUME NEW s \in Slots, Write(s) PROVE Goal
  <2>1. FileKept
    BY <1>9 DEF Write
  <2>2. call'[s].op = call[s].op /\ \A t \in Slots \ {s} : call'[t] = call[t]
    BY <1>0, <1>9, GotoIs DEF Write
  <2>3. Knows(s)'
    BY <1>0, <1>9, <1>a, GotoIs DEF Write, Knows, At
  <2> QED
    BY <1>2, <2>1, <2>2, <2>3
<1>10. ASSUME NEW s \in Slots, Rename(s) PROVE Goal
  <2>1. CASE tmp = Down
    BY <1>10, <1>4, <2>1 DEF Rename
  <2>2. CASE tmp # Down
    <3>1. /\ call[s].fresh /\ tmp = Written(call[s]) /\ token' = token
          /\ call[s].op \in {"connect", "scan"} => token
      BY <1>10, <2>2 DEF Rename, Blame
    <3>2. file' = Written(call[s])
      BY <1>10, <2>2, <3>1 DEF Rename
    <3>3. (file.mode = "join" => token)'
      <4>1. call[s].at = "rename" /\ call[s].cfg.mode = file.mode
        BY <1>10, <1>a, <3>1 DEF Rename, At, Knows
      <4>2. ASSUME file'.mode = "join" PROVE token
        <5>1. Written(call[s]).mode = "join"
          BY <3>2, <4>2
        <5>2. call[s].op \in {"connect", "scan"} \/ file.mode = "join"
          BY <1>0, <4>1, <5>1, WrittenIs
        <5> QED
          BY <1>a, <3>1, <5>2
      <4> QED
        BY <3>1, <4>2
    <3>4. Written(call[s])' = Written(call[s])
      BY <1>0, <1>10, <2>2, RenameIs DEF Written
    <3>5. Knows(s)'
      <4>1. call'[s].at = "finish"
        BY <1>0, <1>10, <2>2, RenameIs
      <4> QED
        BY <3>2, <3>4, <4>1 DEF Knows
    <3>6. ASSUME NEW t \in Slots \ {s} PROVE Knows(t)'
      <4>1. call'[t].fresh => call'[t].at = "idle"
        BY <1>0, <1>10, <2>2, RenameIs, IdleIs
      <4> QED
        BY <4>1 DEF Knows
    <3>7. \A t \in Slots : call'[t].op = call[t].op
      BY <1>0, <1>10, <2>2, RenameIs
    <3> QED
      BY <1>a, <3>3, <3>5, <3>6, <3>7
  <2> QED
    BY <2>1, <2>2
<1>11. ASSUME NEW s \in Slots, Revoked(s) PROVE Goal
  <2>1. call[s].fresh /\ At(s, {"revoke"}, "finish")
    BY <1>11 DEF Revoked, Blame
  <2>2. file = Written(call[s])
    BY <1>a, <2>1 DEF Knows, At
  <2>3. file.mode = "lan"
    BY <1>0, <2>1, <2>2, WrittenIs DEF At
  <2> QED
    BY <1>3, <1>11, <2>3 DEF Revoked
<1>12. ASSUME NEW s \in Slots, AutoLoad(s) PROVE Goal
  <2>1. FileKept
    BY <1>12 DEF AutoLoad, disk
  <2>2. Knows(s)' /\ call'[s].op # "code" /\ \A t \in Slots \ {s} : call'[t] = call[t]
    BY <1>0, <1>12, <2>1, AutoLoadIs, IdleIs DEF Knows
  <2> QED
    BY <1>2, <2>1, <2>2
<1>13. ASSUME NEW s \in Slots, SaveFailed(s) \/ CompatSaved(s) \/ Connected(s)
                               \/ AutoStart(s) \/ CodeSaved(s)
       PROVE  Goal
  <2>1. disk' = disk /\ Return(s)
    BY <1>13 DEF SaveFailed, CompatSaved, Connected, AutoStart, CodeSaved
  <2>2. FileKept
    BY <2>1 DEF disk
  <2> QED
    BY <1>3, <2>1, <2>2
<1>14. ASSUME NEW s \in Slots, Flushed(s) \/ DirectStopped(s) PROVE Goal
  BY <1>14, <1>3, <1>4 DEF Flushed, DirectStopped, disk
<1>15. CASE TunnelEnds \/ Teardown \/ TeardownTunnel \/ TeardownDone \/ UNCHANGED vars
  BY <1>15, <1>1 DEF TunnelEnds, Teardown, TeardownTunnel, TeardownDone, vars, disk
<1> QED
  BY <1>5, <1>6, <1>7, <1>8, <1>9, <1>10, <1>11, <1>12, <1>13, <1>14, <1>15 DEF PluginNext

LEMMA HandledStep ==
    PluginTypeOK /\ TunnelHandled /\ [PluginNext]_vars => TunnelHandled'
<1> SUFFICES ASSUME PluginTypeOK, TunnelHandled, [PluginNext]_vars PROVE TunnelHandled'
  OBVIOUS
<1>0. excuse \subseteq excuse' /\ "no" # "flush"
  BY ExcusesStay
<1>1. ASSUME UNCHANGED <<tunnel, handle, disposed, teardown>> PROVE TunnelHandled'
  BY <1>0, <1>1 DEF TunnelHandled
<1>2. ASSUME CloseTunnel, UNCHANGED <<disposed, teardown>> PROVE TunnelHandled'
  BY <1>0, <1>2 DEF TunnelHandled, CloseTunnel
<1>3. ASSUME NEW s \in Slots, NEW cfg \in Configs, StartTunnel(s, cfg),
             UNCHANGED <<disposed, teardown>>
      PROVE  TunnelHandled'
  <2>1. cfg.code # Down
    BY PluginAssumption DEF Configs
  <2>2. CASE disposed \/ tunnel # Down
    BY <1>1, <1>3, <2>2 DEF StartTunnel, tun
  <2>3. CASE ~disposed /\ tunnel = Down
    BY <1>0, <1>3, <2>1, <2>3 DEF StartTunnel, TunnelHandled
  <2> QED
    BY <2>2, <2>3
<1>4. \A s \in Slots : call[s].cfg \in Configs /\ Written(call[s]) \in Configs
  <2>1. \A s \in Slots : call[s] \in PluginCall
    BY TypeParts
  <2> QED
    BY <2>1, WrittenType DEF PluginCall
<1>5. ASSUME NEW s \in Slots,
             \/ SyncStopped(s) \/ SyncListen(s) \/ SyncGiveUp(s) \/ SyncBound(s)
             \/ Connect(s) \/ Register(s) \/ Load(s) \/ Write(s) \/ Rename(s)
             \/ SaveFailed(s) \/ AutoLoad(s) \/ DirectStopped(s) \/ Revoked(s)
             \/ CodeSaved(s) \/ SetCompat(s) \/ CompatSaved(s)
      PROVE  TunnelHandled'
  <2>1. tun' = tun /\ down' = down
    BY <1>5 DEF SyncStopped, SyncListen, SyncGiveUp, SyncBound, Connect, Register, Load,
       Write, Rename, SaveFailed, AutoLoad, DirectStopped, Revoked, CodeSaved, SetCompat,
       CompatSaved
  <2> QED
    BY <1>1, <2>1 DEF tun, down
<1>6. ASSUME NEW s \in Slots, Connected(s) PROVE TunnelHandled'
  BY <1>3, <1>4, <1>6 DEF Connected, down
<1>7. ASSUME NEW s \in Slots, AutoStart(s) PROVE TunnelHandled'
  <2>1. CASE token
    BY <1>3, <1>4, <1>7, <2>1 DEF AutoStart, down
  <2>2. CASE ~token
    BY <1>1, <1>7, <2>2 DEF AutoStart, down, tun
  <2> QED
    BY <2>1, <2>2
<1>8. ASSUME NEW s \in Slots, Disconnect(s) PROVE TunnelHandled'
  BY <1>1, <1>2, <1>8 DEF Disconnect, down, tun
<1>9. ASSUME NEW s \in Slots, Flushed(s) PROVE TunnelHandled'
  BY <1>0, <1>9 DEF Flushed, Blame, down, TunnelHandled
<1>10. ASSUME NEW s \in Slots, SetCode(s) PROVE TunnelHandled'
  BY <1>0, <1>10, PluginAssumption DEF SetCode, down, TunnelHandled
<1>11. CASE TunnelEnds
  BY <1>2, <1>11 DEF TunnelEnds, down
<1>12. CASE Teardown
  BY <1>0, <1>12 DEF Teardown, tun, TunnelHandled
<1>13. CASE TeardownTunnel
  <2>1. teardown' = "flush" /\ disposed' = disposed /\ teardown = "direct"
    BY <1>13 DEF TeardownTunnel
  <2>2. CASE handle
    BY <1>0, <1>13, <2>1, <2>2 DEF TeardownTunnel, CloseTunnel, TunnelHandled
  <2>3. CASE ~handle
    BY <1>0, <1>13, <2>1, <2>3 DEF TeardownTunnel, tun, TunnelHandled
  <2> QED
    BY <2>2, <2>3
<1>14. CASE TeardownDone
  BY <1>0, <1>14 DEF TeardownDone, tun, TunnelHandled
<1>15. CASE UNCHANGED vars
  BY <1>1, <1>15 DEF vars, tun, down
<1> QED
  BY <1>5, <1>6, <1>7, <1>8, <1>9, <1>10, <1>11, <1>12, <1>13, <1>14, <1>15 DEF PluginNext

\* The body of ListenerKnown.
OneListener ==
    /\ \A s, t \in Slots : Active(s) /\ Active(t) => s = t
    /\ teardown = "direct" => \A s \in Slots : ~Active(s)
    /\ disposed => direct # "port"
    /\ direct = "port" => port # Down /\ applied = port
    /\ direct = "null" => applied = Down
    /\ direct = "gone" => port = Down /\ Moving
    /\ port # Down => direct = "port" \/ \E s \in Slots : sync[s].at = "bound"
    /\ \A s \in Slots :
          /\ sync[s].at = "stopping" => direct = "gone"
          /\ sync[s].at = "listen" => direct = "null" /\ port = Down
          /\ sync[s].at = "bound" =>
                /\ direct = "null"
                /\ port = [code |-> sync[s].code, counted |-> sync[s].counted]

LEMMA OneListenerIs == ListenerKnown <=> ("overlap" \notin excuse => OneListener)
BY DEF ListenerKnown, OneListener

\* A synchronisation that begins while nobody moves the listener.
LEMMA SyncFromKeeps ==
    ASSUME PluginTypeOK, OneListener, ~Moving, NEW s \in Slots, NEW code \in Codes,
           NEW counted \in BOOLEAN, SyncFrom(s, code, counted), down' = down
    PROVE  /\ OneListener'
           /\ port' # Down => port' = [code |-> code, counted |-> counted] /\ direct' = "port"
           /\ \A t \in Slots : Active(t)' => t = s /\ sync'[t].code = code
                                                  /\ sync'[t].counted = counted
           /\ direct' = "port" \/ Active(s)'
<1> DEFINE w == [code |-> code, counted |-> counted]
<1>0. /\ sync \in [Slots -> PluginSync] /\ direct \in {"null", "port", "gone"}
      /\ port \in [code : Codes, counted : BOOLEAN] \cup {Down}
      /\ \A t \in Slots : ~Active(t)
      /\ teardown # "direct" /\ direct # "gone"
  BY TypeParts DEF LanTypes, Moving, Active, OneListener
<1>1. /\ \A t \in Slots : ~Active(t) => sync[t].at \notin {"stopping", "listen", "bound"}
      /\ NoSync.at = "idle"
  BY DEF Active, NoSync
<1>2. CASE direct = "null"
  <2>1. port = Down /\ applied = Down
    BY <1>0, <1>1, <1>2 DEF OneListener
  <2>2. sync' = [sync EXCEPT ![s] = [at |-> "listen", code |-> code, counted |-> counted]]
        /\ lan' = lan
    BY <1>2 DEF SyncFrom
  <2>3. /\ sync'[s].at = "listen" /\ sync'[s].code = code /\ sync'[s].counted = counted
        /\ \A t \in Slots \ {s} : sync'[t] = sync[t]
        /\ port' = Down /\ applied' = Down /\ direct' = "null"
        /\ disposed' = disposed /\ teardown' = teardown
    BY <1>0, <1>2, <2>1, <2>2 DEF lan, down
  <2>4. \A t \in Slots : Active(t)' <=> t = s
    BY <1>0, <2>3 DEF Active
  <2>5. OneListener'
    BY <1>0, <1>1, <2>3, <2>4 DEF OneListener, Active
  <2> QED
    BY <2>3, <2>4, <2>5
<1>3. CASE direct = "port" /\ Outdated(w)
  <2>1. sync' = [sync EXCEPT ![s] = [at |-> "stopping", code |-> code, counted |-> counted]]
        /\ ClosePort
    BY <1>3 DEF SyncFrom
  <2>2. /\ sync'[s].at = "stopping" /\ sync'[s].code = code /\ sync'[s].counted = counted
        /\ \A t \in Slots \ {s} : sync'[t] = sync[t]
        /\ port' = Down /\ direct' = "gone"
        /\ disposed' = disposed /\ teardown' = teardown
    BY <1>0, <1>3, <2>1 DEF ClosePort, down
  <2>3. \A t \in Slots : Active(t)' <=> t = s
    BY <1>0, <2>2 DEF Active
  <2>4. Moving'
    BY <2>2 DEF Moving
  <2>5. OneListener'
    BY <1>0, <1>1, <2>2, <2>3, <2>4 DEF OneListener, Active
  <2> QED
    BY <2>2, <2>3, <2>5
<1>4. CASE direct = "port" /\ ~Outdated(w)
  <2>1. sync' = [sync EXCEPT ![s] = NoSync] /\ lan' = lan
    BY <1>4 DEF SyncFrom
  <2>2. port # Down /\ applied = port /\ port = w
    BY <1>4 DEF OneListener, Outdated
  <2>3. /\ sync'[s].at = "idle" /\ \A t \in Slots \ {s} : sync'[t] = sync[t]
        /\ port' = port /\ direct' = direct /\ applied' = applied
        /\ disposed' = disposed /\ teardown' = teardown
    BY <1>0, <1>1, <2>1 DEF lan, down
  <2>4. \A t \in Slots : ~Active(t)'
    BY <1>0, <2>3 DEF Active
  <2>5. OneListener'
    BY <1>0, <1>1, <1>4, <2>2, <2>3, <2>4 DEF OneListener, Active
  <2> QED
    BY <1>4, <2>2, <2>3, <2>4, <2>5
<1> QED
  BY <1>0, <1>2, <1>3, <1>4

LEMMA NoListener == Down \notin [code : Codes, counted : BOOLEAN]
BY PluginAssumption

\* A step that does not touch the listener, nor lets anybody stop moving it.
LEMMA ListenerLeft ==
    ASSUME OneListener, lan' = lan, sync' = sync, disposed' = disposed,
           teardown' = "direct" <=> teardown = "direct",
           \A t \in Slots : call[t].at = "direct" => call'[t].at = "direct"
    PROVE  OneListener'
<1>1. Moving => Moving'
  BY DEF Moving
<1> QED
  BY <1>1 DEF OneListener, Active, lan

\* A step that starts a synchronisation, unless somebody moves the listener.
LEMMA ListenerStarts ==
    ASSUME PluginTypeOK, OneListener, ~Moving, NEW s \in Slots, down' = down,
           \/ lan' = lan /\ sync' = sync
           \/ \E code \in Codes, counted \in BOOLEAN : SyncFrom(s, code, counted)
    PROVE  OneListener'
<1>1. CASE lan' = lan /\ sync' = sync
  BY <1>1, ListenerLeft DEF Moving, down
<1>2. ASSUME NEW code \in Codes, NEW counted \in BOOLEAN, SyncFrom(s, code, counted)
      PROVE  OneListener'
  BY <1>2, SyncFromKeeps
<1> QED
  BY <1>1, <1>2

LEMMA ListenerStep ==
    PluginTypeOK /\ TunnelHandled /\ Stages /\ ListenerKnown /\ [PluginNext]_vars
       => ListenerKnown'
<1> SUFFICES ASSUME PluginTypeOK, TunnelHandled, Stages, ListenerKnown, [PluginNext]_vars,
                    "overlap" \notin excuse'
             PROVE  OneListener'
  BY OneListenerIs DEF ListenerKnown, OneListener
<1>0. OneListener /\ "overlap" \notin excuse
  BY ExcusesStay, OneListenerIs
<1>a. /\ sync \in [Slots -> PluginSync] /\ direct \in {"null", "port", "gone"}
      /\ port \in [code : Codes, counted : BOOLEAN] \cup {Down}
      /\ call \in [Slots -> PluginCall]
      /\ \A s \in Slots : /\ sync[s] \in PluginSync /\ call[s].cfg.code \in Codes
                          /\ Written(call[s]).code \in Codes
      /\ meter \in BOOLEAN
  <2>1. /\ sync \in [Slots -> PluginSync] /\ call \in [Slots -> PluginCall]
        /\ direct \in {"null", "port", "gone"} /\ meter \in BOOLEAN
        /\ port \in [code : Codes, counted : BOOLEAN] \cup {Down}
    BY TypeParts DEF LanTypes, TunTypes
  <2>2. \A s \in Slots : call[s].cfg \in Configs /\ Written(call[s]) \in Configs
    BY <2>1, WrittenType DEF PluginCall
  <2> QED
    BY <2>1, <2>2 DEF Configs
<1>1. ASSUME NEW s \in Slots, SyncStopped(s) PROVE OneListener'
  <2>1. /\ sync[s].at = "stopping" /\ direct = "gone" /\ port = Down /\ Active(s)
    BY <1>0, <1>1 DEF SyncStopped, OneListener, Active
  <2>2. /\ sync'[s].at = "listen" /\ \A t \in Slots \ {s} : sync'[t] = sync[t]
        /\ direct' = "null" /\ applied' = Down /\ port' = Down
        /\ disposed' = disposed /\ teardown' = teardown
    BY <1>1, <1>a, <2>1 DEF SyncStopped, Forget, PluginSync, down
  <2>3. \A t \in Slots : Active(t)' <=> t = s
    BY <1>0, <2>1, <2>2 DEF Active, OneListener
  <2> QED
    BY <1>0, <2>1, <2>2, <2>3 DEF OneListener, Active
<1>2. ASSUME NEW s \in Slots, SyncListen(s) PROVE OneListener'
  <2>1. sync[s].at = "listen" /\ direct = "null" /\ Active(s) /\ applied = Down
    BY <1>0, <1>2 DEF SyncListen, OneListener, Active
  <2>2. /\ sync' = [sync EXCEPT ![s].at = "bound"]
        /\ port' = [code |-> sync[s].code, counted |-> sync[s].counted]
        /\ direct' = direct /\ applied' = applied
        /\ disposed' = disposed /\ teardown' = teardown
    BY <1>2 DEF SyncListen, down
  <2>3. /\ sync'[s].at = "bound" /\ sync'[s].code = sync[s].code
        /\ sync'[s].counted = sync[s].counted
        /\ \A t \in Slots \ {s} : sync'[t] = sync[t]
    BY <1>a, <2>2 DEF PluginSync
  <2>4. \A t \in Slots : Active(t)' <=> t = s
    BY <1>0, <2>1, <2>3 DEF Active, OneListener
  <2> QED
    BY <1>0, <2>1, <2>2, <2>3, <2>4 DEF OneListener, Active
<1>3. ASSUME NEW s \in Slots, SyncGiveUp(s) PROVE OneListener'
  BY <1>3 DEF SyncGiveUp, Blame
<1>4. ASSUME NEW s \in Slots, SyncBound(s) PROVE OneListener'
  <2>1. /\ sync[s].at = "bound" /\ direct = "null" /\ Active(s) /\ applied = Down
        /\ port = [code |-> sync[s].code, counted |-> sync[s].counted]
    BY <1>0, <1>4 DEF SyncBound, OneListener, Active
  <2>2. /\ sync' = [sync EXCEPT ![s] = NoSync]
        /\ disposed' = disposed /\ teardown' = teardown
    BY <1>4 DEF SyncBound, down
  <2>3. \A t \in Slots : ~Active(t)'
    BY <1>0, <1>a, <2>1, <2>2, IdleIs DEF Active, OneListener
  <2>4. \A t \in Slots : sync'[t].at = "idle"
    BY <2>3 DEF Active
  <2>5. CASE disposed
    <3>1. port' = Down /\ direct' = "null" /\ applied' = Down
      BY <1>4, <2>1, <2>5 DEF SyncBound, TooLate
    <3> QED
      BY <1>0, <2>2, <2>3, <2>4, <2>5, <3>1 DEF OneListener
  <2>6. CASE ~disposed
    <3>1. port' = port /\ direct' = "port" /\ applied' = port /\ port # Down
      <4>1. /\ port' = port /\ direct' = "port"
            /\ applied' = [code |-> sync[s].code, counted |-> sync[s].counted]
        BY <1>4, <2>6 DEF SyncBound, TooLate
      <4>2. port \in [code : Codes, counted : BOOLEAN]
        BY <1>a, <2>1 DEF PluginSync
      <4>3. port # Down
        BY <4>2, NoListener
      <4> QED
        BY <2>1, <4>1, <4>3
    <3> QED
      BY <1>0, <2>2, <2>3, <2>4, <2>6, <3>1 DEF OneListener
  <2> QED
    BY <2>5, <2>6
<1>5. ASSUME NEW s \in Slots, Connect(s) \/ Disconnect(s) \/ SetCode(s) \/ SetCompat(s)
      PROVE  OneListener'
  <2>1. lan' = lan /\ sync' = sync /\ down' = down
    BY <1>5 DEF Connect, Disconnect, SetCode, SetCompat
  <2>2. \A t \in Slots : call[t].at = "direct" => call'[t].at = "direct"
    BY <1>5, <1>a, BeginIs, IdleIs
  <2> QED
    BY <1>0, <2>1, <2>2, ListenerLeft DEF down
<1>6. ASSUME NEW s \in Slots, call[s].at # "direct", lan' = lan, sync' = sync, down' = down,
             \A t \in Slots \ {s} : call'[t].at = call[t].at
      PROVE  OneListener'
  BY <1>0, <1>6, ListenerLeft DEF down
<1>7. ASSUME NEW s \in Slots, \/ Register(s) \/ Write(s) \/ SaveFailed(s) \/ Revoked(s)
                              \/ CompatSaved(s)
      PROVE  OneListener'
  <2>1. /\ lan' = lan /\ sync' = sync /\ down' = down /\ call[s].at # "direct"
        /\ Return(s) \/ \E at : Goto(s, at)
    BY <1>7 DEF Register, Write, SaveFailed, Revoked, CompatSaved, At
  <2>2. \A t \in Slots \ {s} : call'[t] = call[t]
    BY <1>a, <2>1, ReturnIs, GotoIs
  <2> QED
    BY <1>6, <2>1, <2>2
<1>8. ASSUME NEW s \in Slots, Load(s) \/ Rename(s) \/ AutoLoad(s) PROVE OneListener'
  <2>1. lan' = lan /\ sync' = sync /\ down' = down /\ call[s].at # "direct"
    BY <1>8 DEF Load, Rename, AutoLoad, At
  <2>2. \A t \in Slots \ {s} : call'[t].at = call[t].at
    <3>1. CASE Load(s)
      BY <3>1, LoadIs
    <3>2. CASE Rename(s)
      BY <1>a, <3>2, RenameIs, GotoIs, ZenonT(30) DEF Rename
    <3>3. CASE AutoLoad(s)
      BY <1>a, <3>3, AutoLoadIs
    <3> QED
      BY <1>8, <3>1, <3>2, <3>3
  <2> QED
    BY <1>6, <2>1, <2>2
<1>9. ASSUME NEW s \in Slots, NEW cfg, cfg.code \in Codes, StartTunnel(s, cfg), Blames(s),
             down' = down
      PROVE  OneListener'
  <2>1. ~Moving
    BY <1>9 DEF Blames
  <2>2. (lan' = lan /\ sync' = sync) \/ SyncFrom(s, cfg.code, TRUE)
    BY <1>9 DEF StartTunnel
  <2> QED
    BY <1>0, <1>9, <2>1, <2>2, ListenerStarts
<1>10. ASSUME NEW s \in Slots, Connected(s) PROVE OneListener'
  BY <1>9, <1>10, <1>a DEF Connected
<1>11. ASSUME NEW s \in Slots, AutoStart(s) PROVE OneListener'
  <2>1. CASE token
    BY <1>9, <1>11, <1>a, <2>1 DEF AutoStart
  <2>2. CASE ~token
    <3>1. lan' = lan /\ sync' = sync /\ down' = down /\ call[s].at # "direct" /\ Return(s)
      BY <1>11, <2>2 DEF AutoStart, At
    <3> QED
      BY <1>6, <1>a, <3>1, ReturnIs
  <2> QED
    BY <2>1, <2>2
<1>12. ASSUME NEW s \in Slots, CodeSaved(s) PROVE OneListener'
  <2>1. ~Moving
    BY <1>12 DEF CodeSaved
  <2> QED
    BY <1>0, <1>12, <1>a, <2>1, ListenerStarts DEF CodeSaved
<1>13. ASSUME NEW s \in Slots, Flushed(s) PROVE OneListener'
  <2>1. /\ sync' = sync /\ down' = down /\ call[s].at # "direct"
        /\ Return(s) \/ \E at : Goto(s, at)
    BY <1>13 DEF Flushed, At
  <2>2. \A t \in Slots \ {s} : call'[t] = call[t]
    BY <1>a, <2>1, ReturnIs, GotoIs
  <2>3. CASE lan' = lan
    BY <1>6, <2>1, <2>2, <2>3
  <2>4. CASE ClosePort /\ Goto(s, "direct") /\ direct # "null"
    <3>1. call'[s].at = "direct"
      BY <1>a, <2>4, GotoIs
    <3>2. Moving'
      BY <3>1 DEF Moving
    <3>3. direct' = "gone" /\ port' = Down
      BY <1>0, <1>a, <2>4 DEF ClosePort, OneListener
    <3> QED
      BY <1>0, <1>a, <2>1, <2>4, <3>2, <3>3 DEF OneListener, Active, down
  <2>5. CASE Forget /\ direct = "null"
    BY <1>0, <2>3, <2>5 DEF Forget, OneListener, lan
  <2> QED
    BY <1>13, <2>3, <2>4, <2>5 DEF Flushed
<1>14. ASSUME NEW s \in Slots, DirectStopped(s) PROVE OneListener'
  <2>1. /\ \A t \in Slots : ~Active(t)
        /\ direct # "port" /\ sync' = sync /\ down' = down
        /\ direct' = "null" /\ applied' = Down /\ port' = port
    BY <1>14 DEF DirectStopped, Blame, Forget, Active
  <2>2. port = Down
    BY <1>0, <2>1 DEF OneListener, Active
  <2> QED
    BY <2>1, <2>2 DEF OneListener, Active, down
<1>15. CASE Teardown
  <2>1. ~Moving /\ sync' = sync /\ disposed' = TRUE /\ teardown' = "direct"
    BY <1>15 DEF Teardown, Blame
  <2>2. direct # "gone" /\ \A t \in Slots : ~Active(t)
    BY <1>0, <2>1 DEF OneListener, Moving, Active
  <2>3. CASE direct = "port"
    <3>1. direct' = "gone" /\ port' = Down
      BY <1>15, <2>3 DEF Teardown, ClosePort
    <3>2. Moving'
      BY <2>1 DEF Moving
    <3> QED
      BY <2>1, <2>2, <3>1, <3>2 DEF OneListener, Active
  <2>4. CASE direct = "null"
    <3>1. direct' = "null" /\ port' = Down /\ applied' = Down
      BY <1>0, <1>15, <2>2, <2>4 DEF Teardown, lan, OneListener, Active
    <3> QED
      BY <2>1, <2>2, <3>1 DEF OneListener, Active
  <2> QED
    BY <1>a, <2>2, <2>3, <2>4
<1>16. CASE TeardownTunnel
  <2>1. /\ \A t \in Slots : ~Active(t)
        /\ disposed /\ direct # "port" /\ teardown' # "direct"
    BY <1>0, <1>16 DEF TeardownTunnel, OneListener, TunnelHandled
  <2>2. port = Down
    BY <1>0, <2>1 DEF OneListener, Active
  <2>3. direct' = "null" /\ applied' = Down /\ port' = Down /\ sync' = sync
    BY <1>16, <2>2 DEF TeardownTunnel, Forget
  <2> QED
    BY <2>1, <2>3 DEF OneListener, Active
<1>17. CASE TunnelEnds \/ TeardownDone \/ UNCHANGED vars
  <2>1. /\ lan' = lan /\ sync' = sync /\ disposed' = disposed /\ call' = call
        /\ teardown' = "direct" <=> teardown = "direct"
    BY <1>17 DEF TunnelEnds, TeardownDone, vars, down
  <2> QED
    BY <1>0, <2>1, ListenerLeft
<1> QED
  BY <1>1, <1>2, <1>3, <1>4, <1>5, <1>7, <1>8, <1>10, <1>11, <1>12, <1>13, <1>14, <1>15,
     <1>16, <1>17 DEF PluginNext

\* The body of CodeKnown.
OneCode ==
    /\ tunnel # Down =>
          /\ tunnel = live /\ meter
          /\ (\A s \in Slots : call[s].op # "code") => live = file.code
          /\ \/ direct = "port" /\ port.counted
             \/ \E s \in Slots : Active(s) /\ sync[s].counted
    /\ \A s \in Slots : call[s].op = "code" /\ tunnel # Down => live = call[s].cfg.code
    /\ (\A s \in Slots : ~At(s, {"code"}, "finish")) =>
          /\ port # Down => port.code = file.code
          /\ \A s \in Slots : Active(s) => sync[s].code = file.code

LEMMA OneCodeIs == CodeKnown <=> (excuse = {} /\ ~disposed => OneCode)
BY DEF CodeKnown, OneCode

\* A step that changes neither the tunnel, nor the listener, nor the code in the
\* file, and no call about the code but that it may go on.
LEMMA CodeLeft ==
    ASSUME OneCode, lan' = lan, sync' = sync, file'.code = file.code,
           tunnel' = Down \/ tun' = tun,
           \A t \in Slots : /\ call'[t].op = "code" <=> call[t].op = "code"
                            /\ call[t].op = "code" => call'[t].cfg.code = call[t].cfg.code
                            /\ At(t, {"code"}, "finish") => At(t, {"code"}, "finish")'
    PROVE  OneCode'
<1>1. CASE tunnel' = Down
  BY <1>1 DEF OneCode, Active, lan
<1>2. CASE tun' = tun
  BY <1>2 DEF OneCode, Active, lan, tun
<1> QED
  BY <1>1, <1>2

\* The listener is taken to the code of the file, and counts if there is a tunnel.
LEMMA CodeStarts ==
    ASSUME PluginTypeOK, OneListener, ~Moving, down' = down, NEW s \in Slots,
           NEW code \in Codes, NEW counted \in BOOLEAN, SyncFrom(s, code, counted),
           \A t \in Slots : call'[t].op # "code", file'.code = code,
           tunnel' # Down => tunnel' = code /\ live' = code /\ meter' /\ counted
    PROVE  OneCode'
<1>1. /\ OneListener'
      /\ port' # Down => port' = [code |-> code, counted |-> counted] /\ direct' = "port"
      /\ \A t \in Slots : Active(t)' => t = s /\ sync'[t].code = code
                                             /\ sync'[t].counted = counted
      /\ direct' = "port" \/ Active(s)'
  BY SyncFromKeeps
<1>2. direct' = "port" => port' # Down
  BY <1>1 DEF OneListener
<1> QED
  BY <1>1, <1>2 DEF OneCode

LEMMA CodeStep ==
    PluginTypeOK /\ PluginInv /\ [PluginNext]_vars => CodeKnown'
<1> SUFFICES ASSUME PluginTypeOK, PluginInv, [PluginNext]_vars, excuse' = {}, ~disposed'
             PROVE  OneCode'
  BY OneCodeIs DEF CodeKnown, OneCode
<1>0. excuse = {} /\ ~disposed
  <2>1. disposed => disposed'
    BY DEF PluginNext, SyncStopped, SyncListen, SyncGiveUp, SyncBound, Connect, Register,
       Load, Write, Rename, SaveFailed, Connected, AutoLoad, AutoStart, Disconnect, Flushed,
       DirectStopped, Revoked, SetCode, CodeSaved, SetCompat, CompatSaved, TunnelEnds,
       Teardown, TeardownTunnel, TeardownDone, vars, down
  <2> QED
    BY <2>1, ExcusesStay
<1>a. /\ OneCode /\ OneListener /\ (tunnel # Down <=> handle) /\ teardown = "no"
      /\ \A s \in Slots : Knows(s)
      /\ \A s, t \in Slots : call[s].op = "code" /\ call[t].op = "code" => s = t
  BY <1>0, OneCodeIs, OneListenerIs DEF PluginInv, TunnelHandled, FileKnown, Knows
<1>b. /\ sync \in [Slots -> PluginSync] /\ direct \in {"null", "port", "gone"}
      /\ port \in [code : Codes, counted : BOOLEAN] \cup {Down}
      /\ call \in [Slots -> PluginCall] /\ meter \in BOOLEAN /\ file \in Configs
      /\ \A s \in Slots : /\ sync[s] \in PluginSync
                          /\ call[s].cfg \in Configs /\ call[s].cfg.code \in Codes
                          /\ Written(call[s]).code = call[s].cfg.code
  <2>1. /\ sync \in [Slots -> PluginSync] /\ direct \in {"null", "port", "gone"}
        /\ port \in [code : Codes, counted : BOOLEAN] \cup {Down}
        /\ call \in [Slots -> PluginCall] /\ meter \in BOOLEAN /\ file \in Configs
    BY TypeParts DEF LanTypes, TunTypes, RestTypesOK
  <2>2. \A s \in Slots : call[s].cfg \in Configs
    BY <2>1 DEF PluginCall
  <2>3. \A s \in Slots : call[s].cfg.code \in Codes /\ Written(call[s]).code = call[s].cfg.code
    BY <2>2, WrittenIs DEF Configs
  <2> QED
    BY <2>1, <2>2, <2>3
<1>1. ASSUME NEW s \in Slots, SyncStopped(s) PROVE OneCode'
  <2>1. sync[s].at = "stopping" /\ direct = "gone" /\ port = Down /\ Active(s)
    BY <1>1, <1>a DEF SyncStopped, OneListener, Active
  <2>2. /\ port' = Down /\ call' = call /\ tun' = tun /\ disk' = disk
        /\ sync'[s].at = "listen" /\ \A t \in Slots \ {s} : sync'[t] = sync[t]
        /\ sync'[s].code = sync[s].code /\ sync'[s].counted = sync[s].counted
    BY <1>1, <1>b, <2>1 DEF SyncStopped, Forget, PluginSync
  <2>3. \A t \in Slots : Active(t)' <=> Active(t)
    BY <2>1, <2>2 DEF Active
  <2> QED
    BY <1>a, <2>1, <2>2, <2>3 DEF OneCode, At, tun, disk
<1>2. ASSUME NEW s \in Slots, SyncListen(s) PROVE OneCode'
  <2>1. sync[s].at = "listen" /\ direct = "null" /\ Active(s)
    BY <1>2, <1>a DEF SyncListen, OneListener, Active
  <2>2. /\ call' = call /\ tun' = tun /\ disk' = disk
        /\ port' = [code |-> sync[s].code, counted |-> sync[s].counted]
        /\ sync' = [sync EXCEPT ![s].at = "bound"]
    BY <1>2 DEF SyncListen
  <2>3. /\ sync'[s].at = "bound" /\ sync'[s].code = sync[s].code
        /\ sync'[s].counted = sync[s].counted
        /\ \A t \in Slots \ {s} : sync'[t] = sync[t]
    BY <1>b, <2>2 DEF PluginSync
  <2>4. \A t \in Slots : Active(t)' <=> Active(t)
    BY <2>1, <2>3 DEF Active
  <2> QED
    BY <1>a, <2>1, <2>2, <2>3, <2>4 DEF OneCode, At, tun, disk
<1>3. ASSUME NEW s \in Slots, SyncGiveUp(s) PROVE OneCode'
  BY <1>3 DEF SyncGiveUp, Blame
<1>4. ASSUME NEW s \in Slots, SyncBound(s) PROVE OneCode'
  <2>1. /\ sync[s].at = "bound" /\ direct = "null" /\ Active(s)
        /\ port = [code |-> sync[s].code, counted |-> sync[s].counted]
        /\ \A t \in Slots : Active(t) => t = s
    BY <1>4, <1>a DEF SyncBound, OneListener, Active
  <2>2. /\ call' = call /\ tun' = tun /\ disk' = disk
        /\ sync' = [sync EXCEPT ![s] = NoSync] /\ port' = port /\ direct' = "port"
    BY <1>0, <1>4 DEF SyncBound, TooLate
  <2>3. \A t \in Slots : ~Active(t)'
    BY <1>b, <2>1, <2>2, IdleIs DEF Active
  <2>4. /\ tunnel # Down => port.counted
        /\ (\A t \in Slots : ~At(t, {"code"}, "finish")) => port.code = file.code
    BY <1>a, <2>1 DEF OneCode
  <2> QED
    BY <1>a, <2>2, <2>3, <2>4 DEF OneCode, At, tun, disk
<1>5. ASSUME NEW s \in Slots, Connect(s) \/ Disconnect(s) \/ SetCompat(s) PROVE OneCode'
  <2>1. lan' = lan /\ sync' = sync /\ disk' = disk /\ (tunnel' = Down \/ tun' = tun)
    BY <1>5 DEF Connect, Disconnect, SetCompat, CloseTunnel
  <2>2. call'[s].op # "code" /\ call[s].op # "code" /\ \A t \in Slots \ {s} : call'[t] = call[t]
    <3>1. call[s] = Idle /\ \A t \in Slots \ {s} : call'[t] = call[t]
      BY <1>5, <1>b, BeginIs
    <3>2. call'[s].op # "code"
      <4>1. CASE Connect(s)
        <5>1. PICK o \in {"connect", "scan"} :
                call' = [call EXCEPT ![s] = [Idle EXCEPT !.op = o, !.at = "register"]]
          BY <4>1 DEF Connect
        <5> QED
          BY <1>b, <5>1 DEF Idle
      <4>2. CASE Disconnect(s)
        <5>1. PICK o \in {"disconnect", "revoke"} :
                call' = [call EXCEPT ![s] = [Idle EXCEPT !.op = o, !.at = "flush"]]
          BY <4>2 DEF Disconnect
        <5> QED
          BY <1>b, <5>1 DEF Idle
      <4>3. CASE SetCompat(s)
        BY <1>b, <4>3 DEF SetCompat, Idle
      <4> QED
        BY <1>5, <4>1, <4>2, <4>3
    <3> QED
      BY <3>1, <3>2, IdleIs
  <2>3. file'.code = file.code
    BY <2>1 DEF disk
  <2>4. ASSUME NEW t \in Slots
        PROVE  /\ call'[t].op = "code" <=> call[t].op = "code"
               /\ call[t].op = "code" => call'[t].cfg.code = call[t].cfg.code
               /\ At(t, {"code"}, "finish") => At(t, {"code"}, "finish")'
    BY <2>2 DEF At
  <2> QED
    BY <1>a, <2>1, <2>3, <2>4, CodeLeft
<1>6. ASSUME NEW s \in Slots, SetCode(s) PROVE OneCode'
  <2>1. PICK code \in Codes :
          /\ live' = code /\ tunnel' = IF handle THEN code ELSE tunnel
          /\ call'[s].op = "code" /\ call'[s].at = "load" /\ call'[s].cfg.code = code
    BY <1>6, <1>b, SetCodeIs
  <2>2. /\ \A t \in Slots : call[t].op # "code"
        /\ lan' = lan /\ sync' = sync /\ disk' = disk /\ meter' = meter
    BY <1>6 DEF SetCode, Blame
  <2>3. \A t \in Slots \ {s} : call'[t] = call[t]
    BY <1>6, <1>b, BeginIs
  <2>4. \A t \in Slots : t # s => call'[t].op # "code"
    BY <2>2, <2>3
  <2>5. /\ tunnel' # Down => tunnel # Down /\ tunnel' = live'
        /\ \A t \in Slots : ~At(t, {"code"}, "finish")
    BY <1>a, <2>1, <2>2 DEF At
  <2> QED
    BY <1>a, <2>1, <2>2, <2>4, <2>5 DEF OneCode, Active, lan, disk
<1>7. ASSUME NEW s \in Slots, lan' = lan, sync' = sync, tun' = tun, file'.code = file.code,
             \A t \in Slots \ {s} : call'[t].op = call[t].op /\ call'[t].cfg = call[t].cfg
                                    /\ call'[t].at = call[t].at,
             call'[s].op = "code" <=> call[s].op = "code",
             call[s].op = "code" => call'[s].cfg.code = call[s].cfg.code /\ call[s].at # "finish"
      PROVE  OneCode'
  <2>1. ASSUME NEW t \in Slots
        PROVE  /\ call'[t].op = "code" <=> call[t].op = "code"
               /\ call[t].op = "code" => call'[t].cfg.code = call[t].cfg.code
               /\ At(t, {"code"}, "finish") => At(t, {"code"}, "finish")'
    BY <1>7 DEF At
  <2> QED
    BY <1>7, <1>a, <2>1, CodeLeft
<1>8. ASSUME NEW s \in Slots, lan' = lan, sync' = sync, tun' = tun, disk' = disk,
             call[s].op # "code", Return(s) \/ \E at : Goto(s, at)
      PROVE  OneCode'
  <2>1. call'[s].op # "code" /\ \A t \in Slots \ {s} : call'[t] = call[t]
    BY <1>8, <1>b, ReturnIs, GotoIs, IdleIs
  <2> QED
    BY <1>7, <1>8, <2>1 DEF disk
<1>9. ASSUME NEW s \in Slots, Register(s) \/ Revoked(s) \/ CompatSaved(s) PROVE OneCode'
  <2>1. /\ lan' = lan /\ sync' = sync /\ tun' = tun /\ file' = file /\ call[s].op # "code"
        /\ Return(s) \/ \E at : Goto(s, at)
    BY <1>9 DEF Register, Revoked, CompatSaved, At, disk
  <2>2. call'[s].op # "code" /\ \A t \in Slots \ {s} : call'[t] = call[t]
    BY <1>b, <2>1, ReturnIs, GotoIs, IdleIs
  <2> QED
    BY <1>7, <2>1, <2>2
<1>10. ASSUME NEW s \in Slots, Load(s) PROVE OneCode'
  <2>1. lan' = lan /\ sync' = sync /\ tun' = tun /\ disk' = disk /\ call[s].at = "load"
    BY <1>10 DEF Load, At
  <2> QED
    BY <1>7, <1>10, <2>1, LoadIs DEF disk
<1>11. ASSUME NEW s \in Slots, Write(s) PROVE OneCode'
  <2>1. lan' = lan /\ sync' = sync /\ tun' = tun /\ file' = file /\ call[s].at = "write"
    BY <1>11 DEF Write, At
  <2> QED
    BY <1>7, <1>11, <1>b, <2>1, GotoIs DEF Write
<1>12. ASSUME NEW s \in Slots, Rename(s) PROVE OneCode'
  <2>1. lan' = lan /\ sync' = sync /\ tun' = tun /\ call[s].at = "rename"
    BY <1>12 DEF Rename, At
  <2>2. CASE tmp = Down
    BY <1>7, <1>12, <1>b, <2>1, <2>2, GotoIs DEF Rename
  <2>3. CASE tmp # Down
    <3>1. call[s].fresh /\ file' = Written(call[s])
      BY <1>12, <2>3 DEF Rename, Blame
    <3>2. /\ \A t \in Slots : call'[t].op = call[t].op /\ call'[t].cfg = call[t].cfg
          /\ call'[s].at = "finish"
          /\ \A t \in Slots \ {s} : call'[t].at = call[t].at
      BY <1>12, <1>b, <2>3, RenameIs
    <3>3. CASE call[s].op # "code"
      <4>1. file'.code = file.code
        BY <1>a, <1>b, <2>1, <3>1, <3>3 DEF Knows
      <4> QED
        BY <1>7, <2>1, <3>2, <3>3, <4>1
    <3>4. CASE call[s].op = "code"
      <4>1. At(s, {"code"}, "finish")'
        BY <3>2, <3>4 DEF At
      <4> QED
        BY <1>a, <2>1, <3>2, <3>4, <4>1 DEF OneCode, Active, lan, tun
    <3> QED
      BY <3>3, <3>4
  <2> QED
    BY <2>2, <2>3
<1>13. ASSUME NEW s \in Slots, SaveFailed(s) PROVE OneCode'
  BY <1>13 DEF SaveFailed, Blame
<1>14. ASSUME NEW s \in Slots, NEW cfg, cfg.code = file.code, StartTunnel(s, cfg), Blames(s),
              Return(s), down' = down, disk' = disk
       PROVE  OneCode'
  <2>1. ~Moving /\ tunnel = Down /\ \A t \in Slots : call[t].op # "code"
    BY <1>14 DEF Blames
  <2>2. live' = cfg.code /\ meter' = TRUE /\ tunnel' = cfg.code /\ SyncFrom(s, cfg.code, TRUE)
    BY <1>0, <1>14, <2>1 DEF StartTunnel
  <2>3. \A t \in Slots : call'[t].op # "code"
    BY <1>14, <1>b, <2>1, ReturnIs, IdleIs
  <2>4. file'.code = cfg.code /\ cfg.code \in Codes
    BY <1>14, <1>b DEF disk, Configs
  <2> QED
    BY <1>14, <1>a, <2>1, <2>2, <2>3, <2>4, CodeStarts
<1>15. ASSUME NEW s \in Slots, Connected(s) PROVE OneCode'
  <2>1. call[s].fresh /\ call[s].at = "finish"
    BY <1>15 DEF Connected, Blames, At
  <2>2. Written(call[s]).code = file.code
    BY <1>a, <2>1 DEF Knows
  <2> QED
    BY <1>14, <1>15, <2>2 DEF Connected
<1>16. ASSUME NEW s \in Slots, AutoStart(s) PROVE OneCode'
  <2>0. call[s].op = "auto" /\ call[s].at = "probe"
    BY <1>16 DEF AutoStart, At
  <2>1. CASE token
    <3>1. call[s].fresh
      BY <1>16, <2>1 DEF AutoStart, Blames
    <3>2. call[s].cfg.code = file.code
      BY <1>a, <2>0, <3>1 DEF Knows
    <3> QED
      BY <1>14, <1>16, <2>1, <3>2 DEF AutoStart
  <2>2. CASE ~token
    BY <1>8, <1>16, <2>0, <2>2 DEF AutoStart
  <2> QED
    BY <2>1, <2>2
<1>17. ASSUME NEW s \in Slots, AutoLoad(s) PROVE OneCode'
  <2>1. lan' = lan /\ sync' = sync /\ tun' = tun /\ disk' = disk
    BY <1>17 DEF AutoLoad
  <2>2. call[s].op # "code" /\ call'[s].op # "code" /\ \A t \in Slots \ {s} : call'[t] = call[t]
    BY <1>17, <1>b, AutoLoadIs, IdleIs
  <2> QED
    BY <1>7, <2>1, <2>2 DEF disk
<1>18. ASSUME NEW s \in Slots, Flushed(s) \/ DirectStopped(s) PROVE OneCode'
  <2>1. /\ tunnel' = Down /\ sync' = sync /\ disk' = disk /\ call[s].op # "code"
        /\ port' = port \/ port' = Down
        /\ Return(s) \/ \E at : Goto(s, at)
    <3>1. CASE Flushed(s)
      <4>1. tunnel = Down
        BY <1>a, <3>1 DEF Flushed, Blame
      <4> QED
        BY <3>1, <4>1 DEF Flushed, ClosePort, Forget, At, lan
    <3>2. CASE DirectStopped(s)
      BY <3>2 DEF DirectStopped, Blame, Forget, At, tun
    <3> QED
      BY <1>18, <3>1, <3>2
  <2>2. call'[s].op # "code" /\ \A t \in Slots \ {s} : call'[t] = call[t]
    BY <1>b, <2>1, ReturnIs, GotoIs, IdleIs
  <2>3. \A t \in Slots : At(t, {"code"}, "finish") => At(t, {"code"}, "finish")'
    BY <2>1, <2>2 DEF At
  <2> QED
    BY <1>a, <2>1, <2>3 DEF OneCode, Active, disk
<1>19. ASSUME NEW s \in Slots, CodeSaved(s) PROVE OneCode'
  <2>1. /\ call[s].op = "code" /\ call[s].at = "finish" /\ call[s].fresh /\ ~Moving
        /\ SyncFrom(s, call[s].cfg.code, meter) /\ tun' = tun /\ disk' = disk
        /\ down' = down /\ Return(s)
    BY <1>19 DEF CodeSaved, At
  <2>2. file.code = call[s].cfg.code
    BY <1>a, <1>b, <2>1 DEF Knows
  <2>3. \A t \in Slots : call'[t].op # "code"
    BY <1>a, <1>b, <2>1, ReturnIs, IdleIs
  <2>4. tunnel # Down => tunnel = call[s].cfg.code /\ live = call[s].cfg.code /\ meter
    BY <1>a, <2>1 DEF OneCode
  <2>5. file'.code = call[s].cfg.code
    BY <2>1, <2>2 DEF disk
  <2>6. tunnel' # Down => /\ tunnel' = call[s].cfg.code /\ live' = call[s].cfg.code
                          /\ meter' /\ meter
    BY <2>1, <2>4 DEF tun
  <2> QED
    BY <1>a, <1>b, <2>1, <2>3, <2>5, <2>6, CodeStarts
<1>20. CASE TunnelEnds
  <2>1. tunnel' = Down /\ lan' = lan /\ sync' = sync /\ disk' = disk /\ call' = call
    BY <1>20 DEF TunnelEnds, CloseTunnel
  <2> QED
    BY <1>a, <2>1, CodeLeft DEF disk, At
<1>21. CASE Teardown \/ TeardownTunnel \/ TeardownDone
  BY <1>21, <1>a DEF Teardown, TeardownTunnel, TeardownDone
<1>22. CASE UNCHANGED vars
  BY <1>22, <1>a, CodeLeft DEF vars, disk, At
<1> QED
  BY <1>1, <1>2, <1>3, <1>4, <1>5, <1>6, <1>9, <1>10, <1>11, <1>12, <1>13, <1>15, <1>16,
     <1>17, <1>18, <1>19, <1>20, <1>21, <1>22 DEF PluginNext

LEMMA PluginInvInit == PluginInit => PluginInv
<1> SUFFICES ASSUME PluginInit PROVE PluginInv
  OBVIOUS
<1>1. PICK auto \in Slots :
         call = [s \in Slots |-> IF s = auto THEN [Idle EXCEPT !.op = "auto", !.at = "load"]
                                 ELSE Idle]
  BY DEF PluginInit
<1>2. \A s \in Slots : \/ call[s] = Idle
                       \/ call[s].op = "auto" /\ call[s].at = "load"
  BY <1>1 DEF Idle
<1>3. \A s \in Slots : sync[s] = NoSync
  BY DEF PluginInit
<1>4. Stages
  BY <1>2, <1>3, IdleIs DEF Stages
<1>5. FileKnown
  <2>1. \A s \in Slots : /\ call[s].at \notin {"write", "rename", "probe", "finish"}
                         /\ call[s].op # "code"
    BY <1>2, IdleIs
  <2> QED
    BY <2>1 DEF FileKnown, PluginInit
<1>6. TunnelHandled
  BY DEF TunnelHandled, PluginInit
<1>7. ListenerKnown
  <2>1. \A s \in Slots : sync[s].at = "idle"
    BY <1>3, IdleIs
  <2> QED
    BY <2>1 DEF ListenerKnown, Active, PluginInit
<1>8. CodeKnown
  <2>1. \A s \in Slots : ~Active(s) /\ call[s].op # "code"
    BY <1>2, <1>3, IdleIs DEF Active
  <2>2. tunnel = Down /\ port = Down
    BY DEF PluginInit
  <2> QED
    BY <2>1, <2>2 DEF CodeKnown
<1> QED
  BY <1>4, <1>5, <1>6, <1>7, <1>8 DEF PluginInv

LEMMA InvSettles == PluginTypeOK /\ PluginInv => CallsSettle
<1> SUFFICES ASSUME PluginTypeOK, PluginInv PROVE CallsSettle
  OBVIOUS
<1>1. Quiet => \A s \in Slots : ~Active(s) /\ call[s].op = "none" /\ call[s].at = "idle"
  BY IdleIs DEF Quiet, Active
<1>2. "overlap" \notin excuse => OneListener
  BY OneListenerIs DEF PluginInv
<1>3. Quiet /\ "overlap" \notin excuse /\ teardown # "direct" /\ port # Down => direct = "port"
  BY <1>1, <1>2 DEF OneListener, Active
<1>4. TornDown
  <2> SUFFICES ASSUME teardown = "done", Quiet, excuse \cap {"overlap", "lost"} = {}
               PROVE  tunnel = Down /\ port = Down
    BY DEF TornDown
  <2>1. tunnel = Down /\ disposed
    BY DEF PluginInv, TunnelHandled
  <2>2. direct # "port"
    BY <1>2, <2>1 DEF OneListener
  <2> QED
    BY <1>3, <2>1, <2>2
<1>5. NoDeadState
  BY DEF NoDeadState, PluginInv, FileKnown
<1>6. CodeApplied
  <2> SUFFICES ASSUME Quiet, excuse = {}, ~disposed
               PROVE  /\ tunnel # Down => /\ tunnel = file.code /\ live = file.code
                                          /\ port # Down /\ port.counted
                      /\ port # Down => port.code = file.code
    BY DEF CodeApplied
  <2>1. OneCode
    BY OneCodeIs DEF PluginInv
  <2>2. /\ \A s \in Slots : ~At(s, {"code"}, "finish") /\ call[s].op # "code"
        /\ \A s \in Slots : ~Active(s)
    BY <1>1 DEF At
  <2>3. direct = "port" => port # Down
    BY <1>2 DEF OneListener
  <2> QED
    BY <2>1, <2>2, <2>3 DEF OneCode
<1> QED
  BY <1>4, <1>5, <1>6 DEF CallsSettle, NothingHalfDone

\* Whatever number of calls of the panel overlap, in whatever order their steps
\* fall, and whenever the tunnel ends or the plugin is unloaded: outside the three
\* recorded situations nothing is left half done and the code set last is in force
\* everywhere.
THEOREM CallsSettleRight == PluginSpec => []CallsSettle
<1>1. PluginInit => PluginTypeOK /\ PluginInv
  BY PluginTypeInit, PluginInvInit
<1>2. PluginTypeOK /\ PluginInv /\ [PluginNext]_vars => (PluginTypeOK /\ PluginInv)'
  BY PluginTypeStep, StagesStep, FileStep, HandledStep, ListenerStep, CodeStep DEF PluginInv
<1>3. PluginTypeOK /\ PluginInv => CallsSettle
  BY InvSettles
<1> QED
  BY <1>1, <1>2, <1>3, PTL DEF PluginSpec
=============================================================================
