------------------------------- MODULE Frames -------------------------------
(***************************************************************************)
(* The frames of the tunnel (packages/tunnel/src/frame.ts) and of the      *)
(* channel inside it (packages/portal/src/e2ee-frame.ts and its copy in    *)
(* the page script): encoding, and the parser that finds the frames again  *)
(* in whatever pieces their bytes arrive, at the ends that use it.         *)
(*                                                                         *)
(* A header has one cell each here for the magic, the version, what the    *)
(* frame is (flags, type and stream) and its length.                       *)
(***************************************************************************)
EXTENDS Integers, Sequences

CONSTANTS Marks,       \* what a frame is
          Cells,       \* cells of a payload
          MaxPayload,  \* MAX_PAYLOAD_LENGTH
          MaxFrames,   \* bound: frames a peer sends on a connection
          MaxBad,      \* bound: of them, frames the format does not allow
          MaxLinks     \* bound: connections

ASSUME FramesAssumption == {MaxPayload, MaxFrames, MaxBad, MaxLinks} \subseteq Nat

Magic == 82
Version == 1
HeaderLen == 4

(***************************************************************************)
(* The ends.  strict: the parser looks at the version and the length       *)
(* (frame.ts); shared: one parser serves every connection (startJoin);     *)
(* deaf: an error ends nothing (the page's onmessage).                     *)
(***************************************************************************)
HubEnd     == [strict |-> TRUE,  shared |-> FALSE, deaf |-> FALSE]
GatewayEnd == [strict |-> TRUE,  shared |-> TRUE,  deaf |-> FALSE]
InnerEnd   == [strict |-> TRUE,  shared |-> FALSE, deaf |-> FALSE]
PageEnd    == [strict |-> FALSE, shared |-> FALSE, deaf |-> TRUE]

VARIABLES end,      \* which end parses
          wire,     \* bytes sent that have not arrived
          buffer,   \* bytes the parser keeps
          sent,     \* frames sent on this connection
          got,      \* frames the end has handled
          up,       \* the connection is open
          inherited,\* bytes of an earlier connection were in the buffer at its start
          bad, links

frameVars == <<end, wire, buffer, sent, got, up, inherited, bad, links>>

(***************************************************************************)
(* encodeFrame, and the ways in which bytes are not a frame                *)
(***************************************************************************)
Payloads == UNION {[1..n -> Cells] : n \in 0..MaxPayload}
Encode(f) == <<f.magic, f.version, f.mark, f.length>> \o f.payload

Good(m, p) == [magic |-> Magic, version |-> Version, mark |-> m, length |-> Len(p), payload |-> p]
BadFrames(m) == {[Good(m, <<>>) EXCEPT !.magic = Magic + 1], [Good(m, <<>>) EXCEPT !.version = Version + 1],
                 Good(m, [k \in 1..(MaxPayload + 1) |-> m])}

\* parseHeader, and the bound of the length.
Refused(b) ==
    \/ b[1] # Magic
    \/ end.strict /\ (b[2] # Version \/ b[4] > MaxPayload)

(***************************************************************************)
(* FrameParser.push: frames until the buffer holds no whole one.  An error *)
(* gives up the frames of this call; the buffer keeps what it holds.       *)
(***************************************************************************)
\* (a frame that ends with the buffer is taken for half of one)
WholeAndMore(b) == Len(b) > HeaderLen + b[4]

Whole(b) == Len(b) >= HeaderLen + b[4]

Parsed[b \in Seq(Nat)] ==
    IF Len(b) < HeaderLen THEN [frames |-> <<>>, rest |-> b, error |-> FALSE]
    ELSE IF Refused(b) THEN [frames |-> <<>>, rest |-> b, error |-> TRUE]
    ELSE IF ~Whole(b) THEN [frames |-> <<>>, rest |-> b, error |-> FALSE]
    ELSE LET n == HeaderLen + b[4]
             f == [magic |-> b[1], version |-> b[2], mark |-> b[3], length |-> b[4],
                   payload |-> SubSeq(b, HeaderLen + 1, n)]
             r == Parsed[SubSeq(b, n + 1, Len(b))]
         IN [r EXCEPT !.frames = <<f>> \o @]

FramesInit ==
    /\ end \in {HubEnd, GatewayEnd, InnerEnd, PageEnd}
    /\ wire = <<>> /\ buffer = <<>> /\ sent = <<>> /\ got = <<>>
    /\ up = TRUE /\ inherited = FALSE /\ bad = 0 /\ links = 1

SendFrame ==
    /\ up /\ Len(sent) < MaxFrames
    /\ \E m \in Marks :
         \/ /\ \E p \in Payloads : sent' = Append(sent, Good(m, p))
            /\ bad' = bad
         \/ /\ bad < MaxBad /\ bad' = bad + 1
            /\ \E f \in BadFrames(m) : sent' = Append(sent, f)
    /\ wire' = wire \o Encode(sent'[Len(sent')])
    /\ UNCHANGED <<end, buffer, got, up, inherited, links>>

\* The next n bytes arrive together.  An error ends the connection, except in
\* the page; the frames before it are handled in their order.
Arrive(n) ==
    /\ up /\ n \in 1..Len(wire)
    /\ wire' = SubSeq(wire, n + 1, Len(wire))
    /\ LET r == Parsed[buffer \o SubSeq(wire, 1, n)] IN
         /\ buffer' = r.rest
         /\ got' = IF r.error THEN got ELSE got \o r.frames
         /\ up' = (~r.error \/ end.deaf)
    /\ UNCHANGED <<end, sent, inherited, bad, links>>

LinkLost ==
    /\ up /\ up' = FALSE
    /\ UNCHANGED <<end, wire, buffer, sent, got, inherited, bad, links>>

\* A new tunnel, stream or channel; only the gateway's client takes its
\* parser with it.
Reconnect ==
    /\ ~up /\ links < MaxLinks
    /\ links' = links + 1
    /\ wire' = <<>> /\ sent' = <<>> /\ got' = <<>> /\ up' = TRUE
    /\ buffer' = IF end.shared THEN buffer ELSE <<>>
    /\ inherited' = (buffer' # <<>>)
    /\ UNCHANGED <<end, bad>>

FramesNext == SendFrame \/ (\E n \in 1..Len(wire) : Arrive(n)) \/ LinkLost \/ Reconnect

FramesSpec == FramesInit /\ [][FramesNext]_frameVars

(***************************************************************************)
(* Properties                                                              *)
(***************************************************************************)
FramesTypeOK ==
    /\ wire \in Seq(Nat) /\ buffer \in Seq(Nat)
    /\ up \in BOOLEAN /\ inherited \in BOOLEAN
    /\ bad \in 0..MaxBad /\ links \in 1..MaxLinks

Allowed(f) == f.magic = Magic /\ (end.strict => f.version = Version /\ f.length <= MaxPayload)

\* However the bytes of a connection are cut into pieces, an end handles the
\* frames that were sent, in their order, each as it was, none that the format
\* forbids and none after one; and when all bytes have come and nothing was
\* wrong it has handled them all (FrameParser, onMessage of the hub and the
\* gateway).  The exception is the gateway: what its parser kept of an earlier
\* connection, half a frame or a wrong one, spoils the next.
FramesArrive ==
    ~inherited =>
      /\ Len(got) <= Len(sent)
      /\ \A i \in 1..Len(got) : got[i] = sent[i] /\ Allowed(sent[i])
      /\ wire = <<>> /\ up /\ (\A i \in 1..Len(sent) : Allowed(sent[i])) => Len(got) = Len(sent)
=============================================================================
