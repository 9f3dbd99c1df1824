---------------------------- MODULE TunnelProofs ----------------------------
(***************************************************************************)
(* Proofs about Tunnel, for every set of gateways, slots and revocation    *)
(* paths and every budget of faults.                                       *)
(***************************************************************************)
EXTENDS Tunnel, TLAPS

-----------------------------------------------------------------------------
(* The slots                                                               *)

\* What the handlers may write into a slot leaves it a slot.
LEMMA SlotFields ==
    ASSUME NEW r \in ConnRec
    PROVE  /\ \A x \in GwEnds : [r EXCEPT !.ga = x] \in ConnRec
           /\ \A x \in HubEnds : [r EXCEPT !.ha = x] \in ConnRec
           /\ \A x \in HubEnds, y \in Responses :
                [r EXCEPT !.ha = x, !.resp = y] \in ConnRec
           /\ \A x \in HubEnds, y \in BOOLEAN :
                [r EXCEPT !.node = y, !.ha = x] \in ConnRec
           /\ \A x \in GwEnds, y \in {"none", "hub", "transient"} :
                [r EXCEPT !.ga = x, !.rej = y] \in ConnRec
           /\ [r EXCEPT !.up = FALSE] \in ConnRec
BY DEF ConnRec

LEMMA SlotUpdate ==
    ASSUME NEW f \in [Conns -> ConnRec], NEW c \in Conns, NEW r \in ConnRec
    PROVE  [f EXCEPT ![c] = r] \in [Conns -> ConnRec]
OBVIOUS

LEMMA FreeConnType == FreeConn \in ConnRec
BY DEF FreeConn, ConnRec, GwEnds, HubEnds, Responses

\* A freshly dialled slot.
LEMMA DialType ==
    ASSUME TypeOK, NEW g \in Gateways, NEW c \in Conns, Dial(g, c)
    PROVE  /\ conn' \in [Conns -> ConnRec]
           /\ cur' \in [Gateways -> Conns \cup {None}]
           /\ redir' \in [Gateways -> BOOLEAN]
           /\ gs' \in [Gateways -> GwStates]
<1> DEFINE r == [FreeConn EXCEPT !.via = IF redir[g] THEN "node" ELSE "hub",
                                 !.ga = "connecting", !.ha = "none"]
<1>1. r \in ConnRec
  BY DEF FreeConn, ConnRec, GwEnds, HubEnds, Responses
<1>2. conn' = [conn EXCEPT ![c] = r]
  BY DEF Dial
<1>3. conn' \in [Conns -> ConnRec]
  BY <1>1, <1>2, SlotUpdate DEF TypeOK
<1>4. cur' \in [Gateways -> Conns \cup {None}]
  BY DEF Dial, TypeOK
<1>5. redir' \in [Gateways -> BOOLEAN]
  BY DEF Dial, TypeOK
<1>6. gs' \in [Gateways -> GwStates]
  BY DEF Dial, TypeOK, GwStates, ActiveStates
<1> QED
  BY <1>3, <1>4, <1>5, <1>6

LEMMA TerminatedType ==
    ASSUME conn \in [Conns -> ConnRec]
    PROVE  Terminated \in [Conns -> ConnRec]
BY SlotFields DEF Terminated, HubEnds

LEMMA RegisterType ==
    ASSUME TypeOK, NEW c \in Conns, Register(c)
    PROVE  conn' \in [Conns -> ConnRec] /\ registry' \in Conns \cup {None}
BY SlotFields DEF Register, TypeOK, HubEnds, Responses

LEMMA DropClientType ==
    ASSUME TypeOK, NEW g \in Gateways, DropClient(g)
    PROVE  /\ conn' \in [Conns -> ConnRec]
           /\ cur' \in [Gateways -> Conns \cup {None}]
BY SlotFields DEF DropClient, TypeOK, GwEnds

LEMMA FaultType ==
    ASSUME TypeOK, Fault
    PROVE  faults' \in 0..MaxFaults
BY TunnelAssumption DEF Fault, TypeOK

LEMMA OnCloseType ==
    ASSUME TypeOK, NEW c \in Conns, OnClose(c)
    PROVE  /\ registry' \in Conns \cup {None}
           /\ event' \in {"host.online", "host.offline"}
BY DEF OnClose, Unregister, TypeOK

-----------------------------------------------------------------------------
\* Every variable keeps its type, whatever the handlers write into the slots:
\* the raw status of a refused handshake never reaches rejectSource.
THEOREM TypeCorrect == Spec => []TypeOK
<1>1. Init => TypeOK
  <2> SUFFICES ASSUME Init PROVE TypeOK
    OBVIOUS
  <2>1. conn \in [Conns -> ConnRec]
    BY FreeConnType DEF Init
  <2>2. nodeAlive \in BOOLEAN /\ nodeOn \in BOOLEAN
    BY TunnelAssumption, Zenon DEF Init, TunnelAssumption
  <2>3. faults \in 0..MaxFaults
    BY TunnelAssumption DEF Init
  <2> QED
    BY <2>1, <2>2, <2>3 DEF Init, TypeOK, GwStates
<1>2. TypeOK /\ [Next]_vars => TypeOK'
  <2> SUFFICES ASSUME TypeOK, [Next]_vars PROVE TypeOK'
    OBVIOUS
  <2> USE SlotFields, SlotUpdate
      DEF TypeOK, GwStates, ActiveStates, ShutStates, GwEnds, HubEnds, Responses,
          hubVars, nodeVars
  <2>1. ASSUME NEW g \in Gateways, GatewayStep(g) PROVE TypeOK'
    <3>1. CASE Reconnect(g)
      BY <3>1, DialType DEF Reconnect
    <3>2. ASSUME NEW c \in Conns, GwOpen(g, c) PROVE TypeOK'
      BY <3>2 DEF GwOpen
    <3>3. ASSUME NEW c \in Conns, GwUnexpected(g, c) PROVE TypeOK'
      BY <3>3, ZenonT(30) DEF GwUnexpected, RejectSource
    <3>4. ASSUME NEW c \in Conns, GwDeadline(g, c) PROVE TypeOK'
      BY <3>4 DEF GwDeadline
    <3>5. ASSUME NEW c \in Conns, GwClose(g, c) PROVE TypeOK'
      BY <3>5 DEF GwClose, AfterClose, Released
    <3> QED
      BY <2>1, <3>1, <3>2, <3>3, <3>4, <3>5 DEF GatewayStep
  <2>2. ASSUME NEW g \in Gateways, Operator(g) PROVE TypeOK'
    <3>1. CASE Start(g)
      BY <3>1, DialType DEF Start
    <3>2. CASE Stop(g)
      BY <3>2, DropClientType, FaultType DEF Stop, Released
    <3>3. CASE Crash(g)
      BY <3>3, DropClientType, FaultType DEF Crash
    <3>4. CASE Restart(g)
      BY <3>4 DEF Restart
    <3>5. CASE ForceUnlock(g)
      BY <3>5, FaultType DEF ForceUnlock
    <3>6. ASSUME NEW c \in Conns, GwRedirectFrame(g, c) PROVE TypeOK'
      BY <3>6, FaultType, ZenonT(30) DEF GwRedirectFrame
    <3> QED
      BY <2>2, <3>1, <3>2, <3>3, <3>4, <3>5, <3>6 DEF Operator
  <2>3. ASSUME NEW c \in Conns, HubStep(c) PROVE TypeOK'
    <3>1. CASE HubLookup(c)
      BY <3>1 DEF HubLookup
    <3>2. CASE HubAssign(c)
      <4>1. CASE nodeOn
        <5>1. [conn[c] EXCEPT !.ha = "closed", !.resp = "307"] \in ConnRec
          OBVIOUS
        <5>2. conn' \in [Conns -> ConnRec]
          BY <3>2, <4>1, <5>1 DEF HubAssign
        <5> QED
          BY <3>2, <4>1, <5>2 DEF HubAssign
      <4>2. CASE ~nodeOn
        <5> DEFINE next == IF conn[c].node THEN "clear" ELSE "upgrade"
        <5>1. [conn[c] EXCEPT !.ha = next] \in ConnRec
          OBVIOUS
        <5>2. conn' = [conn EXCEPT ![c] = [conn[c] EXCEPT !.ha = next]]
          BY <3>2, <4>2 DEF HubAssign
        <5>3. conn' \in [Conns -> ConnRec]
          BY <5>1, <5>2
        <5> QED
          BY <3>2, <4>2, <5>3 DEF HubAssign
      <4> QED
        BY <4>1, <4>2
    <3>3. CASE HubClearNode(c)
      BY <3>3 DEF HubClearNode
    <3>4. CASE HubUpgrade(c)
      <4>1. CASE Register(c) /\ event' = "host.online"
        <5>1. conn' \in [Conns -> ConnRec] /\ registry' \in Conns \cup {None}
          BY <4>1, RegisterType
        <5> QED
          BY <3>4, <4>1, <5>1 DEF HubUpgrade
      <4>2. CASE /\ conn' = [conn EXCEPT ![c].ha = "closed"]
                 /\ UNCHANGED <<registry, event>>
        BY <3>4, <4>2 DEF HubUpgrade
      <4> QED
        BY <3>4, <4>1, <4>2 DEF HubUpgrade
    <3>5. CASE HubClose(c)
      BY <3>5, OnCloseType DEF HubClose
    <3>6. CASE HubDeadline(c)
      BY <3>6 DEF HubDeadline
    <3>7. CASE RequestLost(c)
      BY <3>7 DEF RequestLost
    <3>8. CASE NodeAnswer(c)
      <4>1. conn' \in [Conns -> ConnRec]
        <5>1. /\ [conn[c] EXCEPT !.ha = "open", !.resp = "101"] \in ConnRec
              /\ [conn[c] EXCEPT !.ha = "closed", !.resp = "transient"] \in ConnRec
              /\ [conn[c] EXCEPT !.ha = "closed"] \in ConnRec
          OBVIOUS
        <5>2. PICK r \in ConnRec : conn' = [conn EXCEPT ![c] = r]
          BY <3>8, <5>1 DEF NodeAnswer
        <5> QED
          BY <5>2
      <4>2. faults' \in 0..MaxFaults
        BY <3>8, FaultType DEF NodeAnswer
      <4> QED
        BY <3>8, <4>1, <4>2 DEF NodeAnswer
    <3> QED
      BY <2>3, <3>1, <3>2, <3>3, <3>4, <3>5, <3>6, <3>7, <3>8 DEF HubStep
  <2>4. CASE Revocation
    <3>1. CASE RevokeRecord
      BY <3>1 DEF RevokeRecord
    <3>2. CASE RevokeDrop
      BY <3>2, TerminatedType DEF RevokeDrop
    <3>3. CASE AdminKick
      BY <3>3, TerminatedType DEF AdminKick
    <3>4. CASE AdminRecord
      BY <3>4 DEF AdminRecord
    <3>5. CASE CliRevoke
      BY <3>5 DEF CliRevoke
    <3> QED
      BY <2>4, <3>1, <3>2, <3>3, <3>4, <3>5 DEF Revocation
  <2>5. CASE NodeMark
    BY <2>5 DEF NodeMark
  <2>6. CASE Environment
    <3>1. CASE DropHost
      BY <3>1, TerminatedType, FaultType DEF DropHost
    <3>2. CASE HubRestart
      BY <3>2, FaultType DEF HubRestart
    <3>3. CASE NodeFlip
      BY <3>3, FaultType DEF NodeFlip
    <3>4. ASSUME NEW c \in Conns, LinkLost(c) PROVE TypeOK'
      BY <3>4, FaultType DEF LinkLost
    <3>5. ASSUME NEW c \in Conns, HubError(c) PROVE TypeOK'
      BY <3>5, OnCloseType DEF HubError
    <3> QED
      BY <2>6, <3>1, <3>2, <3>3, <3>4, <3>5 DEF Environment
  <2>7. CASE UNCHANGED vars
    BY <2>7 DEF vars
  <2> QED
    BY <2>1, <2>2, <2>3, <2>4, <2>5, <2>6, <2>7 DEF Next
<1> QED
  BY <1>1, <1>2, PTL DEF Spec
-----------------------------------------------------------------------------
(* The hub's registry and the portal                                       *)

\* Only slots that reached the hub's own endpoint are in the middle of its
\* handshake or of its teardown.
HandshakesAtHub ==
    \A c \in Conns :
        conn[c].ha \in {"assign", "clear", "upgrade", "closing"} => conn[c].via = "hub"

\* RegistryMatchesTunnels is not inductive: an upgrade registers its slot, so
\* the slot must be known to be the hub's.  PortalAgrees rests on the registry.
HubInv == HandshakesAtHub /\ RegistryMatchesTunnels /\ PortalAgrees

\* What HubInv looks at.
SameSlot(c) == conn'[c].via = conn[c].via /\ conn'[c].ha = conn[c].ha

\* A step that changes no hub end, or only one that is neither registered nor
\* closing and does not become so, keeps HubInv.
LEMMA HubFrame ==
    ASSUME TypeOK, HubInv, UNCHANGED <<registry, event>>,
           \A c \in Conns :
              \/ SameSlot(c)
              \/ /\ conn[c].via = "node" \/ conn[c].ha \notin {"open", "closing"}
                 /\ conn'[c].via = "node" \/ conn'[c].ha \notin {"open", "closing"}
                 /\ conn'[c].ha \in {"assign", "clear", "upgrade", "closing"}
                       => conn'[c].via = "hub"
    PROVE  HubInv'
<1>1. HandshakesAtHub'
  BY DEF HubInv, HandshakesAtHub, SameSlot
<1>2. RegistryMatchesTunnels'
  BY DEF HubInv, RegistryMatchesTunnels, SameSlot, TypeOK
<1>3. PortalAgrees'
  BY DEF HubInv, HandshakesAtHub, PortalAgrees, SameSlot
<1> QED
  BY <1>1, <1>2, <1>3 DEF HubInv

\* The registered tunnel is closing afterwards, and no tunnel of the hub is up.
LEMMA TerminatedFacts ==
    ASSUME TypeOK, HubInv
    PROVE  /\ \A c \in Conns : Terminated[c].via = conn[c].via
           /\ \A c \in Conns : conn[c].ha # "open" => Terminated[c].ha = conn[c].ha
           /\ \A c \in Conns : conn[c].via = "hub" => Terminated[c].ha # "open"
           /\ \A c \in Conns : conn[c].via = "node" => Terminated[c].ha = conn[c].ha
           /\ registry # None => Terminated[registry].ha = "closing"
BY TunnelAssumption DEF Terminated, TypeOK, HubInv, RegistryMatchesTunnels, ConnRec

\* The registry holds exactly the hub's live tunnel in every reachable state,
\* and the portal lags behind it only by a close callback that is to come.
THEOREM RegistryCorrect == Spec => [](RegistryMatchesTunnels /\ PortalAgrees)
<1>1. Init => HubInv
  BY DEF Init, HubInv, HandshakesAtHub, RegistryMatchesTunnels, PortalAgrees, FreeConn
<1>2. TypeOK /\ HubInv /\ [Next]_vars => HubInv'
  <2> SUFFICES ASSUME TypeOK, HubInv, [Next]_vars PROVE HubInv'
    OBVIOUS
  <2>1. ASSUME NEW g \in Gateways, GatewayStep(g) \/ Operator(g) PROVE HubInv'
    <3>1. ASSUME NEW c \in Conns, Dial(g, c), UNCHANGED <<registry, event>>
          PROVE  HubInv'
      BY <3>1, HubFrame DEF Dial, Free, FreeConn, SameSlot, TypeOK, ConnRec
    <3>2. ASSUME NEW c \in Conns, GwOpen(g, c) \/ GwUnexpected(g, c) \/ GwDeadline(g, c)
                                     \/ GwClose(g, c) \/ GwRedirectFrame(g, c)
          PROVE  HubInv'
      <4>1. \A d \in Conns : SameSlot(d)
        <5> USE DEF SameSlot, TypeOK, ConnRec
        <5>1. CASE GwOpen(g, c)
          BY <5>1 DEF GwOpen
        <5>2. CASE GwUnexpected(g, c)
          BY <5>2 DEF GwUnexpected
        <5>3. CASE GwDeadline(g, c) \/ GwRedirectFrame(g, c)
          BY <5>3 DEF GwDeadline, GwRedirectFrame
        <5>4. CASE GwClose(g, c)
          BY <5>4 DEF GwClose
        <5> QED
          BY <3>2, <5>1, <5>2, <5>3, <5>4
      <4>2. UNCHANGED <<registry, event>>
        BY <3>2 DEF GwOpen, GwUnexpected, GwDeadline, GwClose, GwRedirectFrame, hubVars
      <4> QED
        BY <4>1, <4>2, HubFrame
    <3>3. CASE Stop(g) \/ Crash(g)
      <4>1. \A d \in Conns : SameSlot(d)
        BY <3>3 DEF Stop, Crash, DropClient, SameSlot, TypeOK, ConnRec
      <4>2. UNCHANGED <<registry, event>>
        BY <3>3 DEF Stop, Crash, hubVars
      <4> QED
        BY <4>1, <4>2, HubFrame
    <3>4. CASE Restart(g) \/ ForceUnlock(g)
      BY <3>4, HubFrame DEF Restart, ForceUnlock, hubVars, SameSlot
    <3> QED
      BY <2>1, <3>1, <3>2, <3>3, <3>4
         DEF GatewayStep, Operator, Start, Reconnect, hubVars
  <2>2. ASSUME NEW c \in Conns, HubStep(c) PROVE HubInv'
    <3>1. CASE HubLookup(c)
      BY <3>1, HubFrame DEF HubLookup, SameSlot, TypeOK, ConnRec, hubVars
    <3>2. CASE HubAssign(c)
      <4>1. conn[c].via = "hub"
        BY <3>2 DEF HubAssign, HubInv, HandshakesAtHub
      <4>2. CASE nodeOn
        BY <3>2, <4>1, <4>2, HubFrame, ZenonT(30) DEF HubAssign, SameSlot, TypeOK, ConnRec
      <4>3. CASE ~nodeOn
        BY <3>2, <4>1, <4>3, HubFrame DEF HubAssign, SameSlot, TypeOK, ConnRec
      <4> QED
        BY <4>2, <4>3
    <3>3. CASE HubClearNode(c)
      BY <3>3, HubFrame DEF HubClearNode, SameSlot, TypeOK, ConnRec, HubInv, HandshakesAtHub
    <3>4. CASE HubUpgrade(c)
      <4>1. CASE Register(c) /\ event' = "host.online"
        <5>1. HandshakesAtHub'
          BY <3>4, <4>1, TunnelAssumption
             DEF HubUpgrade, Register, HubInv, HandshakesAtHub, RegistryMatchesTunnels,
                 TypeOK, ConnRec
        <5>2. RegistryMatchesTunnels'
          <6>1. conn'[c].via = "hub" /\ conn'[c].ha = "open" /\ registry' = c
            BY <3>4, <4>1 DEF HubUpgrade, Register, HubInv, HandshakesAtHub, TypeOK, ConnRec
          <6>2. ASSUME NEW d \in Conns, d # c
                PROVE  ~(conn'[d].via = "hub" /\ conn'[d].ha = "open")
            BY <4>1, <6>2 DEF Register, HubInv, RegistryMatchesTunnels, TypeOK, ConnRec
          <6> QED
            BY <6>1, <6>2 DEF RegistryMatchesTunnels
        <5>3. PortalAgrees'
          BY <4>1, TunnelAssumption DEF Register, PortalAgrees
        <5> QED
          BY <5>1, <5>2, <5>3 DEF HubInv
      <4>2. CASE /\ conn' = [conn EXCEPT ![c].ha = "closed"]
                 /\ UNCHANGED <<registry, event>>
        BY <3>4, <4>2, HubFrame DEF HubUpgrade, SameSlot, TypeOK, ConnRec
      <4> QED
        BY <3>4, <4>1, <4>2 DEF HubUpgrade
    <3>5. CASE HubClose(c)
      <4>1. HandshakesAtHub'
        BY <3>5 DEF HubClose, HubInv, HandshakesAtHub, TypeOK, ConnRec
      <4>2. RegistryMatchesTunnels'
        BY <3>5 DEF HubClose, OnClose, Unregister, HubInv, RegistryMatchesTunnels,
                    TypeOK, ConnRec
      <4>3. PortalAgrees'
        BY <3>5 DEF HubClose, OnClose, Unregister, HubInv, PortalAgrees
      <4> QED
        BY <4>1, <4>2, <4>3 DEF HubInv
    <3>6. CASE HubDeadline(c)
      <4>1. HandshakesAtHub'
        BY <3>6 DEF HubDeadline, HubInv, HandshakesAtHub, TypeOK, ConnRec
      <4>2. RegistryMatchesTunnels'
        BY <3>6 DEF HubDeadline, hubVars, HubInv, RegistryMatchesTunnels, TypeOK, ConnRec
      <4>3. PortalAgrees'
        BY <3>6 DEF HubDeadline, hubVars, HubInv, PortalAgrees, TypeOK, ConnRec
      <4> QED
        BY <4>1, <4>2, <4>3 DEF HubInv
    <3>7. CASE RequestLost(c)
      BY <3>7, HubFrame DEF RequestLost, SameSlot, TypeOK, ConnRec, hubVars
    <3>8. CASE NodeAnswer(c)
      <4>1. /\ conn[c].via = "node" /\ conn'[c].via = "node"
            /\ conn'[c].ha \in {"open", "closed"}
        <5>1. conn[c].via = "node"
          BY <3>8 DEF NodeAnswer
        <5>2. \/ conn' = [conn EXCEPT ![c] = [@ EXCEPT !.ha = "open", !.resp = "101"]]
              \/ conn' = [conn EXCEPT ![c] = [@ EXCEPT !.ha = "closed", !.resp = "transient"]]
              \/ conn' = [conn EXCEPT ![c].ha = "closed"]
          BY <3>8 DEF NodeAnswer
        <5> QED
          BY <5>1, <5>2, ZenonT(30) DEF TypeOK, ConnRec
      <4>2. \A d \in Conns \ {c} : SameSlot(d)
        BY <3>8 DEF NodeAnswer, SameSlot, TypeOK
      <4>3. UNCHANGED <<registry, event>>
        BY <3>8 DEF NodeAnswer, hubVars
      <4> QED
        BY <4>1, <4>2, <4>3, HubFrame
    <3> QED
      BY <2>2, <3>1, <3>2, <3>3, <3>4, <3>5, <3>6, <3>7, <3>8 DEF HubStep
  <2>3. ASSUME conn' = Terminated, registry' = None, event' \in {event, "host.offline"}
        PROVE  HubInv'
    <3>1. HandshakesAtHub'
      BY <2>3, TerminatedFacts DEF HubInv, HandshakesAtHub, RegistryMatchesTunnels,
         TypeOK, ConnRec
    <3>2. RegistryMatchesTunnels'
      BY <2>3, TerminatedFacts DEF RegistryMatchesTunnels
    <3>3. PortalAgrees'
      BY <2>3, TerminatedFacts DEF HubInv, PortalAgrees, RegistryMatchesTunnels, TypeOK
    <3> QED
      BY <3>1, <3>2, <3>3 DEF HubInv
  <2>4. CASE Revocation
    <3>1. CASE RevokeRecord \/ AdminRecord \/ CliRevoke
      BY <3>1, HubFrame DEF RevokeRecord, AdminRecord, CliRevoke, SameSlot
    <3>2. CASE RevokeDrop
      BY <3>2, <2>3 DEF RevokeDrop
    <3>3. CASE AdminKick
      <4>1. HandshakesAtHub'
        BY <3>3, TerminatedFacts DEF AdminKick, HubInv, HandshakesAtHub, TypeOK, ConnRec
      <4>2. RegistryMatchesTunnels'
        BY <3>3, TerminatedFacts DEF AdminKick, HubInv, RegistryMatchesTunnels, TypeOK
      <4>3. PortalAgrees'
        BY <3>3, TerminatedFacts DEF AdminKick, HubInv, PortalAgrees
      <4> QED
        BY <4>1, <4>2, <4>3 DEF HubInv
    <3> QED
      BY <2>4, <3>1, <3>2, <3>3 DEF Revocation
  <2>5. CASE Environment
    <3>1. CASE DropHost
      BY <3>1, <2>3 DEF DropHost
    <3>2. CASE HubRestart
      <4>1. HandshakesAtHub'
        BY <3>2 DEF HubRestart, HubInv, HandshakesAtHub, TypeOK, ConnRec
      <4>2. RegistryMatchesTunnels' /\ PortalAgrees'
        BY <3>2 DEF HubRestart, RegistryMatchesTunnels, PortalAgrees, TypeOK, ConnRec
      <4> QED
        BY <4>1, <4>2 DEF HubInv
    <3>3. CASE NodeFlip
      BY <3>3, HubFrame DEF NodeFlip, hubVars, SameSlot, TypeOK, ConnRec
    <3>4. ASSUME NEW c \in Conns, LinkLost(c) PROVE HubInv'
      BY <3>4, HubFrame DEF LinkLost, hubVars, SameSlot, TypeOK, ConnRec
    <3>5. ASSUME NEW c \in Conns, HubError(c) PROVE HubInv'
      <4>1. HandshakesAtHub'
        BY <3>5 DEF HubError, HubInv, HandshakesAtHub, TypeOK, ConnRec
      <4>2. RegistryMatchesTunnels'
        BY <3>5 DEF HubError, OnClose, Unregister, HubInv, RegistryMatchesTunnels,
                    TypeOK, ConnRec
      <4>3. PortalAgrees'
        BY <3>5 DEF HubError, OnClose, Unregister, HubInv, PortalAgrees
      <4> QED
        BY <4>1, <4>2, <4>3 DEF HubInv
    <3> QED
      BY <2>5, <3>1, <3>2, <3>3, <3>4, <3>5 DEF Environment
  <2>6. CASE NodeMark
    <3>1. UNCHANGED <<conn, registry, event>>
      BY <2>6 DEF NodeMark, hubVars
    <3> QED
      BY <3>1, HubFrame DEF SameSlot
  <2>7. CASE UNCHANGED vars
    BY <2>7, HubFrame DEF vars, SameSlot
  <2> QED
    BY <2>1, <2>2, <2>4, <2>5, <2>6, <2>7 DEF Next
<1>3. HubInv => RegistryMatchesTunnels /\ PortalAgrees
  BY DEF HubInv
<1> QED
  BY <1>1, <1>2, <1>3, TypeCorrect, PTL DEF Spec
-----------------------------------------------------------------------------
(* The gateway                                                             *)

\* A gateway that is not running holds neither the lock nor a socket, however
\* its shutdown, its crash and the takeover of its lock interleave.
THEOREM StoppedHoldsNothing == Spec => []StoppedLeavesNothing
<1> USE TunnelAssumption
    DEF StoppedLeavesNothing, Active, ActiveStates, ShutStates
<1>1. Init => StoppedLeavesNothing
  BY DEF Init
<1>2. TypeOK /\ StoppedLeavesNothing /\ [Next]_vars => StoppedLeavesNothing'
  <2> SUFFICES ASSUME TypeOK, StoppedLeavesNothing, [Next]_vars
               PROVE  StoppedLeavesNothing'
    OBVIOUS
  <2>1. ASSUME UNCHANGED <<gs, cur, lock>> PROVE StoppedLeavesNothing'
    BY <2>1
  <2>2. ASSUME NEW g \in Gateways, GatewayStep(g) PROVE StoppedLeavesNothing'
    <3>1. CASE Reconnect(g)
      BY <3>1 DEF Reconnect, Dial, TypeOK
    <3>2. ASSUME NEW c \in Conns, GwOpen(g, c) PROVE StoppedLeavesNothing'
      <4>1. Active(g)
        BY <3>2 DEF GwOpen
      <4> QED
        BY <3>2, <4>1 DEF GwOpen, TypeOK
    <3>3. ASSUME NEW c \in Conns, GwUnexpected(g, c) \/ GwDeadline(g, c)
          PROVE  StoppedLeavesNothing'
      BY <3>3 DEF GwUnexpected, GwDeadline
    <3>4. ASSUME NEW c \in Conns, GwClose(g, c) PROVE StoppedLeavesNothing'
      BY <3>4 DEF GwClose, AfterClose, Released, TypeOK
    <3> QED
      BY <2>2, <3>1, <3>2, <3>3, <3>4 DEF GatewayStep
  <2>3. ASSUME NEW g \in Gateways, Operator(g) PROVE StoppedLeavesNothing'
    <3>1. CASE Start(g)
      BY <3>1 DEF Start, Dial, TypeOK
    <3>2. CASE Stop(g)
      BY <3>2 DEF Stop, DropClient, Released, TypeOK
    <3>3. CASE Crash(g)
      BY <3>3 DEF Crash, DropClient, TypeOK
    <3>4. CASE Restart(g)
      BY <3>4 DEF Restart, TypeOK
    <3>5. CASE ForceUnlock(g)
      BY <3>5 DEF ForceUnlock
    <3>6. ASSUME NEW c \in Conns, GwRedirectFrame(g, c) PROVE StoppedLeavesNothing'
      BY <3>6 DEF GwRedirectFrame
    <3> QED
      BY <2>3, <3>1, <3>2, <3>3, <3>4, <3>5, <3>6 DEF Operator
  <2>4. ASSUME NEW c \in Conns, HubStep(c) \/ LinkLost(c) \/ HubError(c)
        PROVE  UNCHANGED <<gs, cur, lock>>
    BY <2>4 DEF HubStep, HubLookup, HubAssign, HubClearNode, HubUpgrade, HubClose,
                HubDeadline, RequestLost, NodeAnswer, LinkLost, HubError
  <2>5. CASE Revocation
    BY <2>5, <2>1 DEF Revocation, RevokeRecord, RevokeDrop, AdminKick, AdminRecord, CliRevoke
  <2>6. CASE DropHost \/ HubRestart \/ NodeFlip \/ NodeMark
    BY <2>6, <2>1 DEF DropHost, HubRestart, NodeFlip, NodeMark
  <2>7. CASE UNCHANGED vars
    BY <2>7, <2>1 DEF vars
  <2> QED
    BY <2>1, <2>2, <2>3, <2>4, <2>5, <2>6, <2>7 DEF Next, Environment
<1> QED
  BY <1>1, <1>2, TypeCorrect, PTL DEF Spec

\* What makes "rejected" final is never there while the token is good: neither
\* the authoritative answer on the wire, nor its trace in the close handler.
RefusalInv ==
    tokenOk => /\ \A c \in Conns : conn[c].resp # "revoked" /\ conn[c].rej # "hub"
               /\ \A g \in Gateways : gs[g] # "rejected"

\* A gateway gives up for good only once the host token has been revoked.
THEOREM RejectionIsAuthoritative == Spec => []RejectedOnlyIfRevoked
<1>1. Init => RefusalInv
  BY DEF Init, RefusalInv, FreeConn
<1>2. TypeOK /\ RefusalInv /\ [Next]_vars => RefusalInv'
  <2> SUFFICES ASSUME TypeOK, RefusalInv, [Next]_vars, tokenOk'
               PROVE  /\ \A d \in Conns : conn'[d].resp # "revoked" /\ conn'[d].rej # "hub"
                      /\ \A h \in Gateways : gs'[h] # "rejected"
    BY DEF RefusalInv
  <2>1. tokenOk
    BY ZenonT(30) DEF Next, GatewayStep, Operator, HubStep, Revocation, Environment, vars, hubVars,
           Reconnect, GwOpen, GwUnexpected, GwDeadline, GwClose, Start, Stop, Crash,
           Restart, ForceUnlock, GwRedirectFrame, HubLookup, HubAssign, HubClearNode,
           HubUpgrade, HubClose, HubDeadline, RequestLost, NodeAnswer, RevokeRecord,
           RevokeDrop, AdminKick, AdminRecord, CliRevoke, NodeMark, DropHost, HubRestart,
           NodeFlip, LinkLost, HubError
  <2>2. /\ \A d \in Conns : conn[d].resp # "revoked" /\ conn[d].rej # "hub"
        /\ \A h \in Gateways : gs[h] # "rejected"
    BY <2>1 DEF RefusalInv
  <2> USE <2>2 DEF TypeOK, ConnRec
  <2>3. ASSUME NEW g \in Gateways, GatewayStep(g) \/ Operator(g)
        PROVE  /\ \A d \in Conns : conn'[d].resp # "revoked" /\ conn'[d].rej # "hub"
               /\ \A h \in Gateways : gs'[h] # "rejected"
    <3>1. CASE Reconnect(g)
      BY <3>1 DEF Reconnect, Dial, FreeConn
    <3>2. ASSUME NEW c \in Conns, GwOpen(g, c)
          PROVE  /\ \A d \in Conns : conn'[d].resp # "revoked" /\ conn'[d].rej # "hub"
                 /\ \A h \in Gateways : gs'[h] # "rejected"
      BY <3>2 DEF GwOpen
    <3>3. ASSUME NEW c \in Conns, GwUnexpected(g, c)
          PROVE  /\ \A d \in Conns : conn'[d].resp # "revoked" /\ conn'[d].rej # "hub"
                 /\ \A h \in Gateways : gs'[h] # "rejected"
      BY <3>3 DEF GwUnexpected, RejectSource
    <3>4. ASSUME NEW c \in Conns, GwDeadline(g, c) \/ GwRedirectFrame(g, c)
          PROVE  /\ \A d \in Conns : conn'[d].resp # "revoked" /\ conn'[d].rej # "hub"
                 /\ \A h \in Gateways : gs'[h] # "rejected"
      BY <3>4 DEF GwDeadline, GwRedirectFrame
    <3>5. ASSUME NEW c \in Conns, GwClose(g, c)
          PROVE  /\ \A d \in Conns : conn'[d].resp # "revoked" /\ conn'[d].rej # "hub"
                 /\ \A h \in Gateways : gs'[h] # "rejected"
      BY <3>5 DEF GwClose, AfterClose
    <3>6. CASE Start(g)
      BY <3>6 DEF Start, Dial, FreeConn
    <3>7. CASE Stop(g) \/ Crash(g)
      BY <3>7 DEF Stop, Crash, DropClient
    <3>8. CASE Restart(g) \/ ForceUnlock(g)
      BY <3>8 DEF Restart, ForceUnlock
    <3> QED
      BY <2>3, <3>1, <3>2, <3>3, <3>4, <3>5, <3>6, <3>7, <3>8
         DEF GatewayStep, Operator
  <2>4. ASSUME NEW c \in Conns, HubStep(c)
        PROVE  \A d \in Conns : conn'[d].resp # "revoked" /\ conn'[d].rej # "hub"
    <3>1. CASE HubLookup(c)
      BY <2>1, <3>1 DEF HubLookup
    <3>2. ASSUME NEW x \in HubEnds, conn' = [conn EXCEPT ![c].ha = x]
          PROVE  \A d \in Conns : conn'[d].resp # "revoked" /\ conn'[d].rej # "hub"
      BY <3>2
    <3>3. ASSUME NEW x \in HubEnds, NEW y \in {"101", "307", "transient"},
                 conn' = [conn EXCEPT ![c] = [@ EXCEPT !.ha = x, !.resp = y]]
          PROVE  \A d \in Conns : conn'[d].resp # "revoked" /\ conn'[d].rej # "hub"
      BY <3>3
    <3>4. CASE HubAssign(c)
      <4>1. CASE nodeOn
        BY <3>3, <3>4, <4>1 DEF HubAssign, HubEnds
      <4>2. CASE ~nodeOn
        <5>1. conn' = [conn EXCEPT ![c].ha = IF conn[c].node THEN "clear" ELSE "upgrade"]
          BY <3>4, <4>2 DEF HubAssign
        <5>2. (IF conn[c].node THEN "clear" ELSE "upgrade") \in HubEnds
          BY DEF HubEnds
        <5> QED
          BY <3>2, <5>1, <5>2
      <4> QED
        BY <4>1, <4>2
    <3>5. CASE HubClearNode(c)
      BY <3>2, <3>5 DEF HubClearNode, HubEnds
    <3>6. CASE HubDeadline(c) \/ RequestLost(c) \/ HubClose(c)
      BY <3>2, <3>6 DEF HubDeadline, RequestLost, HubClose, HubEnds
    <3>7. CASE HubUpgrade(c)
      <4>1. CASE Register(c)
        BY <4>1 DEF Register
      <4>2. CASE conn' = [conn EXCEPT ![c].ha = "closed"]
        BY <3>2, <4>2 DEF HubEnds
      <4> QED
        BY <3>7, <4>1, <4>2 DEF HubUpgrade
    <3>8. CASE NodeAnswer(c)
      BY <3>2, <3>3, <3>8 DEF NodeAnswer, HubEnds
    <3> QED
      BY <2>4, <3>1, <3>4, <3>5, <3>6, <3>7, <3>8 DEF HubStep
  <2>5. ASSUME Revocation \/ Environment \/ NodeMark \/ UNCHANGED vars
        PROVE  \A d \in Conns : conn'[d].resp # "revoked" /\ conn'[d].rej # "hub"
    <3>1. CASE conn' = Terminated
      BY <3>1 DEF Terminated
    <3>2. CASE Revocation
      BY <3>1, <3>2 DEF Revocation, RevokeRecord, RevokeDrop, AdminKick, AdminRecord,
                        CliRevoke
    <3>3. CASE DropHost
      BY <3>1, <3>3 DEF DropHost
    <3>4. CASE HubRestart
      BY <3>4 DEF HubRestart
    <3>5. CASE NodeFlip
      BY <3>5 DEF NodeFlip
    <3>6. ASSUME NEW c \in Conns, LinkLost(c) \/ HubError(c)
          PROVE  \A d \in Conns : conn'[d].resp # "revoked" /\ conn'[d].rej # "hub"
      <4>1. CASE conn' = [conn EXCEPT ![c].up = FALSE]
        BY <4>1
      <4>2. CASE conn' = [conn EXCEPT ![c].ha = "closing"]
        BY <4>2
      <4> QED
        BY <3>6, <4>1, <4>2 DEF LinkLost, HubError
    <3>7. CASE NodeMark \/ UNCHANGED vars
      BY <3>7 DEF NodeMark, vars
    <3> QED
      BY <2>5, <3>2, <3>3, <3>4, <3>5, <3>6, <3>7 DEF Environment
  <2>6. ASSUME \/ \E c \in Conns : HubStep(c)
               \/ Revocation \/ Environment \/ NodeMark \/ UNCHANGED vars
        PROVE  UNCHANGED gs
    BY <2>6 DEF HubStep, HubLookup, HubAssign, HubClearNode, HubUpgrade, HubClose,
           HubDeadline, RequestLost, NodeAnswer, Revocation, RevokeRecord, RevokeDrop,
           AdminKick, AdminRecord, CliRevoke, NodeMark, Environment, DropHost,
           HubRestart, NodeFlip, LinkLost, HubError, vars
  <2> QED
    BY <2>3, <2>4, <2>5, <2>6 DEF Next
<1>3. RefusalInv => RejectedOnlyIfRevoked
  BY DEF RefusalInv, RejectedOnlyIfRevoked
<1> QED
  BY <1>1, <1>2, <1>3, TypeCorrect, PTL DEF Spec
-----------------------------------------------------------------------------
\* Once the token is gone and nobody is left of those who were let in before,
\* nobody gets in again and the registry can only lose tunnels.
THEOREM NoReconnectAfterRevoke == Spec => ReconnectRefused
<1>1. ASSUME TypeOK, LockedOut, Next
      PROVE  LockedOut' /\ registry' \in {registry, None}
  <2>1. tokenOk' = FALSE
    <3>1. ~tokenOk
      BY <1>1 DEF LockedOut
    <3>2. tokenOk' \in {tokenOk, FALSE}
      BY <1>1, ZenonT(30) DEF Next, GatewayStep, Operator, HubStep, Revocation, Environment,
           hubVars, Reconnect, GwOpen, GwUnexpected, GwDeadline, GwClose, Start, Stop, Crash,
           Restart, ForceUnlock, GwRedirectFrame, HubLookup, HubAssign, HubClearNode,
           HubUpgrade, HubClose, HubDeadline, RequestLost, NodeAnswer, RevokeRecord,
           RevokeDrop, AdminKick, AdminRecord, CliRevoke, NodeMark, DropHost, HubRestart,
           NodeFlip, LinkLost, HubError
    <3> QED
      BY <1>1, <3>1, <3>2 DEF TypeOK
  <2> DEFINE Out(f) == \A d \in Conns :
                          /\ f[d].ha \notin {"assign", "clear", "upgrade"}
                          /\ f[d].via = "hub" => f[d].ha # "open"
  <2>2. Out(conn) /\ ~tokenOk
    BY <1>1 DEF LockedOut
  <2>3. SUFFICES Out(conn') /\ registry' \in {registry, None}
    BY <2>1 DEF LockedOut
  <2> USE <2>2 DEF TypeOK, ConnRec
  <2>4. ASSUME NEW c \in Conns,
               \E x \in {"none", "closing", "closed"} : conn' = [conn EXCEPT ![c].ha = x]
        PROVE  Out(conn')
    BY <1>1, <2>4
  <2>5. ASSUME NEW g \in Gateways, GatewayStep(g) \/ Operator(g)
        PROVE  Out(conn') /\ registry' = registry
    <3>1. registry' = registry
      BY <2>5 DEF GatewayStep, Operator, Reconnect, GwOpen, GwUnexpected, GwDeadline,
             GwClose, Start, Stop, Crash, Restart, ForceUnlock, GwRedirectFrame, hubVars
    <3>2. CASE Reconnect(g) \/ Start(g)
      <4>1. PICK c \in Conns : Dial(g, c)
        BY <3>2 DEF Reconnect, Start
      <4>2. PICK v \in {"hub", "node"} :
              conn' = [conn EXCEPT ![c] = [FreeConn EXCEPT !.via = v, !.ga = "connecting",
                                                           !.ha = "none"]]
        BY <4>1 DEF Dial
      <4>3. conn'[c].ha = "none" /\ \A d \in Conns \ {c} : conn'[d] = conn[d]
        BY <1>1, <4>2 DEF FreeConn
      <4> QED
        BY <3>1, <4>3
    <3>3. ASSUME NEW c \in Conns, GwOpen(g, c) \/ GwDeadline(g, c) \/ GwRedirectFrame(g, c)
                                     \/ GwClose(g, c)
          PROVE  Out(conn')
      <4>1. PICK x \in GwEnds : conn' = [conn EXCEPT ![c].ga = x]
        BY <3>3 DEF GwOpen, GwDeadline, GwRedirectFrame, GwClose, GwEnds
      <4> QED
        BY <1>1, <4>1
    <3>4. ASSUME NEW c \in Conns, GwUnexpected(g, c) PROVE Out(conn')
      BY <1>1, <3>4 DEF GwUnexpected
    <3>5. CASE Stop(g) \/ Crash(g)
      <4>1. \A d \in Conns : conn'[d].ha = conn[d].ha /\ conn'[d].via = conn[d].via
        BY <1>1, <3>5 DEF Stop, Crash, DropClient
      <4> QED
        BY <3>1, <4>1
    <3>6. CASE Restart(g) \/ ForceUnlock(g)
      <4>1. conn' = conn
        BY <3>6 DEF Restart, ForceUnlock
      <4> QED
        BY <3>1, <4>1
    <3> QED
      BY <2>5, <3>1, <3>2, <3>3, <3>4, <3>5, <3>6 DEF GatewayStep, Operator
  <2>6. ASSUME NEW c \in Conns, HubStep(c) \/ LinkLost(c) \/ HubError(c)
        PROVE  Out(conn') /\ registry' \in {registry, None}
    <3>1. CASE HubLookup(c)
      BY <1>1, <3>1 DEF HubLookup, hubVars
    <3>2. CASE NodeAnswer(c)
      <4>1. conn[c].via = "node" /\ registry' = registry
        BY <3>2 DEF NodeAnswer, hubVars
      <4>3. \/ conn' = [conn EXCEPT ![c] = [@ EXCEPT !.ha = "open", !.resp = "101"]]
            \/ conn' = [conn EXCEPT ![c] = [@ EXCEPT !.ha = "closed", !.resp = "transient"]]
            \/ conn' = [conn EXCEPT ![c].ha = "closed"]
        BY <3>2 DEF NodeAnswer
      <4>4. \/ conn'[c].via = "node" /\ conn'[c].ha = "open"
            \/ conn'[c].ha = "closed"
        BY <1>1, <4>1, <4>3, ZenonT(30)
      <4>5. \A d \in Conns \ {c} : conn'[d] = conn[d]
        BY <1>1, <4>3
      <4> QED
        BY <4>1, <4>4, <4>5
    <3>3. CASE HubClose(c) \/ HubDeadline(c) \/ RequestLost(c) \/ HubError(c)
      BY <2>4, <3>3 DEF HubClose, HubDeadline, RequestLost, HubError, OnClose, Unregister,
                        hubVars
    <3>4. CASE LinkLost(c)
      BY <1>1, <3>4 DEF LinkLost, hubVars
    <3>5. CASE HubAssign(c) \/ HubClearNode(c) \/ HubUpgrade(c)
      BY <3>5 DEF HubAssign, HubClearNode, HubUpgrade
    <3> QED
      BY <2>6, <3>1, <3>2, <3>3, <3>4, <3>5 DEF HubStep
  <2>7. CASE Revocation \/ NodeMark \/ DropHost \/ HubRestart \/ NodeFlip
    <3>1. registry' \in {registry, None}
      BY <2>7 DEF Revocation, RevokeRecord, RevokeDrop, AdminKick, AdminRecord, CliRevoke,
             NodeMark, DropHost, HubRestart, NodeFlip, hubVars
    <3>2. CASE conn' = Terminated
      <4>1. \A d \in Conns : /\ conn'[d].via = conn[d].via
                              /\ conn'[d].ha \in {conn[d].ha, "closing"}
        BY <1>1, <3>2 DEF Terminated
      <4> QED
        BY <3>1, <4>1
    <3>3. CASE HubRestart
      BY <1>1, <3>1, <3>3 DEF HubRestart
    <3>4. CASE NodeFlip
      <4>1. \A d \in Conns : /\ conn'[d].via = conn[d].via
                              /\ conn'[d].ha \in {conn[d].ha, "closed"}
        BY <1>1, <3>4 DEF NodeFlip
      <4> QED
        BY <3>1, <4>1
    <3>5. CASE conn' = conn
      BY <3>1, <3>5
    <3> QED
      BY <2>7, <3>2, <3>3, <3>4, <3>5 DEF Revocation, RevokeRecord, RevokeDrop, AdminKick,
         AdminRecord, CliRevoke, NodeMark, DropHost
  <2> QED
    BY <1>1, <2>5, <2>6, <2>7 DEF Next, Environment
<1>2. TypeOK /\ [Next]_vars =>
        [LockedOut => LockedOut' /\ registry' \in {registry, None}]_vars
  BY <1>1
<1> QED
  BY <1>2, TypeCorrect, PTL DEF Spec, ReconnectRefused
=============================================================================
