----------------------------- MODULE PanelScan ------------------------------
(***************************************************************************)
(* Binding a machine by scanning a code.  The panel in the browser         *)
(* (packages/web-remote/client.js) shows the code and polls every two      *)
(* seconds; the plugin (beginScan and scanState of src/index.ts) asks the  *)
(* hub for the session's state and exchanges an approved session for a     *)
(* host token; the hub makes the host.  A poll does not wait for the one   *)
(* before it, and a code can be renewed while it is shown.                 *)
(***************************************************************************)
EXTENDS Integers, FiniteSets

CONSTANTS Sessions,    \* bind sessions
          Polls,       \* polls under way
          MaxErrors    \* bound: requests of the plugin that fail

ASSUME ScanAssumption == MaxErrors \in Nat /\ "none" \notin Sessions

VARIABLES session,   \* at the hub: [st, old: past its time, hosts: made for it]
          bind,      \* bindSession of the plugin
          hostToken, \* the session whose host the plugin has the token of
          begun,     \* calls of begin-scan
          poll,      \* calls of scan-state
          view,      \* scanStatus: "idle", "showing" or "expired"
          onScreen, \* the session whose code the panel shows
          effect,    \* numbers the times the panel began to poll
          busy,      \* of the panel: its buttons are disabled, but not that of a shown code
          errors,
          answerLost, overlapped, crossed, strayed

scanVars == <<session, bind, hostToken, begun, poll, view, onScreen, effect, busy, errors, answerLost, overlapped, crossed, strayed>>

NoSession == "none"
NoPoll == [at |-> "idle", s |-> NoSession, effect |-> 0]

ScanInit ==
    /\ session = [s \in Sessions |-> [st |-> "none", old |-> FALSE, hosts |-> 0]]
    /\ bind = NoSession /\ hostToken = NoSession
    /\ begun = [s \in Sessions |-> "no"]
    /\ poll = [p \in Polls |-> NoPoll]
    /\ view = "idle" /\ onScreen = NoSession /\ effect = 0
    /\ busy = FALSE /\ errors = 0
    /\ answerLost = FALSE /\ overlapped = FALSE /\ crossed = FALSE /\ strayed = FALSE

(***************************************************************************)
(* Showing a code                                                          *)
(***************************************************************************)
\* The button of the first code is disabled while it waits; the one that
\* renews a code is not, and two codes can be asked for at once.
PressScan(s) ==
    /\ begun[s] = "no" /\ hostToken = NoSession
    /\ view = "idle" => ~busy
    /\ begun' = [begun EXCEPT ![s] = "asked"]
    /\ busy' = TRUE
    /\ strayed' = (strayed \/ \E u \in Sessions : begun[u] \in {"asked", "made"})
    /\ UNCHANGED <<session, bind, hostToken, poll, view, onScreen, effect, errors, answerLost, overlapped, crossed>>

\* beginScan: the hub makes the session, and the plugin keeps it in place of
\* the one it had.
BeginScan(s) ==
    /\ begun[s] = "asked"
    /\ session' = [session EXCEPT ![s].st = "pending"]
    /\ bind' = s
    /\ begun' = [begun EXCEPT ![s] = "made"]
    /\ UNCHANGED <<hostToken, poll, view, onScreen, effect, busy, errors, answerLost, overlapped, crossed, strayed>>

\* The call ends without a code for the panel, made or not.
BeginFails(s) ==
    /\ begun[s] \in {"asked", "made"} /\ errors < MaxErrors
    /\ errors' = errors + 1
    /\ begun' = [begun EXCEPT ![s] = "over"]
    /\ busy' = FALSE
    /\ strayed' = (strayed \/ begun[s] = "made")
    /\ UNCHANGED <<session, bind, hostToken, poll, view, onScreen, effect, answerLost, overlapped, crossed>>

\* The panel shows the code.  It begins to poll if it did not; polls that
\* are under way for the code before count as its own.
PanelShows(s) ==
    /\ begun[s] = "made"
    /\ begun' = [begun EXCEPT ![s] = "over"]
    /\ view' = "showing" /\ onScreen' = s
    /\ effect' = IF view = "showing" THEN effect ELSE effect + 1
    /\ busy' = FALSE
    /\ UNCHANGED <<session, bind, hostToken, poll, errors, answerLost, overlapped, crossed, strayed>>

\* resetScan, for a join token instead.
LeaveScan ==
    /\ view # "idle"
    /\ view' = "idle" /\ onScreen' = NoSession
    /\ UNCHANGED <<session, bind, hostToken, begun, poll, effect, busy, errors, answerLost, overlapped, crossed, strayed>>

\* The countdown of the panel.
CountdownEnds ==
    /\ view = "showing" /\ session[onScreen].old
    /\ view' = "expired"
    /\ UNCHANGED <<session, bind, hostToken, begun, poll, onScreen, effect, busy, errors, answerLost, overlapped, crossed, strayed>>

(***************************************************************************)
(* The session at the hub, and the phone that approves it                  *)
(***************************************************************************)
Approves(s) ==
    /\ session[s].st = "pending" /\ ~session[s].old
    /\ session' = [session EXCEPT ![s].st = "approved"]
    /\ UNCHANGED <<bind, hostToken, begun, poll, view, onScreen, effect, busy, errors, answerLost, overlapped, crossed, strayed>>

GrowsOld(s) ==
    /\ session[s].st \in {"pending", "approved"} /\ ~session[s].old
    /\ session' = [session EXCEPT ![s].old = TRUE]
    /\ UNCHANGED <<bind, hostToken, begun, poll, view, onScreen, effect, busy, errors, answerLost, overlapped, crossed, strayed>>

(***************************************************************************)
(* A poll                                                                  *)
(***************************************************************************)
PollTo(p, at) == poll' = [poll EXCEPT ![p].at = at]
Over(p) == poll' = [poll EXCEPT ![p] = NoPoll]

\* Every two seconds while a code is shown.  Without a session the plugin
\* answers "none", which changes nothing.
PollBegins(p) ==
    /\ poll[p].at = "idle" /\ view = "showing" /\ bind # NoSession
    /\ poll' = [poll EXCEPT ![p] = [at |-> "asks", s |-> bind, effect |-> effect]]
    /\ UNCHANGED <<session, bind, hostToken, begun, view, onScreen, effect, busy, errors, answerLost, overlapped, crossed, strayed>>

\* bindSession = null, whichever session that is by now.
ForgetBind(p) ==
    /\ bind' = NoSession
    /\ crossed' = (crossed \/ bind \notin {poll[p].s, NoSession})

\* scanState learns the state of the session it read: an approved one is
\* exchanged, one that grew old unapproved is given up.
LearnsState(p) ==
    /\ poll[p].at = "asks"
    /\ LET s == session[poll[p].s] IN
         \/ s.st = "approved" /\ PollTo(p, "consumes") /\ UNCHANGED <<bind, crossed>>
         \/ s.st = "pending" /\ s.old /\ PollTo(p, "expired") /\ ForgetBind(p)
         \/ (s.st = "consumed" \/ (s.st = "pending" /\ ~s.old)) /\ Over(p) /\ UNCHANGED <<bind, crossed>>
    /\ UNCHANGED <<session, hostToken, begun, view, onScreen, effect, busy, errors, answerLost, overlapped, strayed>>

\* handleConsumeBindSession: the hub reads the session ...
ConsumeReads(p) ==
    /\ poll[p].at = "consumes"
    /\ LET s == session[poll[p].s] IN PollTo(p, IF s.st = "approved" /\ ~s.old THEN "granted" ELSE "refused")
    /\ overlapped' = (overlapped \/ session[poll[p].s].st = "consumed"
                       \/ \E q \in Polls \ {p} : poll[q].s = poll[p].s /\ poll[q].at # "asks")
    /\ UNCHANGED <<session, bind, hostToken, begun, view, onScreen, effect, busy, errors, answerLost, crossed, strayed>>

\* ... and makes the host, and marks it consumed.
ConsumeMakes(p) ==
    /\ poll[p].at = "granted"
    /\ session' = [session EXCEPT ![poll[p].s].st = "consumed", ![poll[p].s].hosts = @ + 1]
    /\ PollTo(p, "made")
    /\ UNCHANGED <<bind, hostToken, begun, view, onScreen, effect, busy, errors, answerLost, overlapped, crossed, strayed>>

\* The token is written, the machine's tunnel starts.
Bound(p) ==
    /\ poll[p].at = "made"
    /\ hostToken' = poll[p].s
    /\ ForgetBind(p) /\ PollTo(p, "connecting")
    /\ UNCHANGED <<session, begun, view, onScreen, effect, busy, errors, answerLost, overlapped, strayed>>

ConsumeRefused(p) ==
    /\ poll[p].at = "refused"
    /\ ForgetBind(p) /\ PollTo(p, "expired")
    /\ UNCHANGED <<session, hostToken, begun, view, onScreen, effect, busy, errors, answerLost, overlapped, strayed>>

\* (an error ends the scan)
ErrorForgets(p) ==
    /\ poll[p].at \in {"asks", "consumes", "made"} /\ errors < MaxErrors
    /\ errors' = errors + 1
    /\ answerLost' = (answerLost \/ poll[p].at = "made")
    /\ ForgetBind(p) /\ Over(p)
    /\ UNCHANGED <<session, hostToken, begun, view, onScreen, effect, busy, overlapped, strayed>>

\* The hub cannot be reached or its answer is lost: the panel tries again.
\* The token of a host that was made is gone with the answer.
HubFails(p) ==
    /\ poll[p].at \in {"asks", "consumes", "made"} /\ errors < MaxErrors
    /\ errors' = errors + 1
    /\ answerLost' = (answerLost \/ poll[p].at = "made")
    /\ Over(p)
    /\ UNCHANGED <<session, bind, hostToken, begun, view, onScreen, effect, busy, overlapped, crossed, strayed>>

\* The panel hears how a poll ended, if it still polls for the same reason;
\* it does not look whether the poll was about the code that it shows.
PanelHears(p) ==
    /\ poll[p].at \in {"expired", "connecting"}
    /\ Over(p)
    /\ IF poll[p].effect # effect \/ view # "showing" THEN UNCHANGED <<view, onScreen, crossed>>
       ELSE IF poll[p].at = "expired"
            THEN view' = "expired" /\ crossed' = (crossed \/ poll[p].s # onScreen) /\ UNCHANGED onScreen
            ELSE view' = "idle" /\ onScreen' = NoSession /\ UNCHANGED crossed
    /\ UNCHANGED <<session, bind, hostToken, begun, effect, busy, errors, answerLost, overlapped, strayed>>

\* Its call fails.
PanelMisses(p) ==
    /\ poll[p].at \in {"expired", "connecting"} /\ errors < MaxErrors
    /\ errors' = errors + 1
    /\ Over(p)
    /\ UNCHANGED <<session, bind, hostToken, begun, view, onScreen, effect, busy, answerLost, overlapped, crossed, strayed>>

ScanNext ==
    \/ \E s \in Sessions : PressScan(s) \/ BeginScan(s) \/ BeginFails(s) \/ PanelShows(s) \/ Approves(s) \/ GrowsOld(s)
    \/ \E p \in Polls : \/ PollBegins(p) \/ LearnsState(p) \/ ConsumeReads(p) \/ ConsumeMakes(p) \/ Bound(p)
                        \/ ConsumeRefused(p) \/ HubFails(p) \/ PanelHears(p) \/ PanelMisses(p)
    \/ LeaveScan \/ CountdownEnds

ScanSpec == ScanInit /\ [][ScanNext]_scanVars

(***************************************************************************)
(* Properties                                                              *)
(***************************************************************************)
ScanTypeOK ==
    /\ {bind, hostToken, onScreen} \subseteq Sessions \cup {NoSession}
    /\ view \in {"idle", "showing", "expired"}
    /\ begun \in [Sessions -> {"no", "asked", "made", "over"}]
    /\ errors \in 0..MaxErrors

ScanQuiet == (\A p \in Polls : poll[p].at = "idle") /\ \A s \in Sessions : begun[s] \notin {"asked", "made"}

\* A scan ends as it looks (beginScan, scanState and the panel's polling).
\* The hub makes no host that the machine is left without the token of, unless
\* the answer that carried it was lost; it makes one for a session, unless two
\* polls exchanged it at once; the panel calls a code expired only when it is;
\* and a code that it shows is the one the plugin asks about - except where a
\* poll of an older code forgets the newer one, or the panel shows another code
\* than the plugin made last, because two were asked for at once or an answer
\* did not reach it.
ScanEndsWell ==
    /\ \A s \in Sessions : session[s].hosts > 1 => overlapped
    /\ view = "expired" => session[onScreen].old \/ overlapped \/ crossed
    /\ ScanQuiet =>
         /\ (\E s \in Sessions : session[s].hosts > 0) => hostToken # NoSession \/ answerLost
         /\ view = "showing" =>
              bind = onScreen \/ crossed \/ strayed \/ overlapped \/ hostToken # NoSession \/ session[onScreen].old
=============================================================================
