-------------------------------- MODULE Plugin --------------------------------
(***************************************************************************)
(* The dsh-web-remote plugin (web-remote/src/index.ts): one process with a  *)
(* tunnel to the hub, a direct listener, and the file host.json that both   *)
(* are configured from.  The panel's calls are asynchronous functions over  *)
(* the same variables; handleRpcRoute answers after 30 s and lets a slow    *)
(* call run on, and there may be several panels, so that calls overlap at   *)
(* every await.  A slot of Slots is a call under way, together with the     *)
(* syncDirect it may have started and does not wait for.                    *)
(*                                                                         *)
(* Three situations in which the code is known to go wrong are recorded in  *)
(* `excuse` and left out of the properties: a configuration that is written *)
(* or used although it has changed since it was read, or is being changed   *)
(* ("stale"), two synchronisations of the direct listener beside each other *)
(* ("overlap"), and what disconnect and revoke do to a tunnel that was      *)
(* started while they waited ("lost").                                      *)
(***************************************************************************)
EXTENDS Naturals

CONSTANTS Slots,       \* calls that can be under way together
          Codes,       \* access codes, Off among them
          Off,         \* no access code
          Down,        \* there is no tunnel, no listener, no temporary file
          MaxCalls,    \* bound: calls of the panel
          MaxEnds      \* bound: tunnels that end by themselves

ASSUME PluginAssumption == /\ Off \in Codes
                           /\ Down \notin Codes \cup [code : Codes, counted : BOOLEAN]
                           /\ MaxCalls \in Nat /\ MaxEnds \in Nat

VARIABLES file,      \* host.json: [mode, code]
          tmp,       \* host.json.tmp, shared by every saveConfig
          token,     \* a host token is persisted
          tunnel,    \* the access code of the JoinHandle's gate, or Down
          handle,    \* handle !== null
          live,      \* liveAccessCode, as the panel shows it
          meter,     \* the process has its reporter
          port,      \* the open listener, [code, counted], or Down
          direct,    \* directHandle: "null", "port", or "gone" once it is stopped
          applied,   \* directAccessCode and directMeter, or Down (undefined)
          disposed,  \* the plugin is being taken down
          teardown,  \* where the teardown is
          call,      \* slot -> the call under way
          sync,      \* slot -> its syncDirect
          excuse,    \* see above
          calls, ends

disk == <<file, tmp, token>>
tun == <<tunnel, handle, live, meter>>
lan == <<port, direct, applied>>
down == <<disposed, teardown>>
vars == <<disk, tun, lan, down, call, sync, excuse, calls, ends>>

Configs == [mode : {"lan", "join"}, code : Codes]
Ops == {"connect", "scan", "auto", "disconnect", "revoke", "code", "compat"}
Idle == [op |-> "none", at |-> "idle", cfg |-> [mode |-> "lan", code |-> Off],
         fresh |-> TRUE]
NoSync == [at |-> "idle", code |-> Off, counted |-> FALSE]

PluginTypeOK ==
    /\ file \in Configs /\ tmp \in Configs \cup {Down}
    /\ {token, handle, meter, disposed} \subseteq BOOLEAN
    /\ tunnel \in Codes \cup {Down} /\ live \in Codes
    /\ port \in [code : Codes, counted : BOOLEAN] \cup {Down}
    /\ direct \in {"null", "port", "gone"}
    /\ applied \in [code : Codes, counted : BOOLEAN] \cup {Down}
    /\ teardown \in {"no", "direct", "flush", "done"}
    /\ call \in [Slots -> [op : Ops \cup {"none"}, cfg : Configs, fresh : BOOLEAN,
                           at : {"idle", "register", "load", "write", "rename",
                                 "finish", "failed", "flush", "direct", "probe"}]]
    /\ sync \in [Slots -> [at : {"idle", "stopping", "listen", "bound"},
                           code : Codes, counted : BOOLEAN]]
    /\ excuse \subseteq {"stale", "overlap", "lost"}
    /\ calls \in 0..MaxCalls /\ ends \in 0..MaxEnds

\* apply: the plugin starts with what an earlier one has left on the disk,
\* and with autoConnect under way.
PluginInit ==
    /\ file \in Configs /\ tmp = Down /\ token \in BOOLEAN
    /\ file.mode = "join" => token
    /\ tunnel = Down /\ handle = FALSE /\ live = Off /\ meter = FALSE
    /\ port = Down /\ direct = "null" /\ applied = Down
    /\ disposed = FALSE /\ teardown = "no"
    /\ \E auto \in Slots :
          call = [s \in Slots |-> IF s = auto THEN [Idle EXCEPT !.op = "auto", !.at = "load"]
                                  ELSE Idle]
    /\ sync = [s \in Slots |-> NoSync]
    /\ excuse = {} /\ calls = 0 /\ ends = 0

At(s, op, at) == call[s].op \in op /\ call[s].at = at
Goto(s, at) == call' = [call EXCEPT ![s].at = at]
Return(s) == call' = [call EXCEPT ![s] = Idle]
Blame(what, if) == excuse' = IF if THEN excuse \cup {what} ELSE excuse

-----------------------------------------------------------------------------
(* The direct listener: syncDirect, stopDirect, startDirectWithRetry.       *)

\* Somebody is between the first and the last step of moving the listener.
Moving == \/ \E s \in Slots : sync[s].at # "idle" \/ call[s].at = "direct"
          \/ teardown = "direct"

\* directHandle.stop(): the port is free at once, the promise resolves later.
ClosePort == /\ port' = IF direct = "port" THEN Down ELSE port
             /\ direct' = "gone"
             /\ UNCHANGED applied

\* What stopDirect does after its await: the handle is forgotten whatever it
\* is by now.
Forget == direct' = "null" /\ applied' = Down /\ UNCHANGED port

\* The listener runs with another code, or without the meter.
\* (a form that looks at the code only)
OtherCode(w) == applied # Down /\ applied.code # w.code
Outdated(w) == applied # Down /\ applied # w

\* Up to the first await of syncDirect, in the step of the caller.
SyncFrom(s, code, counted) ==
    LET w == [code |-> code, counted |-> counted]
        stop == direct # "null" /\ Outdated(w)
        at == IF stop THEN "stopping" ELSE "listen"
    IN  /\ sync' = [sync EXCEPT ![s] =
                       IF stop \/ direct = "null"
                       THEN [at |-> at, code |-> code, counted |-> counted] ELSE NoSync]
        /\ IF stop THEN ClosePort ELSE UNCHANGED lan

SyncStopped(s) ==
    /\ sync[s].at = "stopping"
    /\ Forget
    /\ sync' = [sync EXCEPT ![s].at = "listen"]
    /\ Blame("overlap", direct = "port")
    /\ UNCHANGED <<disk, tun, down, call, calls, ends>>

\* startGateway listens; the callback comes later.
SyncListen(s) ==
    /\ sync[s].at = "listen" /\ port = Down
    /\ port' = [code |-> sync[s].code, counted |-> sync[s].counted]
    /\ sync' = [sync EXCEPT ![s].at = "bound"]
    /\ UNCHANGED <<disk, tun, direct, applied, down, call, excuse, calls, ends>>

\* After the retries the address is still in use: syncDirect forgets whatever
\* handle there is.
SyncGiveUp(s) ==
    /\ sync[s].at = "listen" /\ port # Down
    /\ direct' = "null" /\ applied' = Down
    /\ sync' = [sync EXCEPT ![s] = NoSync]
    /\ Blame("overlap", TRUE)
    /\ UNCHANGED <<disk, tun, port, down, call, calls, ends>>

\* "收尾可能恰在 startDirect 的异步 listen 期间到达": the listener is stopped again.
TooLate == disposed

SyncBound(s) ==
    /\ sync[s].at = "bound"
    /\ sync' = [sync EXCEPT ![s] = NoSync]
    /\ IF TooLate THEN port' = Down /\ UNCHANGED <<direct, applied>>
       ELSE /\ direct' = "port"
            /\ applied' = [code |-> sync[s].code, counted |-> sync[s].counted]
            /\ UNCHANGED port
    /\ UNCHANGED <<disk, tun, down, call, excuse, calls, ends>>

-----------------------------------------------------------------------------
(* The calls of the panel.                                                  *)

\* A new call needs a slot whose last syncDirect has ended.
Begin(s) == /\ call[s] = Idle /\ sync[s] = NoSync /\ ~disposed
            /\ calls < MaxCalls /\ calls' = calls + 1

\* connect: nothing is up, and no lock is held; a tunnel of this process that
\* nobody has a handle of holds it.  scan-state does not look.
Connect(s) ==
    /\ Begin(s)
    /\ \E op \in {"connect", "scan"} :
          /\ op = "connect" => ~handle /\ tunnel = Down
          /\ call' = [call EXCEPT ![s] = [Idle EXCEPT !.op = op, !.at = "register"]]
    /\ UNCHANGED <<disk, tun, lan, down, sync, excuse, ends>>

\* registerJoin and consume: a new token is persisted, or the old one is read.
Register(s) ==
    /\ At(s, {"connect", "scan"}, "register")
    /\ \/ token' = TRUE /\ Goto(s, "load")
       \/ UNCHANGED token /\ IF token /\ call[s].op = "connect" THEN Goto(s, "load")
                             ELSE Return(s)
    /\ UNCHANGED <<file, tmp, tun, lan, down, sync, excuse, calls, ends>>

\* loadConfig.  What the call makes of it is in Written.
Load(s) ==
    /\ At(s, Ops \ {"auto"}, "load")
    /\ call' = [call EXCEPT ![s].at = "write", ![s].fresh = TRUE, ![s].cfg =
                  IF call[s].op = "code" THEN [file EXCEPT !.code = call[s].cfg.code]
                  ELSE file]
    /\ UNCHANGED <<disk, tun, lan, down, sync, excuse, calls, ends>>

Written(c) == CASE c.op \in {"connect", "scan"} -> [c.cfg EXCEPT !.mode = "join"]
                [] c.op = "revoke" -> [c.cfg EXCEPT !.mode = "lan"]
                [] OTHER -> c.cfg

\* saveConfig: the content goes to the one temporary file ...
Write(s) ==
    /\ At(s, Ops, "write")
    /\ tmp' = Written(call[s])
    /\ Goto(s, "rename")
    /\ UNCHANGED <<file, token, tun, lan, down, sync, excuse, calls, ends>>

\* ... which the second of two overlapping calls no longer finds.
Rename(s) ==
    /\ At(s, Ops, "rename")
    /\ IF tmp = Down THEN Goto(s, "failed") /\ UNCHANGED <<file, tmp, excuse>>
       ELSE /\ file' = tmp /\ tmp' = Down
            /\ call' = [c \in Slots |->
                          IF c = s THEN [call[c] EXCEPT !.at = "finish"]
                          ELSE [call[c] EXCEPT !.fresh = (call[c] = Idle)]]
            /\ Blame("stale", \/ ~call[s].fresh \/ tmp # Written(call[s])
                              \/ call[s].op \in {"connect", "scan"} /\ ~token)
    /\ UNCHANGED <<token, tun, lan, down, sync, calls, ends>>

\* saveConfig has thrown: the call answers with an error, and what it had set
\* in memory before stays.
SaveFailed(s) ==
    /\ call[s].at = "failed"
    /\ Return(s)
    /\ Blame("stale", TRUE)
    /\ UNCHANGED <<disk, tun, lan, down, sync, calls, ends>>

\* startTunnel: nothing once disposed; startJoin throws while a tunnel of the
\* process is up, after the panel's copies were set.
StartTunnel(s, cfg) ==
    IF disposed THEN UNCHANGED <<tun, lan, sync>>
    ELSE /\ live' = cfg.code /\ meter' = TRUE
         /\ IF tunnel = Down
            THEN tunnel' = cfg.code /\ handle' = TRUE /\ SyncFrom(s, cfg.code, TRUE)
            ELSE UNCHANGED <<tunnel, handle, lan, sync>>

Blames(s) == excuse' = excuse
    \cup (IF call[s].fresh /\ \A c \in Slots : call[c].op # "code" THEN {}
          ELSE {"stale"})
    \cup (IF Moving THEN {"overlap"} ELSE {})
    \cup (IF tunnel # Down THEN {"lost"} ELSE {})

Connected(s) ==
    /\ At(s, {"connect", "scan"}, "finish")
    /\ Return(s)
    /\ StartTunnel(s, Written(call[s]))
    /\ Blames(s)
    /\ UNCHANGED <<disk, down, calls, ends>>

\* autoConnect: the configuration is read, detectInsecure asks the hub, and
\* the token is read again before the tunnel starts with that configuration.
AutoLoad(s) ==
    /\ At(s, {"auto"}, "load")
    /\ IF ~handle /\ tunnel = Down /\ file.mode = "join" /\ token
       THEN call' = [call EXCEPT ![s].at = "probe", ![s].cfg = file, ![s].fresh = TRUE]
       ELSE Return(s)
    /\ UNCHANGED <<disk, tun, lan, down, sync, excuse, calls, ends>>

AutoStart(s) ==
    /\ At(s, {"auto"}, "probe")
    /\ Return(s)
    /\ IF token THEN StartTunnel(s, call[s].cfg) /\ Blames(s)
       ELSE UNCHANGED <<tun, lan, sync, excuse>>
    /\ UNCHANGED <<disk, down, calls, ends>>

\* JoinHandle.stop up to its await: the tunnel is closed, the lock is free,
\* and the hook "stopped" clears the handle.
CloseTunnel == tunnel' = Down /\ handle' = FALSE /\ UNCHANGED <<live, meter>>

Disconnect(s) ==
    /\ Begin(s)
    /\ \E op \in {"disconnect", "revoke"} :
          call' = [call EXCEPT ![s] = [Idle EXCEPT !.op = op, !.at = "flush"]]
    /\ IF handle THEN CloseTunnel ELSE UNCHANGED tun
    /\ UNCHANGED <<disk, lan, down, sync, excuse, ends>>

\* The final report is over (or there was no tunnel): the handle is cleared
\* again, also that of a tunnel started meanwhile.
Flushed(s) ==
    /\ At(s, {"disconnect", "revoke"}, "flush")
    /\ handle' = FALSE
    /\ Blame("lost", handle)
    /\ IF call[s].op = "disconnect" THEN Return(s) /\ UNCHANGED lan
       ELSE IF direct # "null" THEN Goto(s, "direct") /\ ClosePort
       ELSE Goto(s, "load") /\ Forget
    /\ UNCHANGED <<disk, tunnel, live, meter, down, sync, calls, ends>>

DirectStopped(s) ==
    /\ At(s, {"revoke"}, "direct")
    /\ Forget
    /\ Goto(s, "load")
    /\ Blame("overlap", (\E c \in Slots : sync[c].at # "idle")
                        \/ direct = "port" \/ tunnel # Down)
    /\ UNCHANGED <<disk, tun, down, sync, calls, ends>>

\* "先落盘置为 lan (...) 再清 token"
Revoked(s) ==
    /\ At(s, {"revoke"}, "finish")
    /\ token' = (token /\ call[s].cfg.mode = "lan")
    /\ Return(s)
    /\ Blame("stale", ~call[s].fresh)
    /\ UNCHANGED <<file, tmp, tun, lan, down, sync, calls, ends>>

\* setAccessCode: in memory at once, then in the file, then at the listener.
SetCode(s) ==
    /\ Begin(s)
    /\ \E code \in Codes :
          /\ live' = code
          /\ tunnel' = IF handle THEN code ELSE tunnel
          /\ call' = [call EXCEPT ![s] = [Idle EXCEPT !.op = "code", !.at = "load",
                                                      !.cfg.code = code]]
    /\ Blame("stale", \E c \in Slots : call[c].op = "code")
    /\ UNCHANGED <<disk, handle, meter, lan, down, sync, ends>>

CodeSaved(s) ==
    /\ At(s, {"code"}, "finish")
    /\ Return(s)
    /\ SyncFrom(s, call[s].cfg.code, meter)
    /\ excuse' = excuse \cup (IF Moving THEN {"overlap"} ELSE {})
                        \cup (IF call[s].fresh THEN {} ELSE {"stale"})
    /\ UNCHANGED <<disk, tun, down, calls, ends>>

\* setUiCompat writes a switch of its own, and the rest as it has read it.
SetCompat(s) ==
    /\ Begin(s)
    /\ call' = [call EXCEPT ![s] = [Idle EXCEPT !.op = "compat", !.at = "load"]]
    /\ UNCHANGED <<disk, tun, lan, down, sync, excuse, ends>>

CompatSaved(s) ==
    /\ At(s, {"compat"}, "finish")
    /\ Return(s)
    /\ UNCHANGED <<disk, tun, lan, down, sync, excuse, calls, ends>>

-----------------------------------------------------------------------------
(* The tunnel ends for good by itself (rejected, superseded), and teardown. *)

TunnelEnds ==
    /\ handle /\ ends < MaxEnds /\ ends' = ends + 1
    /\ CloseTunnel
    /\ UNCHANGED <<disk, lan, down, call, sync, excuse, calls>>

Teardown ==
    /\ teardown = "no"
    /\ disposed' = TRUE
    /\ teardown' = "direct"
    /\ IF direct # "null" THEN ClosePort ELSE UNCHANGED lan
    /\ Blame("overlap", Moving)
    /\ UNCHANGED <<disk, tun, call, sync, calls, ends>>

TeardownTunnel ==
    /\ teardown = "direct"
    /\ Forget
    /\ IF handle THEN CloseTunnel ELSE UNCHANGED tun
    /\ teardown' = "flush"
    /\ UNCHANGED <<disk, disposed, call, sync, excuse, calls, ends>>

\* The reporter has sent its last report; applied := false.
TeardownDone ==
    /\ teardown = "flush"
    /\ teardown' = "done"
    /\ UNCHANGED <<disk, tun, lan, disposed, call, sync, excuse, calls, ends>>

PluginNext ==
    \/ \E s \in Slots :
          \/ SyncStopped(s) \/ SyncListen(s) \/ SyncGiveUp(s) \/ SyncBound(s)
          \/ Connect(s) \/ Register(s) \/ Load(s) \/ Write(s) \/ Rename(s)
          \/ SaveFailed(s) \/ Connected(s) \/ AutoLoad(s) \/ AutoStart(s)
          \/ Disconnect(s) \/ Flushed(s) \/ DirectStopped(s) \/ Revoked(s)
          \/ SetCode(s) \/ CodeSaved(s) \/ SetCompat(s) \/ CompatSaved(s)
    \/ TunnelEnds \/ Teardown \/ TeardownTunnel \/ TeardownDone

PluginSpec == PluginInit /\ [][PluginNext]_vars

-----------------------------------------------------------------------------
Quiet == \A s \in Slots : call[s] = Idle /\ sync[s] = NoSync

\* After the teardown, and after the calls it has overtaken, the process has
\* no tunnel and no open listener: a call that is under way when the plugin is
\* unloaded must notice it at its next step.
TornDown ==
    teardown = "done" /\ Quiet /\ excuse \cap {"overlap", "lost"} = {}
        => tunnel = Down /\ port = Down

\* The code that the owner has set last is the one everything asks for: the
\* file, the gate of the tunnel, the listener and the panel, after whatever
\* reconnections, and a listener beside a tunnel counts its bytes.
CodeApplied ==
    Quiet /\ excuse = {} /\ ~disposed
        => /\ tunnel # Down => /\ tunnel = file.code /\ live = file.code
                               /\ port # Down /\ port.counted
           /\ port # Down => port.code = file.code

\* "绝不留下「join 模式 + 无 token」的死态" (comment in revoke): at no moment, so
\* that a crash at any await cannot leave it either.
NoDeadState == "stale" \notin excuse /\ file.mode = "join" => token

\* Calls that overtake each other leave nothing half done: neither a tunnel or a
\* listener of a plugin that is gone, nor a file that says join without a token.
NothingHalfDone == TornDown /\ NoDeadState

\* What the calls of the panel leave when they have all come to their ends, in
\* whatever order their steps fell (the handlers of web-remote/src/index.ts hold
\* no lock across their awaits): nothing half done, and the code set last.
CallsSettle == NothingHalfDone /\ CodeApplied
=============================================================================
