------------------------------- MODULE Launcher -------------------------------
(***************************************************************************)
(* `rdsh serve` (gateway/src/serve.ts, join.ts join(), spawn-dsh.ts): one   *)
(* process that starts dsh as its child, sets itself up around it, and is   *)
(* restarted by systemd or launchd when it ends with an error.  In lan and  *)
(* cloud mode it is a gateway ("serve"), in join mode a tunnel ("join").    *)
(*                                                                         *)
(* What can leave a dsh behind is recorded in `orphans` with its cause:     *)
(*   "early"    a signal before the handlers are installed                  *)
(*   "join"     join() throws after spawnDsh: it has no try around it       *)
(*   "tdz"      the hub rejects the host while join() still waits for the   *)
(*              direct listener: the hook calls a shutdown that is not      *)
(*              initialised yet, and the exception ends the process         *)
(* and everything else would be an error of the code.                       *)
(***************************************************************************)
EXTENDS Naturals

CONSTANTS MaxRestarts      \* bound: restarts by the supervisor

ASSUME LauncherAssumption == MaxRestarts \in Nat

VARIABLES mode,      \* "serve" or "join", from host.json
          stage,     \* how far serve() or join() is
          dsh,       \* the child: [state, how] ("none", "starting", "up", "dead")
          term,      \* SIGTERM has been sent to it, and the SIGKILL timer runs
          watched,   \* the exit handler of the child and the signals' are set
          exit,      \* the exit code of the shutdown under way, or NotYet
          asked,     \* a signal asked the process to end
          missed,    \* dsh died between its ready line and the watchdog
          orphans, restarts

launcher == <<mode, stage, dsh, term, watched, exit, asked, missed, orphans, restarts>>

Setup == {"spawning", "cookie", "picker", "token", "tls", "listen", "direct"}
NotYet == 2

LauncherTypeOK ==
    /\ mode \in {"serve", "join"}
    /\ stage \in Setup \cup {"up", "closing", "flushing", "stopping", "exited", "failed"}
    /\ dsh \in [state : {"none", "starting", "up", "dead"}, how : {"code", "signal"}]
    /\ {term, watched, asked, missed} \subseteq BOOLEAN
    /\ exit \in {0, 1, NotYet}
    /\ orphans \subseteq {"early", "join", "tdz", "other"}
    /\ restarts \in 0..MaxRestarts

LauncherInit ==
    /\ mode \in {"serve", "join"}
    /\ stage = "spawning" /\ dsh = [state |-> "starting", how |-> "code"]
    /\ term = FALSE /\ watched = FALSE /\ exit = NotYet /\ asked = FALSE
    /\ missed = FALSE /\ orphans = {} /\ restarts = 0

Alive == dsh.state \in {"starting", "up"}

\* The process ends; a child that is alive stays.
Ends(code, cause) ==
    /\ stage' = IF code = 0 THEN "exited" ELSE "failed"
    /\ orphans' = IF Alive THEN orphans \cup {cause} ELSE orphans
    /\ exit' = code

-----------------------------------------------------------------------------
(* spawnDsh.                                                                *)

DshReady ==
    /\ stage = "spawning" /\ dsh.state = "starting"
    /\ dsh' = [dsh EXCEPT !.state = "up"]
    /\ stage' = "cookie"
    /\ UNCHANGED <<mode, term, watched, exit, asked, missed, orphans, restarts>>

\* READY_TIMEOUT_MS: the child is killed, the promise rejected.
ReadyTimeout ==
    /\ stage = "spawning" /\ dsh.state = "starting"
    /\ dsh' = [state |-> "dead", how |-> "signal"]
    /\ stage' = "failed" /\ exit' = 1
    /\ UNCHANGED <<mode, term, watched, asked, missed, orphans, restarts>>

\* dsh ends: by itself, by the SIGTERM it was sent, or killed (out of memory,
\* segmentation fault, the SIGKILL of stopDsh).  Before its ready line that
\* rejects spawnDsh.  Later only the exit handler notices it.
DshDies ==
    /\ Alive
    /\ \E how \in {"code", "signal"} : dsh' = [state |-> "dead", how |-> how]
    /\ IF stage = "spawning"
       THEN stage' = "failed" /\ exit' = 1 /\ UNCHANGED missed
       ELSE /\ missed' = (missed \/ (~watched /\ stage \in Setup))
            /\ IF watched /\ exit = NotYet
               THEN IF mode = "serve" THEN stage' = "failed" /\ exit' = 1
                    ELSE stage' = "closing" /\ exit' = 1
               ELSE UNCHANGED <<stage, exit>>
    /\ UNCHANGED <<mode, term, watched, asked, orphans, restarts>>

-----------------------------------------------------------------------------
(* serve() and join(), await by await.                                      *)

Step(from, to) ==
    /\ stage = from /\ stage' = to
    /\ UNCHANGED <<mode, dsh, term, watched, exit, asked, missed, orphans, restarts>>

\* dsh.stop() before the error is thrown on: the next steps are Stopping's.
StopAndThrow(from) ==
    /\ stage = from /\ stage' = "stopping" /\ exit' = 1
    /\ term' = Alive
    /\ UNCHANGED <<mode, dsh, watched, asked, missed, orphans, restarts>>

\* exchangeDshSessionCookie answers null when dsh is gone or refuses.  serve()
\* tries three times and gives up; join() goes on without a cookie; an old dsh
\* has no token, and nothing is asked.
Exchange == \/ Step("cookie", "picker")
            \/ mode = "serve" /\ StopAndThrow("cookie")

\* checkRemotePickerGraph never throws.
CheckPicker == Step("picker", IF mode = "serve" THEN "tls" ELSE "token")

\* registerJoin: no token, the hub does not answer, or it refuses.  Nothing
\* stops dsh.
RegisterToken ==
    /\ mode = "join"
    /\ \/ Step("token", "listen")
       \/ /\ stage = "token"
          /\ Ends(1, "join")
          /\ UNCHANGED <<mode, dsh, term, watched, asked, missed, restarts>>

LoadTls ==
    /\ mode = "serve"
    /\ Step("tls", "listen") \/ StopAndThrow("tls")

\* startGateway or startJoin (which throws when another process has the lock).
Listen ==
    \/ /\ mode = "serve" /\ StopAndThrow("listen")
    \/ /\ mode = "join" /\ stage = "listen"
       /\ Ends(1, "join")
       /\ UNCHANGED <<mode, dsh, term, watched, asked, missed, restarts>>
    \/ /\ mode = "join" /\ Step("listen", "direct")
    \/ /\ mode = "serve" /\ stage = "listen" /\ stage' = "up" /\ watched' = TRUE
       /\ UNCHANGED <<mode, dsh, term, exit, asked, missed, orphans, restarts>>

\* The direct listener is up, or was given up; only now the handlers are set.
DirectUp ==
    /\ stage = "direct" /\ stage' = "up" /\ watched' = TRUE
    /\ UNCHANGED <<mode, dsh, term, exit, asked, missed, orphans, restarts>>

\* The tunnel is rejected for good.
HubRejects ==
    /\ mode = "join" /\ exit = NotYet
    /\ \/ stage = "direct" /\ Ends(1, "tdz")
       \/ stage = "up" /\ stage' = "closing" /\ exit' = 1 /\ UNCHANGED orphans
    /\ UNCHANGED <<mode, dsh, term, watched, asked, missed, restarts>>

\* SIGINT, SIGTERM, SIGHUP: shutdown, once; without a handler the process is
\* killed.
Signal ==
    /\ stage \notin {"exited", "failed"} /\ ~asked /\ asked' = TRUE
    /\ IF watched
       THEN /\ UNCHANGED orphans
            /\ IF exit = NotYet
               THEN /\ exit' = 0
                    /\ stage' = IF mode = "serve" THEN "stopping" ELSE "closing"
                    /\ term' = (mode = "serve" /\ Alive)
               ELSE UNCHANGED <<exit, stage, term>>
       ELSE Ends(0, "early") /\ UNCHANGED term
    /\ UNCHANGED <<mode, dsh, watched, missed, restarts>>

\* join's shutdown: the direct listener, the tunnel with its last report, dsh.
CloseDirect == Step("closing", "flushing")

CloseJoin ==
    /\ stage = "flushing" /\ stage' = "stopping"
    /\ term' = Alive
    /\ UNCHANGED <<mode, dsh, watched, exit, asked, missed, orphans, restarts>>

\* Mutant: "只判 exitCode 会误以为还在跑".
GoneByCode == ~Alive /\ (term \/ dsh.how = "code")

\* What stopDsh waits for: the exit event after its SIGTERM, or nothing when the
\* child has ended already, with an exit code or by a signal.
Gone == ~Alive

\* process.exit: serve() answers with the way dsh ended, join() as asked.
Exit ==
    /\ stage = "stopping" /\ Gone
    /\ \E code \in IF mode = "join" THEN {exit}
                   ELSE IF dsh.how = "code" /\ exit = 0 THEN {0, 1}
                   ELSE IF term THEN {exit} ELSE {1} : Ends(code, "other")
    /\ UNCHANGED <<mode, dsh, term, watched, asked, missed, restarts>>

\* Restart=on-failure; a new process and a new dsh.
Restart ==
    /\ stage = "failed" /\ restarts < MaxRestarts /\ restarts' = restarts + 1
    /\ stage' = "spawning" /\ dsh' = [state |-> "starting", how |-> "code"]
    /\ term' = FALSE /\ watched' = FALSE /\ exit' = NotYet /\ asked' = FALSE
    /\ missed' = FALSE
    /\ UNCHANGED <<mode, orphans>>

LauncherNext ==
    \/ DshReady \/ ReadyTimeout \/ DshDies
    \/ Exchange \/ CheckPicker \/ RegisterToken \/ LoadTls \/ Listen \/ DirectUp
    \/ HubRejects \/ Signal \/ CloseDirect \/ CloseJoin \/ Exit \/ Restart

\* A child that was sent SIGTERM is killed five seconds later at the latest;
\* every other await of the shutdown has a timeout of its own.
Killed == term /\ DshDies

LauncherFairness == WF_launcher(Killed) /\ WF_launcher(CloseDirect)
                    /\ WF_launcher(CloseJoin) /\ WF_launcher(Exit)

LauncherSpec == LauncherInit /\ [][LauncherNext]_launcher /\ LauncherFairness

-----------------------------------------------------------------------------
\* Whenever the process ends, by an error of any step, by a signal at any
\* moment, or because dsh or the tunnel ended, no dsh is left behind that the
\* supervisor's next start would add another one to ("否则泄漏孤儿 dsh（监听随机端口），
\* 在 supervisor 崩溃重试下无界累积"), but for the three causes above.
NoOrphanDsh == "other" \notin orphans

\* Once a shutdown has begun, because dsh has died under the watchdog, by a
\* signal, a rejection, or an error of a later step of the start, the process
\* ends, however dsh has ended and whatever else happens meanwhile; only then
\* can the supervisor restart it.
ShutdownEnds == exit # NotYet ~> stage \in {"exited", "failed"}

\* The process ends when it is to end, and leaves no child behind.
EndsClean == []NoOrphanDsh /\ ShutdownEnds
=============================================================================
