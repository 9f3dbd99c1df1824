------------------------------- MODULE MachineMC -------------------------------
(* What one gateway machine runs beside the tunnel, for TLC: the join lock, the
   heartbeat of a connection, the usage reporter, the start and end of the process
   with its child, and the parsers of frames.  They share no state: part says which
   is at work, the others stay in one of their initial states, where no fair action
   is enabled.                                                                  *)
EXTENDS JoinLock, Heartbeat, UsageReporter, Launcher, Frames

VARIABLE part

MachineInit ==
  /\ part \in {"lock", "beat", "reporter", "launcher", "frames"}
  /\ LockInit /\ BeatInit /\ ReporterInit /\ LauncherInit /\ FramesInit
  /\ part # "lock" => fs = "link"
  /\ part # "beat" => \A s \in Sides : beat[s] = HeartbeatMs
  /\ part # "launcher" => mode = "serve"
  /\ part # "frames" => end = HubEnd

MachineNext ==
  \/ part = "lock" /\ LockNext /\ UNCHANGED <<beatVars, reporterVars, launcher, frameVars, part>>
  \/ part = "beat" /\ BeatNext /\ UNCHANGED <<lockVars, reporterVars, launcher, frameVars, part>>
  \/ part = "reporter" /\ ReporterNext /\ UNCHANGED <<lockVars, beatVars, launcher, frameVars, part>>
  \/ part = "launcher" /\ LauncherNext /\ UNCHANGED <<lockVars, beatVars, reporterVars, frameVars, part>>
  \/ part = "frames" /\ FramesNext /\ UNCHANGED <<lockVars, beatVars, reporterVars, launcher, part>>

MachineSpec ==
  /\ MachineInit /\ [][MachineNext]_<<lockVars, beatVars, reporterVars, launcher, frameVars, part>>
  /\ LockFairness /\ ReporterFairness /\ LauncherFairness
================================================================================
