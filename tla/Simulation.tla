----------------------------- MODULE Simulation -----------------------------
(***************************************************************************)
(* The main loop of a simulation on all ranks: moving window, background   *)
(* field, checkpoints, and restarts of a job that has died.                *)
(*                                                                         *)
(* A rank runs init, then for every step runOneStep, movingWindowCheck and *)
(* dumpOneStep (SimulationHelper::startSimulation).  Ranks are coupled by  *)
(* the exchanges with their neighbours in runOneStep and by the barriers   *)
(* around a checkpoint.  What a rank computes is reduced to what a restart *)
(* has to bring back: the slab of space its data belong to, the step they  *)
(* have been advanced to, and which background fields are contained in E   *)
(* and B.  Data also remember the restarts they have been through, which   *)
(* no action reads: a restart leaves traces in them, and the properties    *)
(* below say which.                                                        *)
(*                                                                         *)
(* The files and the checkpoint master file survive the death of a job,    *)
(* everything else does not.                                               *)
(***************************************************************************)
EXTENDS MovingWindow, Sequences

CONSTANTS
  RunSteps,          \* --steps
  CheckpointPeriod,  \* --checkpoints, 0 for none
  Background,        \* InfluenceParticlePusher of the background fields
  AllowRestartStep,  \* whether a restart may name an earlier checkpoint
  MaxCrash           \* bound: how often the job dies

ASSUME SimulationAssumption ==
  /\ RunSteps \in Nat
  /\ CheckpointPeriod \in Nat
  /\ Background \in BOOLEAN
  /\ AllowRestartStep \in BOOLEAN
  /\ MaxCrash \in Nat

VARIABLES
  pc,       \* pc[r]: where rank r is
  cur,      \* cur[r]: currentStep
  window,   \* window[r]: MovingWindow and CommunicatorMPI
  data,     \* data[r]: fields and particles
  launch,   \* the restart step of the job: a step, Last or Fresh
  files,    \* files[s]: the checkpoint of step s
  master,   \* the lines of the checkpoint master file
  crashes,  \* how often the job has died
  from,     \* history: from[r] is the step rank r has restarted from
  rewound   \* history: steps that a --restart-step has gone back behind

vars == <<pc, cur, window, data, launch, files, master, crashes, from, rewound>>

Steps == 0 .. RunSteps

(* Slabs that exist: at most one slide per step.                            *)
Slabs == 0 .. Devices + RunSteps

Fresh == -1    \* no --restart
Last == -2     \* --restart without --restart-step

NoBackground == [s \in 0 .. RunSteps + 1 |-> 0]

(* No restarts.                                                             *)
NoPast == [s \in Steps |-> 0]

(* Data: their slab, step and background fields; past[s] is how often they  *)
(* have been loaded from the checkpoint of step s, and again how many of    *)
(* these loads were from checkpoints of slide steps.                        *)
NewData(slab, step) ==
  [slab |-> slab, time |-> step, bg |-> NoBackground, past |-> NoPast, again |-> 0]

(* What a file holds where nothing was written.                             *)
Missing == [NewData(0, 0) EXCEPT !.slab = -1]

NoFile == [slides |-> 0, at |-> [k \in Slabs |-> Missing]]

Job == {pc[r] : r \in Ranks}

-----------------------------------------------------------------------------
Init ==
  /\ pc = [r \in Ranks |-> "down"]
  /\ cur = [r \in Ranks |-> 0]
  /\ window = [r \in Ranks |-> NewWindow]
  /\ data = [r \in Ranks |-> NewData(r, 0)]
  /\ launch = Fresh
  /\ files = [s \in Steps |-> NoFile]
  /\ master = <<>>
  /\ crashes = 0
  /\ from = [r \in Ranks |-> Fresh]
  /\ rewound = {}

(* The job is started, with --restart once there is a master file.  With    *)
(* --restart-step it will write the checkpoints after that step again.      *)
Launch ==
  /\ Job = {"down"}
  /\ pc' = [r \in Ranks |-> "init"]
  /\ launch' \in IF master = <<>> THEN {Fresh}
                 ELSE {Last} \cup
                      (IF AllowRestartStep THEN {master[i] : i \in DOMAIN master} ELSE {})
  /\ rewound' = rewound \cup {s \in Steps : launch' \notin {Fresh, Last} /\ s > launch'}
  /\ UNCHANGED <<cur, window, data, files, master, crashes, from>>

(* MySimulation::init without a restart.  Step 0 is dumped.                 *)
InitFresh(r) ==
  /\ pc[r] = "init"
  /\ launch = Fresh
  /\ pc' = [pc EXCEPT ![r] = "check"]
  /\ cur' = [cur EXCEPT ![r] = 0]
  /\ window' = [window EXCEPT ![r] = NewWindow]
  /\ data' = [data EXCEPT ![r] = NewData(r, 0)]
  /\ UNCHANGED <<launch, files, master, crashes, from, rewound>>

(* Every rank reads the last line of the master file by itself.             *)
RestartStep == IF launch = Last THEN master[Len(master)] ELSE launch

(* pushBGField: adds the field of a step, or subtracts it, and asks for the *)
(* slide counter of that step.                                              *)
PushBGField(d, step, n) == IF Background THEN [d EXCEPT !.bg[step] = @ + n] ELSE d

PushBGWindow(w, step) == IF Background THEN GetSlideInfo(w, step) ELSE w

(* What a rank has loaded, with the load recorded.                          *)
Loaded(d, step) ==
  [d EXCEPT !.past[step] = @ + 1, !.again = @ + (IF SlideInCurrentStep(step) THEN 1 ELSE 0)]

(* A restart that goes on with the step after the checkpoint.               *)
InitRestartSkipsStep(r) ==
  LET step == RestartStep
      w == RestoreWindow(files[step].slides, step)
      loaded == files[step].at[Slab(r, w)]
  IN /\ pc[r] = "init"
     /\ launch # Fresh
     /\ step < RunSteps
     /\ loaded # Missing
     /\ pc' = [pc EXCEPT ![r] = "recheck"]
     /\ cur' = [cur EXCEPT ![r] = step + 1]
     /\ window' = [window EXCEPT ![r] = PushBGWindow(w, step + 1)]
     /\ data' = [data EXCEPT ![r] = PushBGField(Loaded(loaded, step), step + 1, -1)]
     /\ from' = [from EXCEPT ![r] = step]
     /\ UNCHANGED <<launch, files, master, crashes, rewound>>

(* A restart that leaves the background field of the checkpoint in place.   *)
InitRestartKeepsBackground(r) ==
  LET step == RestartStep
      w == RestoreWindow(files[step].slides, step)
      loaded == files[step].at[Slab(r, w)]
  IN /\ pc[r] = "init"
     /\ launch # Fresh
     /\ loaded # Missing
     /\ pc' = [pc EXCEPT ![r] = "recheck"]
     /\ cur' = [cur EXCEPT ![r] = step]
     /\ window' = [window EXCEPT ![r] = w]
     /\ data' = [data EXCEPT ![r] = Loaded(loaded, step)]
     /\ from' = [from EXCEPT ![r] = step]
     /\ UNCHANGED <<launch, files, master, crashes, rewound>>

(* MySimulation::init with a restart: the writer restores the window and    *)
(* loads the data of the rank's slab, a load of what is not there throws;   *)
(* init then removes the background field of the step after the checkpoint, *)
(* and startSimulation goes one step back.                                  *)
InitRestart(r) ==
  LET step == RestartStep
      w == RestoreWindow(files[step].slides, step)
      loaded == files[step].at[Slab(r, w)]
  IN /\ pc[r] = "init"
     /\ launch # Fresh
     /\ loaded # Missing
     /\ pc' = [pc EXCEPT ![r] = "recheck"]
     /\ cur' = [cur EXCEPT ![r] = step]
     /\ window' = [window EXCEPT ![r] = PushBGWindow(w, step + 1)]
     /\ data' = [data EXCEPT ![r] = PushBGField(Loaded(loaded, step), step + 1, -1)]
     /\ from' = [from EXCEPT ![r] = step]
     /\ UNCHANGED <<launch, files, master, crashes, rewound>>

-----------------------------------------------------------------------------
(* The loop is left when currentStep has reached runSteps.                  *)
LoopHead(r) == IF cur[r] < RunSteps THEN "run" ELSE "done"

(* movingWindowCheck: slides if the step is one of those, the rank that is  *)
(* put at the bottom resets its data and fills the new slab; then the       *)
(* background field of the step is added.  A dump follows, except after a   *)
(* restart.                                                                 *)
MovingWindowCheck(r) ==
  LET step == cur[r]
      counted == GetSlideInfo(window[r], step)
      slide == SlideInCurrentStep(step)
      w == IF slide THEN CommSlide(counted) ELSE counted
      wraps == slide /\ Position(r, w) = Devices - 1
      d == IF wraps THEN NewData(Slab(r, w), step) ELSE data[r]
  IN /\ pc[r] \in {"check", "recheck"}
     /\ window' = [window EXCEPT ![r] = PushBGWindow(w, step)]
     /\ data' = [data EXCEPT ![r] = PushBGField(d, step, 1)]
     /\ pc' = [pc EXCEPT ![r] = IF pc[r] = "check" THEN "dump" ELSE LoopHead(r)]
     /\ UNCHANGED <<cur, launch, files, master, crashes, from, rewound>>

(* dumpOneStep: the plugins are notified; every checkpointPeriod steps a    *)
(* checkpoint begins.                                                       *)
DumpOneStep(r) ==
  /\ pc[r] = "dump"
  /\ pc' = [pc EXCEPT ![r] = IF CheckpointPeriod # 0 /\ cur[r] % CheckpointPeriod = 0
                             THEN "barrier" ELSE LoopHead(r)]
  /\ UNCHANGED <<cur, window, data, launch, files, master, crashes, from, rewound>>

(* The barrier before the checkpoint, and the collective creation of its    *)
(* file, which empties one that exists.                                     *)
Barrier ==
  /\ Job = {"barrier"}
  /\ pc' = [r \in Ranks |-> "create"]
  /\ UNCHANGED <<cur, window, data, launch, files, master, crashes, from, rewound>>

CreateFile ==
  /\ Job = {"create"}
  /\ files' = [files EXCEPT ![cur[0]] = NoFile]
  /\ pc' = [r \in Ranks |-> "write"]
  /\ UNCHANGED <<cur, window, data, launch, master, crashes, from, rewound>>

(* checkpointPlugins: the rank's data are written at the place of its slab, *)
(* with the slide counter of the step.                                      *)
Checkpoint(r) ==
  LET w == GetSlideInfo(window[r], cur[r]) IN
  /\ pc[r] = "write"
  /\ window' = [window EXCEPT ![r] = w]
  /\ files' = [files EXCEPT ![cur[r]].slides = w.counter, ![cur[r]].at[Slab(r, w)] = data[r]]
  /\ pc' = [pc EXCEPT ![r] = "written"]
  /\ UNCHANGED <<cur, data, launch, master, crashes, from, rewound>>

(* No barrier after the checkpoint.                                         *)
WrittenNoBarrier ==
  \E r \in Ranks :
    /\ pc[r] = "written"
    /\ pc' = [pc EXCEPT ![r] = IF r = 0 THEN "master" ELSE LoopHead(r)]
    /\ UNCHANGED <<cur, window, data, launch, files, master, crashes, from, rewound>>

(* A barrier that only rank 0 leaves.                                       *)
WrittenRankZero ==
  /\ Job = {"written"}
  /\ pc' = [pc EXCEPT ![0] = "master"]
  /\ UNCHANGED <<cur, window, data, launch, files, master, crashes, from, rewound>>

(* The barrier after the checkpoint.                                        *)
Written ==
  /\ Job = {"written"}
  /\ pc' = [r \in Ranks |-> IF r = 0 THEN "master" ELSE LoopHead(r)]
  /\ UNCHANGED <<cur, window, data, launch, files, master, crashes, from, rewound>>

(* writeCheckpointStep on rank 0.                                           *)
WriteCheckpointStep ==
  /\ pc[0] = "master"
  /\ master' = Append(master, cur[0])
  /\ rewound' = rewound \ {cur[0]}
  /\ pc' = [pc EXCEPT ![0] = LoopHead(0)]
  /\ UNCHANGED <<cur, window, data, launch, files, crashes, from>>

(* runOneStep ends once the neighbours are in the same step, as it needs    *)
(* their particles and fields.  The background field is subtracted after    *)
(* the particle push, before the fields are advanced.                       *)
RunOneStep(r) ==
  /\ pc[r] = "run"
  /\ \A q \in Neighbours(r, window[r]) :
       cur[q] > cur[r] \/ (cur[q] = cur[r] /\ pc[q] = "run")
  /\ data' = [data EXCEPT ![r] = PushBGField([data[r] EXCEPT !.time = @ + 1], cur[r], -1)]
  /\ cur' = [cur EXCEPT ![r] = @ + 1]
  /\ pc' = [pc EXCEPT ![r] = "check"]
  /\ UNCHANGED <<window, launch, files, master, crashes, from, rewound>>

(* Any rank fails, and MPI takes down the job.                              *)
Crash ==
  /\ crashes < MaxCrash
  /\ Job \cap {"down"} = {}
  /\ Job # {"done"}
  /\ crashes' = crashes + 1
  /\ pc' = [r \in Ranks |-> "down"]
  /\ cur' = [r \in Ranks |-> 0]
  /\ window' = [r \in Ranks |-> NewWindow]
  /\ data' = [r \in Ranks |-> NewData(r, 0)]
  /\ launch' = Fresh
  /\ from' = [r \in Ranks |-> Fresh]
  /\ UNCHANGED <<files, master, rewound>>

Terminated ==
  /\ Job = {"done"}
  /\ UNCHANGED vars

Progress ==
  \/ Launch
  \/ \E r \in Ranks :
       \/ InitFresh(r)
       \/ InitRestart(r)
       \/ MovingWindowCheck(r)
       \/ DumpOneStep(r)
       \/ Checkpoint(r)
       \/ RunOneStep(r)
  \/ Barrier
  \/ CreateFile
  \/ Written
  \/ WriteCheckpointStep

Next == Progress \/ Crash \/ Terminated

Spec == Init /\ [][Next]_vars

(* A job that can go on does: each rank is a running process, the collective *)
(* operations end, and a dead job is started again.  Crashes are not fair.  *)
FairSpec == Spec /\ WF_vars(Progress)

-----------------------------------------------------------------------------
DataType ==
  [slab : Slabs, time : Steps, bg : [0 .. RunSteps + 1 -> Int], past : [Steps -> Nat], again : Nat]

(* Type invariant.                                                          *)
TypeOK ==
  /\ pc \in [Ranks -> {"down", "init", "check", "recheck", "dump", "barrier", "create",
                       "write", "written", "master", "run", "done"}]
  /\ cur \in [Ranks -> Steps]
  /\ window \in [Ranks -> [counter : 0 .. RunSteps + 1, last : 0 .. RunSteps + 1,
                           yoffset : -(Devices - 1) .. 0]]
  /\ data \in [Ranks -> DataType]
  /\ launch \in Steps \cup {Fresh, Last}
  /\ files \in [Steps -> [slides : 0 .. RunSteps + 1, at : [Slabs -> DataType \cup {Missing}]]]
  /\ master \in Seq(Steps)
  /\ crashes \in 0 .. MaxCrash
  /\ from \in [Ranks -> Steps \cup {Fresh}]
  /\ rewound \in SUBSET Steps

(* Every line of the master file names a checkpoint that can be restarted   *)
(* from: the data of all ranks are there, for the step, and for the slabs   *)
(* that the slide counter in the file says but for the slides of former     *)
(* restarts.  The lines of steps that a --restart-step has gone back behind *)
(* are the exception, until their checkpoint has been written again.        *)
CheckpointUsable ==
  \A i \in DOMAIN master :
    LET f == files[master[i]] IN
    master[i] \notin rewound =>
      \A k \in f.slides .. f.slides + Devices - 1 :
        f.at[k] # Missing /\ f.at[k].time = master[i] /\ f.at[k].slab = k + f.at[k].again

(* Ranks whose window and data are settled for their current step.          *)
Settled(r) == pc[r] \in {"dump", "barrier", "create", "write", "written", "master", "run", "done"}

(* Slides of the rank's job in a step that had been slid in before: a job   *)
(* that restarts from the checkpoint of a slide step slides in it again.    *)
Surplus(r) == IF SlideInCurrentStep(from[r]) THEN 1 ELSE 0

(* Slides that are counted but have not happened: with background fields a  *)
(* restart asks for the slide counter of the step after the checkpoint.     *)
Early(r) ==
  IF Background /\ cur[r] = from[r] /\ SlideInCurrentStep(cur[r] + 1) THEN 1 ELSE 0

(* However often the job has died and wherever it restarts, a rank has slid *)
(* once in every slide step and in no other, and the slide counter is the   *)
(* number of slides since the start of the simulation, though every query   *)
(* of it may count one.  What is not so is exactly this: a job restarted    *)
(* from the checkpoint of a slide step is one slide ahead until it ends,    *)
(* and one restarted from the step before a slide counts it a step early.   *)
OneSlidePerStep ==
  \A r \in Ranks : Settled(r) =>
    /\ Position(r, window[r]) = (r - SlidesUpTo(cur[r]) - Surplus(r)) % Devices
    /\ window[r].counter = SlidesUpTo(cur[r]) + Early(r)

(* The data of a rank have been advanced to its current step and belong to  *)
(* the slab it is at, but for one slab for every restart from a slide step  *)
(* that they have been through, in whichever jobs, and for an early count.  *)
DataInPlace ==
  \A r \in Ranks : Settled(r) =>
    /\ data[r].slab = Slab(r, window[r]) - Early(r) + data[r].again
    /\ data[r].time = cur[r]

(* What restarts have left in the fields of data with this past, of the     *)
(* background field of step s: the restart from s adds it a second time,    *)
(* and the one from s - 1 has subtracted it in place of that of s - 1.      *)
Residue(past, s) ==
  (IF s \in DOMAIN past THEN past[s] ELSE 0) - (IF s - 1 \in DOMAIN past THEN past[s - 1] ELSE 0)

(* While plugins see the fields and particles are pushed, the background    *)
(* field of the current step is in them once and no other, and while the    *)
(* fields are advanced none is, whatever slides, checkpoints and restarts   *)
(* there have been; but every restart leaves in the data it loads, for      *)
(* good, the difference between the fields of its step and of the next.     *)
BackgroundOnce ==
  \A r \in Ranks, s \in 0 .. RunSteps + 1 :
    /\ Settled(r) /\ Background =>
         data[r].bg[s] = (IF s = cur[r] THEN 1 ELSE 0) + Residue(data[r].past, s)
    /\ pc[r] = "check" /\ Background => data[r].bg[s] = Residue(data[r].past, s)
    /\ ~Background => data[r].bg[s] = 0

(* The simulation is completed, if the job does not die forever and is not  *)
(* restarted from a checkpoint that a --restart-step has gone back behind,  *)
(* be it the last line of the master file.                                  *)
Completes ==
  []("init" \in Job /\ launch # Fresh => RestartStep \notin rewound) => <>[](Job = {"done"})
=============================================================================
