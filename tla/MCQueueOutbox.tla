---------------------------- MODULE MCQueueOutbox ----------------------------
(***************************************************************************)
(* Two farms with several tasks, in one state space: the queue between its  *)
(* callers and a member, with the candidates of a plan, and a member's      *)
(* worker process with two results in its outbox, whose files may be        *)
(* refused.  A behaviour is one of the farm it starts with.                 *)
(***************************************************************************)
EXTENDS MCFarmQueue

VARIABLES farm, pjob, ptask, pattempts, pworker, pengines, pactive, pstaged, pobjects,
          pjournal, polder, pmarker, pexecutor, puploader, ppeeked, pstopped, pfaults

pairVars == <<pjob, ptask, pattempts, pworker, pengines, pactive, pstaged, pobjects,
              pjournal, polder, pmarker, pexecutor, puploader, ppeeked, pstopped, pfaults>>
allVars == <<farm, vars, pairVars>>

PairTasks == {"recon1", "recon2"}
PairTargets == PairTasks \cup {None}
PairPlan == [recon1 |-> Reconstruct("j", 1, "sf3d"), recon2 |-> Reconstruct("j", 2, "triposr")]
PairResults == [t \in PairTasks |-> {"pass", "unfit"}]
PairParents == [j |-> None]
PairBackoff == <<1>>

Pair == INSTANCE FarmWorker WITH
    Jobs <- {"j"}, Tasks <- PairTasks, Nodes <- {}, Members <- {"m"},
    ControlJobs <- {}, ParentJob <- PairParents, Plan <- PairPlan,
    Results <- PairResults, EngineSets <- {}, Reports <- DagReport,
    Suspendable <- {}, MaxAttempts <- 1, MinLease <- 1, MaxLease <- 1,
    LeaseRequests <- {1}, Targets <- PairTargets, HeartbeatLimit <- 0,
    Backoff <- PairBackoff, RivalLocks <- NoRivals, ClaimPauses <- {0},
    Self <- "m", Seconds <- 1, MaxPending <- 2, RunSlots <- {"gpu"},
    Prefetch <- FALSE, OfflineSpeculation <- FALSE, Unsendable <- {"unfit"},
    MaxFaults <- 0,
    job <- pjob, task <- ptask, attempts <- pattempts, worker <- pworker,
    engines <- pengines, active <- pactive, staged <- pstaged, objects <- pobjects,
    journal <- pjournal, older <- polder, marker <- pmarker, executor <- pexecutor,
    uploader <- puploader, peeked <- ppeeked, stopped <- pstopped, faults <- pfaults

FarmsInit == farm \in {"dag", "pair"} /\ Init /\ Pair!FarmInit

InDag(A) == farm = "dag" /\ A /\ UNCHANGED <<farm, pairVars>>
InPair(A) == farm = "pair" /\ A /\ UNCHANGED <<farm, vars>>

FarmsNext == InDag(Next) \/ InPair(Pair!FarmNext)

\* FarmFairness of the pair; no other worker reports in it.
FarmsFairness ==
    /\ WF_allVars(InPair(Pair!BeginPass \/ Pair!PassStep))
    /\ WF_allVars(InPair(pexecutor["gpu"].pc # "idle" /\ Pair!ExecutorStep("gpu")))
    /\ WF_allVars(InPair(Pair!Tick /\ Pair!Alone))
    /\ WF_allVars(InPair(Pair!Beat /\ Pair!Alone))

FarmsFairSpec == FarmsInit /\ [][FarmsNext]_allVars /\ FarmsFairness

\* With two results in the outbox, each that can be sent leaves it unless one
\* before it is refused: no other row, no lapse and no lost claim keeps it there.
OutboxInOrder == Pair!OutboxDrains
=============================================================================
