------------------------------ MODULE MCParts ------------------------------
(* The parts beside the queues, each with its own behaviours in one state    *)
(* space: a behaviour is one of the part it starts with.                     *)
EXTENDS Caller, Updates, NodeProof, Transfer, MfaSetup, MeshFrame, SoundDirection,
        QueueLocks, SlotLocks

CONSTANT Parts
VARIABLES part, cjob, ctask, cattempts, cworker, cengines, cactive, cstaged, cobjects

Loops == {<<"a", "gpu">>, <<"a", "cpu">>, <<"b", "gpu">>}

Signed(s, v, c, f) == [sequence |-> s, version |-> v, channel |-> c, file |-> f]
Releases == {Signed(1, 3, "stable", "three"), Signed(1, 3, "nightly", "three"),
             Signed(2, 2, "nightly", "two")}

LongLocal == <<1, 2, 3>>
Fetched == {<<1, 2>>, <<2, 2, 1>>}

SoundCard(action, loopable, frequency) ==
    [fit |-> TRUE, category |-> "ambience", action |-> action, tail |-> "short",
     loopable |-> loopable, must_not |-> <<"breath", "breath">>, frequency |-> frequency]
Cards == {SoundCard("whoosh", TRUE, <<100001, 100004>>), SoundCard("hit", FALSE, None),
          SoundCard("hit", FALSE, <<5000, 5000>>),
          [SoundCard("hit", FALSE, None) EXCEPT !.fit = FALSE]}
Words == SUBSET {"blade", "swish", "impact", "breath"}
Terms == {"weapon", "movement", "ambience", "whoosh", "hit", "short", "medium", "breath",
          "clipping", "music", "speech", "vocals", "sustained_drone", "airflow", "blowing",
          "sustained_wind", "fade_in", "looping_artifacts", "background_noise"}

WorkerTasks == [a |-> "gpu", b |-> "gpu", c |-> "cpu"]

\* One node of the queue between a job with work for one slot and a revision of it with
\* work for the other, while engines, reports and suspension change and rival
\* transactions lock rows.
PlanRow(j, kind, slot, capability, priority) ==
    [job |-> j, position |-> 1, parent |-> None, kind |-> kind, slot |-> slot,
     capability |-> capability, priority |-> priority]

Crowd == INSTANCE FarmQueue WITH
    Jobs <- {"j", "r"}, Tasks <- {"recon", "proc"}, Nodes <- {"n"}, Members <- {},
    ControlJobs <- {"j"}, ParentJob <- [j |-> None, r |-> "j"],
    Plan <- [recon |-> PlanRow("j", "reconstruct", "gpu", "sf3d", 80),
             proc |-> PlanRow("r", "process", "cpu", "blender", 90)],
    Results <- [t \in {"recon", "proc"} |-> {"pass"}],
    EngineSets <- {{"blender"}, {"sf3d", "blender"}},
    Reports <- {[caps |-> {"sf3d", "blender"}, paused |-> FALSE],
                [caps |-> {"blender"}, paused |-> TRUE]},
    Suspendable <- {"n"}, MaxAttempts <- 1, MinLease <- 1, MaxLease <- 2,
    LeaseRequests <- {1}, Targets <- {None, "recon"}, HeartbeatLimit <- 0,
    Backoff <- <<1>>, RivalLocks <- SUBSET {"recon", "proc"}, ClaimPauses <- {0},
    job <- cjob, task <- ctask, attempts <- cattempts, worker <- cworker,
    engines <- cengines, active <- cactive, staged <- cstaged, objects <- cobjects

crowdVars == <<cjob, ctask, cattempts, cworker, cengines, cactive, cstaged, cobjects>>

\* A node is handed a task only while it and its owner may call, its last report is
\* recent and says it is not paused, and its engine is still allowed: what the report and
\* the administration say when the call grants, not when the node asked.
NodeEntitled == Crowd!NodeEntitled

vars == <<callerVars, updateVars, proofVars, transferVars, mfaVars, frameVars, soundVars,
          lockVars, slotVars, crowdVars>>

PartsInit ==
    /\ part \in Parts
    /\ CallerInit /\ UpdatesInit /\ ProofInit /\ TransferInit /\ MfaInit
    /\ FrameInit /\ SoundInit /\ LocksInit /\ Crowd!Init
    /\ SlotsInit /\ (part # "slots" => door = "node")

Others(p) ==
    /\ part = p /\ UNCHANGED part
    /\ p \notin {"submit", "review"} => UNCHANGED callerVars
    /\ p # "update" => UNCHANGED updateVars
    /\ p # "proof" => UNCHANGED proofVars
    /\ p # "transfer" => UNCHANGED transferVars
    /\ p # "mfa" => UNCHANGED mfaVars
    /\ p # "mesh" => UNCHANGED frameVars
    /\ p # "sound" => UNCHANGED soundVars
    /\ p # "locks" => UNCHANGED lockVars
    /\ p # "slots" => UNCHANGED slotVars
    /\ p # "crowd" => UNCHANGED crowdVars

PartsNext ==
    \/ Others("submit") /\ \E c \in Commands : SubmitStep(c)
    \/ Others("review") /\ (ReviewStep \/ (ljob = None /\ SubmitStep("one")))
    \/ Others("update") /\ UpdatesNext
    \/ Others("proof") /\ ProofNext
    \/ Others("transfer") /\ TransferNext
    \/ Others("mfa") /\ MfaNext
    \/ Others("mesh") /\ FrameNext
    \/ Others("sound") /\ SoundNext
    \/ Others("locks") /\ LocksNext
    \/ Others("slots") /\ SlotsNext
    \/ Others("crowd") /\ Crowd!Next

PartsSpec == PartsInit /\ [][PartsNext]_<<part, vars>>
=============================================================================
