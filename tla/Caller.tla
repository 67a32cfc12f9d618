------------------------------- MODULE Caller -------------------------------
(***************************************************************************)
(* The caller's commands on one job: submit and retry-submit, which share  *)
(* submissions/<id>/intent.json and request.json, result and approve.      *)
(* Commands are separate processes: they may be killed between two writes  *)
(* and nothing keeps two of them apart.                                    *)
(***************************************************************************)
EXTENDS LocalFarm

CONSTANTS
    Commands,      \* terminals from which the caller runs a command
    MaxPlans       \* bound: times a plan is drawn up

ASSUME CallerAssumption == None # "ready"      \* no report is not a report

VARIABLES
    intent,        \* intent.json: whether the job asks for mock work
    request,       \* request.json: the plan, with its fresh task ids
    command,       \* what each submit or retry-submit is about to do
    plans,         \* plans drawn up so far
    overlapped,    \* history: two submissions have run at once
    report         \* report.json of the last result command

callerVars == <<localVars, intent, request, command, plans, overlapped, report>>

CallerInit ==
    /\ LocalInit
    /\ intent = None /\ request = None /\ report = None
    /\ command = [c \in Commands |-> [at |-> "idle", plan |-> None]]
    /\ plans = 0
    /\ overlapped = FALSE

Running(c) == command[c].at # "idle"
Goto(c, at, plan) == command' = [command EXCEPT ![c] = [at |-> at, plan |-> plan]]

\* submit writes the intent, retry-submit reads it; a stored request is reused.
BeginSubmit(c, mock) ==
    /\ ~Running(c)
    /\ intent \in {None, mock}
    /\ intent' = mock
    /\ overlapped' = (overlapped \/ \E d \in Commands : Running(d))
    /\ IF request = None THEN Goto(c, "upload", None) ELSE Goto(c, "call", request)
    /\ UNCHANGED <<localVars, request, plans, report>>

\* A mutant: the request is kept after the answer only.
PrepareInMemory(c) ==
    /\ command[c].at = "upload"
    /\ plans < MaxPlans
    /\ plans' = plans + 1
    /\ Goto(c, "call", plans + 1)
    /\ UNCHANGED <<localVars, intent, request, overlapped, report>>

\* The inputs are in the bucket: draw up the tasks and keep the request.
Prepare(c) ==
    /\ command[c].at = "upload"
    /\ plans < MaxPlans
    /\ plans' = plans + 1
    /\ request' = plans + 1
    /\ Goto(c, "call", plans + 1)
    /\ UNCHANGED <<localVars, intent, overlapped, report>>

\* The request arrives; the answer is not told from a lost one.
SendSubmit(c) ==
    /\ command[c].at = "call"
    /\ LocalSubmit(command[c].plan, intent)
    /\ Goto(c, "idle", None)
    /\ UNCHANGED <<intent, request, plans, overlapped, report>>

\* Killed, offline or refused: the spool stays as it is.
StopSubmit(c) ==
    /\ Running(c)
    /\ Goto(c, "idle", None)
    /\ UNCHANGED <<localVars, intent, request, plans, overlapped, report>>

ReviewAnyPreview(s) ==
    /\ s = "clean" /\ ltask[s].status = "done"
    /\ \E c \in Stages : Upstream[c] = s /\ ltask[c].status = "done"
ReviewReady(s) ==
    /\ s = "clean" /\ ltask[s].status = "done"
    /\ \A c \in Stages : Upstream[c] = s => ltask[c].status = "done"

MockAncestry(s) ==
    LET mocked[t \in Stages] ==
            \/ ljob.mock
            \/ ltask[t].output # None /\ ltask[t].output.mock
            \/ Upstream[t] # None /\ mocked[Upstream[t]]
    IN  mocked[s]

\* A row of the report is a candidate, or a diagnostic with the reason.
CandidateRow(s) ==
    IF MockAncestry(s) THEN "synthetic_ancestry"
    ELSE IF ltask[s].output.hard THEN "ready" ELSE "mechanical_checks_not_passed"

CollectResult ==
    /\ ljob # None
    /\ report' = IF ReviewReady("clean") THEN CandidateRow("clean")
                 ELSE IF UnfinishedStages = {} THEN "no_usable_candidate" ELSE "pending"
    /\ UNCHANGED <<localVars, intent, request, command, plans, overlapped>>

SubmitStep(c) ==
    \/ \E mock \in BOOLEAN : BeginSubmit(c, mock)
    \/ Prepare(c) \/ SendSubmit(c) \/ StopSubmit(c)

ReviewStep ==
    \/ CollectResult
    \/ /\ LocalWork \/ LocalApprove \/ LocalCancel
       /\ UNCHANGED <<intent, request, command, plans, overlapped, report>>

\* Wherever a submission is killed, and however often it is retried, the plan the
\* coordinator accepted is the one every later retry sends: the job is neither
\* duplicated nor refused as a conflict.  Two submissions of one job at the same
\* time are excluded: both may draw up a plan, and nothing locks the spool.
RetrySamePlan == ~overlapped /\ ljob # None => request = ljob.plan

\* What a report offers for approval the coordinator accepts, for as long as the
\* job is open: the client's reading of the view and the server's rules agree.
ReadyApprovable == report = "ready" /\ ljob.status = "open" => MayApprove("clean")
=============================================================================
