----------------------------- MODULE ModelStore -----------------------------
(***************************************************************************)
(* The models of one profile on one node: Models.builtin_sync, sync_recipe *)
(* and verify, their files in models/<profile> and the lock models.lock.   *)
(* The operator's commands and the agent are processes; either may die     *)
(* between two writes, which frees the lock.  A release is followed by its *)
(* sequence and its content.  previous.json is written and never read.     *)
(***************************************************************************)
EXTENDS Naturals

CONSTANTS
    None,
    Recipes,     \* signed manifests: [sequence, content]
    MaxDrift     \* bound: upgrades and damages of the runtime

VARIABLES
    builtin,     \* the profile followed is built in, or needs a recipe
    core,        \* adapter, dependencies and files as they are now
    current,     \* current.json: the active release
    pending,     \* pending.json: installed, not yet verified
    ledger,      \* release-ledger.json: the last manifest accepted
    work         \* who holds models.lock, and for what

storeVars == <<builtin, core, current, pending, ledger, work>>

Bundled == [sequence |-> 0, content |-> "bundled"]
Releases == Recipes \cup {Bundled}
Installed == [release : Releases, core : 0..MaxDrift, verified : BOOLEAN]
Processes == {"operator", "agent"}
Work == [by : {"operator"}, op : {"sync"}, release : Recipes]
          \cup [by : Processes, op : {"verify", "activated"}, row : Installed]
          \cup [by : {"agent"}, op : {"generate"}, row : Installed]

ASSUME StoreAssumption ==
    /\ \A r \in Recipes : r.sequence \in Nat
    /\ Bundled \notin Recipes
    /\ MaxDrift \in Nat
    /\ None \notin Recipes \cup Installed \cup Work

StoreInit ==
    /\ builtin \in BOOLEAN
    /\ core = 0
    /\ current = None
    /\ pending = None
    /\ ledger = None
    /\ work = None

Unlocked == work = None
Unverified(release) == [release |-> release, core |-> core, verified |-> FALSE]

\* What _run and capabilities check: adapter, environment and files are those of the row.
Intact(row) == row.core = core
Ready == current # None /\ current.verified

----------------------------------------------------------------------------
BuiltinSync ==
    /\ Unlocked /\ builtin
    /\ current' = IF current # None /\ Intact(current) THEN current ELSE Unverified(Bundled)
    /\ UNCHANGED <<builtin, core, pending, ledger, work>>

\* Mutant: the ledger is not consulted.
AcceptsAny(recipe) == TRUE

\* verify_manifest with the high-water mark, and the check for equivocation.
Accepts(recipe) ==
    ledger # None => recipe.sequence > ledger.sequence \/ recipe = ledger

SyncBegin(recipe) ==
    /\ Unlocked /\ ~builtin
    /\ Accepts(recipe)
    /\ ledger' = recipe
    /\ work' = [by |-> "operator", op |-> "sync", release |-> recipe]
    /\ UNCHANGED <<builtin, core, current, pending>>

\* The environment is built, the weights are downloaded and their hashes hold.
SyncEnd ==
    /\ work # None /\ work.op = "sync"
    /\ pending' = Unverified(work.release)
    /\ work' = None
    /\ UNCHANGED <<builtin, core, current, ledger>>

VerifyBegin(by) ==
    LET row == IF pending # None THEN pending ELSE current
    IN  /\ Unlocked
        /\ row # None /\ Intact(row)
        /\ work' = [by |-> by, op |-> "verify", row |-> row]
        /\ UNCHANGED <<builtin, core, current, pending, ledger>>

VerifyActivate ==
    /\ work # None /\ work.op = "verify"
    /\ current' = [work.row EXCEPT !.verified = TRUE]
    /\ work' = [work EXCEPT !.op = "activated"]
    /\ UNCHANGED <<builtin, core, pending, ledger>>

VerifyEnd ==
    /\ work # None /\ work.op = "activated"
    /\ pending' = None
    /\ work' = None
    /\ UNCHANGED <<builtin, core, current, ledger>>

\* A step fails, or the process dies.
Abandon(by) ==
    /\ work # None /\ work.by = by
    /\ work' = None
    /\ UNCHANGED <<builtin, core, current, pending, ledger>>

\* The command line is upgraded, a dependency changes, a file is damaged.
Drift ==
    /\ core < MaxDrift
    /\ core' = core + 1
    /\ UNCHANGED <<builtin, current, pending, ledger, work>>

OperatorNext ==
    \/ BuiltinSync
    \/ \E recipe \in Recipes : SyncBegin(recipe)
    \/ SyncEnd
    \/ VerifyBegin("operator")
    \/ work # None /\ work.by = "operator" /\ (VerifyActivate \/ VerifyEnd)
    \/ Abandon("operator")
    \/ Drift

----------------------------------------------------------------------------
(* Properties.                                                             *)

Known(row) == row # None /\ row.release # Bundled

\* Verification never brings back an older release, nor other content under the
\* sequence that is active: not even when pending.json outlives the crash of the
\* very verification that activated it.
NeverDowngraded ==
    [][(Known(current) /\ Known(current')) =>
          \/ current'.release.sequence > current.release.sequence
          \/ current'.release = current.release]_storeVars
=============================================================================
