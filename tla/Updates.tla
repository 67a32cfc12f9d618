------------------------------ MODULE Updates ------------------------------
(***************************************************************************)
(* The signed update feed and `clayfarm update`: what the server offers,   *)
(* what one home has staged, and which release each Python environment     *)
(* runs.  A home may be used from several environments: the installation   *)
(* script makes a new one from a checkout in any directory that does not    *)
(* exist, and knows nothing of the home.  A manifest is its sequence,      *)
(* version, channel and file name; the wheel it signs is followed as the   *)
(* manifest itself.  A signature, expiry or platform that does not verify  *)
(* ends a command with nothing written.  Commands of a home run one at a   *)
(* time; they may be killed between two writes.                            *)
(***************************************************************************)
EXTENDS Absent, Naturals

CONSTANTS
    Manifests,     \* signed releases: [sequence, version, channel, file]
    Environments   \* directories that hold an environment or may come to hold one

\* The unsigned release of the checkout, and a directory whose package does not import.
Shipped == [sequence |-> 0, version |-> 1, channel |-> "stable", file |-> "shipped"]
Broken == [Shipped EXCEPT !.version = 0]

ASSUME UpdatesAssumption ==
    /\ \A m \in Manifests : m.sequence \in Nat
    /\ None \notin Manifests \cup {Shipped, Broken}
    /\ None \notin [manifest : Manifests, status : {"downloaded", "applying", "applied"}]

VARIABLES
    shelf,         \* manifests in the server's update directory
    ustate,        \* update-state.json
    wheels,        \* the home's updates directory
    installed,     \* the release of each environment; None: no such directory
    update         \* what the running command is about to do, and in which environment

updateVars == <<shelf, ustate, wheels, installed, update>>

Highwater == IF ustate = None THEN 0 ELSE ustate.manifest.sequence
NoUpdate == [op |-> "idle", manifest |-> None, env |-> None]

UpdatesInit ==
    /\ shelf = {}
    /\ ustate = None
    /\ wheels = [f \in {m.file : m \in Manifests} |-> None]
    /\ installed = [e \in Environments |-> None]
    /\ update = NoUpdate

\* The operator of the server adds and takes away files.
Publish(m) == shelf' = shelf \cup {m} /\ UNCHANGED <<ustate, wheels, installed, update>>
Retire(m) == shelf' = shelf \ {m} /\ UNCHANGED <<ustate, wheels, installed, update>>

\* The newest version of a channel; the sequence decides between rebuilds.
LatestUpdate(channel) ==
    LET offered == {m \in shelf : m.channel = channel}
        newest == {m \in offered : \A n \in offered :
                     n.version < m.version
                       \/ (n.version = m.version /\ n.sequence <= m.sequence)}
    IN  newest

VerifiedManifest(m) == m.sequence >= Highwater
Equivocates(m) == m.sequence = Highwater /\ ustate # None /\ ustate.manifest # m
Imports(e) == installed[e] \notin {None, Broken}
Do(op, m, e) == update' = [op |-> op, manifest |-> m, env |-> e]
Then(op) == Do(op, update.manifest, update.env)

\* `update download` begins with the check; `update check` ends here.
ClientCheck(channel, e) ==
    /\ update.op = "idle" /\ Imports(e)
    /\ \E m \in LatestUpdate(channel) :
         /\ VerifiedManifest(m)
         /\ ~Equivocates(m)
         /\ m.version > installed[e].version
         /\ Do("stage", m, e)
    /\ UNCHANGED <<shelf, ustate, wheels, installed>>

\* The wheel is fetched by release and kept under its base name only.
StageWheel ==
    /\ update.op = "stage"
    /\ update.manifest \in shelf
    /\ VerifiedManifest(update.manifest)
    /\ wheels' = [wheels EXCEPT ![update.manifest.file] = update.manifest]
    /\ Then("staged")
    /\ UNCHANGED <<shelf, ustate, installed>>

Stored(m, status) == ustate' = [manifest |-> m, status |-> status]

StageState ==
    /\ update.op = "staged"
    /\ Stored(update.manifest, "downloaded")
    /\ update' = NoUpdate
    /\ UNCHANGED <<shelf, wheels, installed>>

ApplyUnrecorded(m, e) ==
    /\ update.op = "idle" /\ Imports(e)
    /\ VerifiedManifest(m)
    /\ Do("install", m, e)
    /\ UNCHANGED <<shelf, ustate, wheels, installed>>

\* The sequence is recorded before pip is started.
BeginApply(m, e) ==
    /\ update.op = "idle" /\ Imports(e)
    /\ VerifiedManifest(m)
    /\ Stored(m, "applying")
    /\ Do("install", m, e)
    /\ UNCHANGED <<shelf, wheels, installed>>

\* The staged release, if its wheel has not been overwritten since; or the
\* --manifest and --bundle the operator carries.
ApplyStaged(e) ==
    /\ ustate # None
    /\ wheels[ustate.manifest.file] = ustate.manifest
    /\ BeginApply(ustate.manifest, e)
ApplyCarried(e) == \E m \in Manifests : BeginApply(m, e)

\* pip; a wheel whose metadata names another version was refused before.
Install ==
    /\ update.op = "install"
    /\ installed' = [installed EXCEPT ![update.env] = update.manifest]
    /\ Then("smoke")
    /\ UNCHANGED <<shelf, ustate, wheels>>

FinishApply ==
    /\ update.op = "smoke"
    /\ installed[update.env].version = update.manifest.version
    /\ Stored(update.manifest, "applied")
    /\ update' = NoUpdate
    /\ UNCHANGED <<shelf, wheels, installed>>

\* The command fails or is killed; pip may leave the old package, the new or none.
StopUpdate ==
    /\ update.op # "idle"
    /\ IF update.op = "install"
       THEN \E left \in {installed[update.env], update.manifest, Broken} :
              installed' = [installed EXCEPT ![update.env] = left]
       ELSE UNCHANGED installed
    /\ update' = NoUpdate
    /\ UNCHANGED <<shelf, ustate, wheels>>

\* install.sh and install.ps1 refuse a path that exists and ask for nothing else: not
\* for the home, its recorded sequence or an update that runs.  They may fail after
\* the directory is made.
InstallScript(e) ==
    /\ installed[e] = None
    /\ \E release \in {Shipped, Broken} :
         installed' = [installed EXCEPT ![e] = release]
    /\ UNCHANGED <<shelf, ustate, wheels, update>>

\* The user deletes an environment, as the script's refusal asks of him.
RemoveEnvironment(e) ==
    /\ installed[e] # None /\ e # update.env
    /\ installed' = [installed EXCEPT ![e] = None]
    /\ UNCHANGED <<shelf, ustate, wheels, update>>

UpdatesNext ==
    \/ \E m \in Manifests : Publish(m) \/ Retire(m)
    \/ \E e \in Environments :
         \/ \E c \in {m.channel : m \in Manifests} : ClientCheck(c, e)
         \/ ApplyStaged(e) \/ ApplyCarried(e)
         \/ InstallScript(e) \/ RemoveEnvironment(e)
    \/ StageWheel \/ StageState \/ Install \/ FinishApply \/ StopUpdate

\* Whatever is killed in the middle of an update, and whichever environments are made
\* or deleted beside it, no signed release runs that is newer than the sequence on
\* record; so pip never replaces a release, or is started beside one in another
\* environment of the home, that is newer than the one it installs.
UpdateCovered ==
    \A e \in Environments : installed[e] # None =>
        /\ installed[e].sequence <= Highwater
        /\ update.op = "install" => installed[e].sequence <= update.manifest.sequence
=============================================================================
