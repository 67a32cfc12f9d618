---------------------------- MODULE Parts_proofs ----------------------------
(***************************************************************************)
(* Theorems about the parts beside the queues: the setup of the second     *)
(* factor, meshes, updates, transfers, sounds, and the caller's commands   *)
(* on the local coordinator.  Each part is specified by itself here; the   *)
(* sections are independent of each other.                                 *)
(***************************************************************************)
EXTENDS Caller, Updates, Transfer, MfaSetup, MeshFrame, SoundDirection, TLAPS

----------------------------------------------------------------------------
(* The second factor.                                                      *)

MfaSpec == MfaInit /\ [][MfaNext]_mfaVars

\* Whatever commands of the home, or another home, run between the service and the
\* vault, a secret is only shown for the factor that it belongs to.
THEOREM SecretStaysPaired == MfaSpec => []SecretPaired
  <1>1. MfaInit => SecretPaired
    BY DEF MfaInit, SecretPaired
  <1>2. SecretPaired /\ [MfaNext]_mfaVars => SecretPaired'
    <2> SUFFICES ASSUME SecretPaired, [MfaNext]_mfaVars
                 PROVE  SecretPaired'
      OBVIOUS
    <2>1. CASE shown' = shown
      BY <2>1 DEF SecretPaired
    <2>2. CASE SeeFactor
      BY <2>2 DEF SeeFactor, SecretPaired
    <2>3. ASSUME NEW id \in 1..MaxFactors, ShowPending(id) \/ KeepSecret(id)
          PROVE  SecretPaired'
      BY <2>3 DEF ShowPending, KeepSecret, SecretPaired
    <2> QED
      BY <2>1, <2>2, <2>3
         DEF MfaNext, mfaVars, EnrolElsewhere, PrepareEnrollment, DieInSetup, VerifyFactor,
             FindSecret, ForgetSecret
  <1> QED
    BY <1>1, <1>2, PTL DEF MfaSpec

----------------------------------------------------------------------------
(* Meshes.  A mesh of a capability is one of those that were ever written   *)
(* for it; what says whether it is turned is its contract.                  *)

Turned(contract) == [axes |-> Standard, contract |-> contract]

\* The meshes that any worker may have left: three of TripoSR, one of the others.
Frames(c) ==
    IF c = "triposr"
    THEN {EngineMesh(c), [axes |-> UprightOnly(Own), contract |-> "zup-to-yup"],
          Turned("viewer")}
    ELSE {Turned("none")}

FrameRows == [mesh: UNION {Frames(c) : c \in MeshEngines}, capability: MeshEngines,
              turned: BOOLEAN]

FrameInv ==
    /\ scratch # None => scratch \in FrameRows /\ scratch.mesh \in Frames(scratch.capability)
    /\ recon # None => recon.mesh \in Frames(recon.capability)
    /\ stage # None \/ blended # None => recon # None
    /\ stage # None => stage.mesh.axes = Standard \/ (stage.revised /\ UnmarkedTriposr)
    /\ TurnedOnce

\* The conversion takes every mesh of TripoSR to the axes of glTF, and the meshes of
\* the other engines have them; a marked mesh has been turned.
LEMMA FramesTurn ==
    /\ \A m \in Frames("triposr") :
          TriposrToGltf(m) = Turned("viewer") /\ (m.contract = "viewer" => m = Turned("viewer"))
    /\ \A c : c # "triposr" => \A m \in Frames(c) : m = Turned("none")
  <1>1. TriposrToGltf(EngineMesh("triposr")) = Turned("viewer")
    BY DEF TriposrToGltf, EngineMesh, Turned, Standard
  <1>2. TriposrToGltf(Turned("viewer")) = Turned("viewer")
    BY DEF TriposrToGltf, Turned
  <1>3. YawOnly(UprightOnly(Own)) = Standard
    BY DEF YawOnly, UprightOnly, Standard, ViewerTurn, Own
  <1>4. TriposrToGltf([axes |-> UprightOnly(Own), contract |-> "zup-to-yup"])
            = Turned("viewer")
    BY <1>3 DEF TriposrToGltf, Turned
  <1>5. EngineMesh("triposr").contract # "viewer"
    BY DEF EngineMesh
  <1> QED
    BY <1>1, <1>2, <1>4, <1>5 DEF Frames

\* What earlier workers published is among the meshes of the capability.
LEMMA LegacyFrames ==
    ASSUME NEW c
    PROVE  LegacyMeshes(c) \subseteq Frames(c) /\ EngineMesh(c) \in Frames(c)
  BY DEF LegacyMeshes, Frames, EngineMesh, Turned

\* No step of the fleet leaves a mesh in the axes of its engine where it counts as turned,
\* but for the copy that a revision takes of an unmarked one.
LEMMA FrameInvKept ==
    ASSUME FrameInv, [FrameNext]_frameVars
    PROVE  FrameInv'
  <1>1. ASSUME NEW c \in MeshEngines, LegacyPublish(c)
        PROVE  FrameInv'
    BY <1>1, LegacyFrames DEF LegacyPublish, FrameInv, TurnedOnce
  <1>2. ASSUME NEW c \in MeshEngines, RunEngine(c)
        PROVE  FrameInv'
    BY <1>2, LegacyFrames DEF RunEngine, FrameInv, FrameRows, TurnedOnce, UnmarkedTriposr
  <1>3. CASE RunStale
    BY <1>3 DEF RunStale, FrameInv, FrameRows, TurnedOnce, UnmarkedTriposr
  <1>4. CASE Canonicalise
    <2>1. PICK c \in MeshEngines, m \in Frames(scratch.capability), turned \in BOOLEAN :
             m \in Frames(c) /\ scratch = [mesh |-> m, capability |-> c, turned |-> turned]
      BY <1>4 DEF Canonicalise, FrameInv, FrameRows
    <2>2. PICK n \in Frames(c) : n = IF c = "triposr" THEN TriposrToGltf(m) ELSE m
      <3>1. Turned("viewer") \in Frames("triposr")
        BY DEF Frames
      <3> QED
        BY <2>1, <3>1, FramesTurn
    <2>3. scratch' = [mesh |-> n, capability |-> c, turned |-> TRUE]
      BY <1>4, <2>1, <2>2 DEF Canonicalise
    <2>4. scratch' \in FrameRows /\ scratch'.mesh \in Frames(scratch'.capability)
      BY <2>3 DEF FrameRows
    <2> QED
      BY <1>4, <2>4 DEF Canonicalise, FrameInv, TurnedOnce, UnmarkedTriposr
  <1>5. CASE PublishMesh
    BY <1>5 DEF PublishMesh, FrameInv, TurnedOnce
  <1>6. CASE StageParent
    <2>1. stage'.mesh.axes = Standard
      BY <1>6, FramesTurn DEF StageParent, FrameInv, Turned
    <2> QED
      BY <1>6, <2>1 DEF StageParent, FrameInv, TurnedOnce, UnmarkedTriposr
  <1>7. CASE StageRevision
    <2>1. recon.mesh.axes = Standard \/ UnmarkedTriposr
      BY <1>7, FramesTurn DEF StageRevision, FrameInv, UnmarkedTriposr, Turned
    <2> QED
      BY <1>7, <2>1 DEF StageRevision, FrameInv, TurnedOnce, UnmarkedTriposr
  <1>8. CASE Blend \/ KillExecutor
    BY <1>8 DEF Blend, KillExecutor, FrameInv, TurnedOnce, UnmarkedTriposr
  <1>9. CASE UNCHANGED frameVars
    BY <1>9 DEF frameVars, FrameInv, TurnedOnce, UnmarkedTriposr
  <1> QED
    BY <1>1, <1>2, <1>3, <1>4, <1>5, <1>6, <1>7, <1>8, <1>9 DEF FrameNext

\* Whoever reconstructed it, whatever run was repeated, and however many revisions
\* followed, a mesh of Blender has been turned exactly once, but for a revision of a
\* TripoSR mesh that an old worker committed.
THEOREM TurnedExactlyOnce == FrameSpec => []TurnedOnce
  <1>1. FrameInit => FrameInv
    BY DEF FrameInit, FrameInv, TurnedOnce
  <1>2. FrameInv /\ [FrameNext]_frameVars => FrameInv'
    BY FrameInvKept
  <1>3. FrameInv => TurnedOnce
    BY DEF FrameInv
  <1> QED
    BY <1>1, <1>2, <1>3, PTL DEF FrameSpec

----------------------------------------------------------------------------
(* Updates.  What a command is about to do is covered by what is recorded.  *)

UpdatesSpec == UpdatesInit /\ [][UpdatesNext]_updateVars

StateRows == [manifest: Manifests, status: {"downloaded", "applying", "applied"}]

Ops == {"idle", "stage", "staged", "install", "smoke"}

\* The sequence is recorded before the release is installed: it is the record of the
\* running command that covers what pip may leave behind.
UpdatesInv ==
    /\ shelf \subseteq Manifests
    /\ ustate \in StateRows \cup {None}
    /\ installed \in [Environments -> Manifests \cup {Shipped, Broken, None}]
    /\ update.op \in Ops
    /\ update.op # "idle" => update.manifest \in Manifests /\ update.env \in Environments
    /\ update.op = "staged" => VerifiedManifest(update.manifest)
    /\ update.op \in {"install", "smoke"} => ustate # None /\ ustate.manifest = update.manifest
    /\ UpdateCovered

\* The number that no manifest may go below.
LEMMA HighwaterFacts ==
    /\ Highwater = IF ustate = None THEN 0 ELSE ustate.manifest.sequence
    /\ ustate \in StateRows \cup {None} => Highwater \in Nat
    /\ \A m \in Manifests : m.sequence \in Nat
    /\ Shipped.sequence = 0 /\ Broken.sequence = 0
    /\ None \notin StateRows /\ None \notin Manifests
    /\ Shipped # None /\ Broken # None
  BY UpdatesAssumption DEF UpdatesAssumption, Highwater, StateRows, Shipped, Broken

\* A command writes what it is about: the number that is recorded does not fall.
LEMMA StoredFacts ==
    ASSUME NEW m \in Manifests, NEW status \in {"downloaded", "applying", "applied"},
           ustate \in StateRows \cup {None}, VerifiedManifest(m), Stored(m, status)
    PROVE  /\ ustate' \in StateRows /\ ustate' # None
           /\ ustate'.manifest = m
           /\ Highwater' = m.sequence
           /\ Highwater \in Nat /\ Highwater' \in Nat
           /\ Highwater <= Highwater'
  <1>1. ustate' = [manifest |-> m, status |-> status]
    BY DEF Stored
  <1>2. ustate' \in StateRows /\ ustate'.manifest = m
    BY <1>1 DEF StateRows
  <1>3. ustate' # None
    BY <1>2, HighwaterFacts
  <1>4. Highwater' = m.sequence
    BY <1>2, <1>3 DEF Highwater
  <1> QED
    BY <1>2, <1>3, <1>4, HighwaterFacts DEF VerifiedManifest

\* A number that does not fall goes on covering what is installed.
LEMMA CoverRises ==
    ASSUME UpdatesInv, installed' = installed, Highwater' \in Nat, Highwater <= Highwater',
           update'.op = "install" => Highwater' = update'.manifest.sequence
    PROVE  UpdateCovered'
  <1> SUFFICES ASSUME NEW e \in Environments, installed[e] # None
               PROVE  installed[e].sequence <= Highwater'
    BY DEF UpdateCovered
  <1>1. installed[e].sequence <= Highwater
    BY DEF UpdatesInv, UpdateCovered
  <1>2. installed[e].sequence \in Nat /\ Highwater \in Nat
    BY HighwaterFacts DEF UpdatesInv
  <1> QED
    BY <1>1, <1>2

\* What one environment comes to hold is covered when its sequence is.
LEMMA CoverOne ==
    ASSUME UpdatesInv, NEW e \in Environments, UNCHANGED <<shelf, ustate>>,
           NEW left \in Manifests \cup {Shipped, Broken, None},
           installed' = [installed EXCEPT ![e] = left],
           left # None => left.sequence <= Highwater,
           update'.op = "install" => update' = update
    PROVE  /\ installed' \in [Environments -> Manifests \cup {Shipped, Broken, None}]
           /\ UpdateCovered'
           /\ Highwater' = Highwater
  <1>1. installed' \in [Environments -> Manifests \cup {Shipped, Broken, None}]
    BY DEF UpdatesInv
  <1>2. Highwater' = Highwater
    BY DEF Highwater
  <1>3. update.op = "install" => Highwater = update.manifest.sequence
    BY HighwaterFacts DEF UpdatesInv
  <1>4. ASSUME NEW x \in Environments, installed'[x] # None
        PROVE  installed'[x].sequence <= Highwater
    <2>1. installed'[x] = IF x = e THEN left ELSE installed[x]
      BY DEF UpdatesInv
    <2> QED
      BY <1>4, <2>1 DEF UpdatesInv, UpdateCovered
  <1> QED
    BY <1>1, <1>2, <1>3, <1>4 DEF UpdateCovered

\* An update that begins records its sequence, which covers what is installed.
LEMMA BeginApplyKeeps ==
    ASSUME UpdatesInv, NEW m \in Manifests, NEW e \in Environments, BeginApply(m, e)
    PROVE  UpdatesInv'
  <1>1. /\ ustate' \in StateRows /\ ustate' # None
        /\ ustate'.manifest = m
        /\ Highwater' = m.sequence
        /\ Highwater' \in Nat /\ Highwater <= Highwater'
    BY StoredFacts DEF UpdatesInv, BeginApply
  <1>2. /\ installed' = installed /\ shelf' = shelf
        /\ update'.op = "install" /\ update'.manifest = m /\ update'.env = e
    BY DEF BeginApply, Do
  <1>3. UpdateCovered'
    BY <1>1, <1>2, CoverRises
  <1> QED
    BY <1>1, <1>2, <1>3 DEF UpdatesInv, Ops

\* Every step of an update, its kill included, keeps the invariant.
LEMMA UpdatesInvKept ==
    ASSUME UpdatesInv, [UpdatesNext]_updateVars
    PROVE  UpdatesInv'
  <1>1. ASSUME NEW m \in Manifests, Publish(m) \/ Retire(m)
        PROVE  UpdatesInv'
    BY <1>1 DEF Publish, Retire, UpdatesInv, UpdateCovered, Highwater, VerifiedManifest
  <1>2. ASSUME NEW c, NEW e \in Environments, ClientCheck(c, e)
        PROVE  UpdatesInv'
    <2>1. PICK m \in Manifests :
             Do("stage", m, e) /\ UNCHANGED <<shelf, ustate, wheels, installed>>
      BY <1>2 DEF ClientCheck, LatestUpdate, UpdatesInv
    <2>2. update'.op = "stage" /\ update'.manifest = m /\ update'.env = e
      BY <2>1 DEF Do
    <2> QED
      BY <2>1, <2>2 DEF UpdatesInv, UpdateCovered, Highwater, Ops
  <1>3. CASE StageWheel
    <2>1. /\ update'.op = "staged" /\ update'.manifest = update.manifest
          /\ update'.env = update.env
          /\ VerifiedManifest(update.manifest) /\ update.op = "stage"
          /\ UNCHANGED <<shelf, ustate, installed>>
      BY <1>3 DEF StageWheel, Do, Then
    <2> QED
      BY <2>1 DEF UpdatesInv, UpdateCovered, Highwater, VerifiedManifest, Ops
  <1>4. CASE StageState
    <2>1. PICK m \in Manifests : m = update.manifest
      BY <1>4 DEF StageState, UpdatesInv
    <2>2. /\ VerifiedManifest(m) /\ Stored(m, "downloaded") /\ update'.op = "idle"
          /\ UNCHANGED <<shelf, installed>>
      BY <1>4, <2>1 DEF StageState, NoUpdate, UpdatesInv
    <2>3. /\ ustate' \in StateRows
          /\ Highwater' \in Nat /\ Highwater <= Highwater'
      BY <2>2, StoredFacts DEF UpdatesInv
    <2>4. UpdateCovered'
      BY <2>2, <2>3, CoverRises
    <2> QED
      BY <2>2, <2>3, <2>4 DEF UpdatesInv, Ops
  <1>5. ASSUME NEW e \in Environments, ApplyStaged(e) \/ ApplyCarried(e)
        PROVE  UpdatesInv'
    BY <1>5, BeginApplyKeeps DEF ApplyStaged, ApplyCarried, UpdatesInv, StateRows
  <1>6. CASE Install
    <2>1. PICK m \in Manifests : m = update.manifest
      BY <1>6 DEF Install, UpdatesInv
    <2>2. /\ update.env \in Environments /\ UNCHANGED <<shelf, ustate>>
          /\ installed' = [installed EXCEPT ![update.env] = m]
          /\ update'.op = "smoke" /\ update'.manifest = m /\ update'.env = update.env
          /\ ustate # None /\ ustate.manifest = m
      BY <1>6, <2>1 DEF Install, Do, Then, UpdatesInv
    <2>3. m.sequence <= Highwater
      BY <2>2, HighwaterFacts
    <2>4. /\ installed' \in [Environments -> Manifests \cup {Shipped, Broken, None}]
          /\ UpdateCovered'
      BY <2>2, <2>3, CoverOne
    <2> QED
      BY <2>2, <2>4 DEF UpdatesInv, Ops
  <1>7. CASE FinishApply
    <2>1. PICK m \in Manifests :
             /\ update.manifest = m /\ ustate.manifest = m /\ ustate # None
             /\ Stored(m, "applied") /\ update'.op = "idle"
             /\ UNCHANGED <<shelf, installed>>
      BY <1>7 DEF FinishApply, NoUpdate, UpdatesInv
    <2>2. VerifiedManifest(m)
      BY <2>1, HighwaterFacts DEF VerifiedManifest
    <2>3. /\ ustate' \in StateRows
          /\ Highwater' \in Nat /\ Highwater <= Highwater'
      BY <2>1, <2>2, StoredFacts DEF UpdatesInv
    <2>4. UpdateCovered'
      BY <2>1, <2>3, CoverRises
    <2> QED
      BY <2>1, <2>3, <2>4 DEF UpdatesInv, Ops
  <1>8. CASE StopUpdate
    <2>1. update'.op = "idle" /\ UNCHANGED <<shelf, ustate>> /\ Highwater' = Highwater
      BY <1>8 DEF StopUpdate, NoUpdate, Highwater
    <2>2. CASE update.op # "install"
      BY <1>8, <2>1, <2>2 DEF StopUpdate, UpdatesInv, UpdateCovered, Ops
    <2>3. CASE update.op = "install"
      <3>1. PICK left \in {installed[update.env], update.manifest, Broken} :
               installed' = [installed EXCEPT ![update.env] = left]
        BY <1>8, <2>3 DEF StopUpdate
      <3>2. /\ update.env \in Environments /\ update.manifest \in Manifests
            /\ update.manifest.sequence <= Highwater
        BY <2>3, HighwaterFacts DEF UpdatesInv
      <3>3. /\ left \in Manifests \cup {Shipped, Broken, None}
            /\ left # None => left.sequence <= Highwater
        BY <3>1, <3>2, HighwaterFacts DEF UpdatesInv, UpdateCovered
      <3> QED
        BY <2>1, <3>1, <3>2, <3>3, CoverOne DEF UpdatesInv, Ops
    <2> QED
      BY <2>2, <2>3
  <1>9. ASSUME NEW e \in Environments, InstallScript(e) \/ RemoveEnvironment(e)
        PROVE  UpdatesInv'
    <2>1. PICK left \in {Shipped, Broken, None} :
             /\ installed' = [installed EXCEPT ![e] = left]
             /\ UNCHANGED <<shelf, ustate, update>>
      BY <1>9 DEF InstallScript, RemoveEnvironment
    <2>2. left # None => left.sequence <= Highwater
      BY HighwaterFacts DEF UpdatesInv
    <2>3. /\ installed' \in [Environments -> Manifests \cup {Shipped, Broken, None}]
          /\ UpdateCovered' /\ Highwater' = Highwater
      BY <2>1, <2>2, CoverOne
    <2> QED
      BY <2>1, <2>3 DEF UpdatesInv, VerifiedManifest
  <1>10. CASE UNCHANGED updateVars
    BY <1>10 DEF updateVars, UpdatesInv, UpdateCovered, Highwater, VerifiedManifest
  <1> QED
    BY <1>1, <1>2, <1>3, <1>4, <1>5, <1>6, <1>7, <1>8, <1>9, <1>10 DEF UpdatesNext

\* Whatever is killed in the middle of an update, and whichever environments are made
\* or deleted beside it, no signed release runs that is newer than the record, and none
\* is replaced by an older one.
THEOREM UpdatesCovered == UpdatesSpec => []UpdateCovered
  <1>1. UpdatesInit => UpdatesInv
    BY HighwaterFacts DEF UpdatesInit, UpdatesInv, UpdateCovered, NoUpdate, Ops
  <1>2. UpdatesInv /\ [UpdatesNext]_updateVars => UpdatesInv'
    BY UpdatesInvKept
  <1>3. UpdatesInv => UpdateCovered
    BY DEF UpdatesInv
  <1> QED
    BY <1>1, <1>2, <1>3, PTL DEF UpdatesSpec

----------------------------------------------------------------------------
(* Transfers.  What is fetched is one of the objects, and what the server  *)
(* holds of an unfinished upload is the beginning of the local file.       *)

TransferSpec == TransferInit /\ [][TransferNext]_transferVars

Prefix(s) == /\ s \in Seq(Nat)
             /\ Len(s) <= Len(LocalFile)
             /\ \A i \in 1..Len(s) : s[i] = LocalFile[i]

TransferInv ==
    /\ fetch \in [object: Objects \cup {None}, next: Nat]
    /\ part_file \in Seq(Nat) \cup {None}
    /\ fetch # NoFetch => /\ fetch.object \in Objects
                          /\ fetch.next # 0
                          /\ part_file \in Seq(Nat)
    /\ session_ # None => Prefix(session_)
    /\ TransferExact

\* One more chunk of the file at the end of its beginning is still its beginning, and
\* a beginning as long as the file is the file.
LEMMA PrefixGrows ==
    ASSUME NEW s, Prefix(s)
    PROVE  /\ Len(s) < Len(LocalFile) => Prefix(Append(s, LocalFile[Len(s) + 1]))
           /\ Len(s) = Len(LocalFile) => s = LocalFile
  <1>1. LocalFile \in Seq(Nat) /\ s \in Seq(Nat) /\ Len(s) \in Nat /\ Len(LocalFile) \in Nat
    BY TransferAssumption DEF TransferAssumption, Prefix
  <1>2. ASSUME Len(s) < Len(LocalFile)
        PROVE  Prefix(Append(s, LocalFile[Len(s) + 1]))
    <2> DEFINE r == Append(s, LocalFile[Len(s) + 1])
    <2>1. LocalFile[Len(s) + 1] \in Nat
      BY <1>1, <1>2
    <2>2. /\ r \in Seq(Nat) /\ Len(r) = Len(s) + 1
          /\ \A i \in 1..Len(s) : r[i] = s[i]
          /\ r[Len(s) + 1] = LocalFile[Len(s) + 1]
      BY <1>1, <2>1
    <2> HIDE DEF r
    <2>3. ASSUME NEW i \in 1..Len(r)
          PROVE  r[i] = LocalFile[i]
      <3>1. i \in 1..Len(s) \/ i = Len(s) + 1
        BY <1>1, <2>2
      <3> QED
        BY <2>2, <3>1 DEF Prefix
    <2> QED
      BY <1>1, <1>2, <2>2, <2>3 DEF Prefix, r
  <1>3. ASSUME Len(s) = Len(LocalFile)
        PROVE  s = LocalFile
    BY <1>1, <1>3 DEF Prefix
  <1> QED
    BY <1>2, <1>3

\* Every step of a transfer, a broken connection included, keeps the invariant.
LEMMA TransferInvKept ==
    ASSUME TransferInv, [TransferNext]_transferVars
    PROVE  TransferInv'
  <1>1. ASSUME NEW o \in Objects, BeginDownload(o)
        PROVE  TransferInv'
    <2>1. o \in Seq(Nat) /\ PartBytes \in Seq(Nat)
      BY TransferAssumption DEF TransferAssumption, TransferInv, PartBytes
    <2>2. PICK kept \in Seq(Nat) :
             part_file' = kept /\ fetch' = [object |-> o, next |-> Len(kept) + 1]
      <3>1. CASE /\ part_file' = <<>>
                 /\ fetch' = [object |-> o, next |-> 1]
        <4> DEFINE kept == <<>>
        <4>1. kept \in Seq(Nat) /\ Len(kept) + 1 = 1
          OBVIOUS
        <4>2. part_file' = kept /\ fetch' = [object |-> o, next |-> Len(kept) + 1]
          BY <3>1, <4>1
        <4> HIDE DEF kept
        <4> QED
          BY <4>1, <4>2
      <3> DEFINE kept == IF Len(PartBytes) > Len(o) THEN <<>> ELSE PartBytes
      <3>2. kept \in Seq(Nat)
        BY <2>1
      <3>3. CASE part_file' = kept /\ fetch' = [object |-> o, next |-> Len(kept) + 1]
        <4> HIDE DEF kept
        <4> QED
          BY <3>2, <3>3
      <3> QED
        BY <1>1, <3>1, <3>3 DEF BeginDownload
    <2>3. Len(kept) + 1 \in Nat \ {0}
      BY <2>2
    <2>4. /\ fetch' \in [object: Objects \cup {None}, next: Nat]
          /\ fetch'.object \in Objects /\ fetch'.next # 0
          /\ part_file' \in Seq(Nat)
      BY <2>2, <2>3
    <2> QED
      BY <1>1, <2>4 DEF BeginDownload, TransferInv, TransferExact, uploadVars
  <1>2. CASE ReceiveChunk
    <2>1. PICK o \in Objects, next \in Nat \ {0}, part \in Seq(Nat) :
             fetch = [object |-> o, next |-> next] /\ part_file = part
      BY <1>2 DEF ReceiveChunk, TransferInv
    <2>2. /\ fetch' = [object |-> o, next |-> next + 1]
          /\ part_file' = Append(part, o[next])
          /\ next <= Len(o)
          /\ UNCHANGED <<dest, uploadVars>>
      BY <1>2, <2>1 DEF ReceiveChunk
    <2>3. o \in Seq(Nat)
      BY TransferAssumption DEF TransferAssumption
    <2>4. o[next] \in Nat
      BY <2>2, <2>3
    <2>5. part_file' \in Seq(Nat)
      BY <2>2, <2>4
    <2>6. /\ fetch' \in [object: Objects \cup {None}, next: Nat]
          /\ fetch'.object \in Objects /\ fetch'.next # 0
      BY <2>2
    <2> QED
      BY <2>2, <2>5, <2>6 DEF TransferInv, TransferExact, uploadVars
  <1>3. CASE EndDownload
    <2>1. NoFetch \in [object: Objects \cup {None}, next: Nat]
      BY DEF NoFetch
    <2>2. dest' \in Objects \cup {None}
      BY <1>3 DEF EndDownload, FetchedAll, TransferInv, TransferExact
    <2> QED
      BY <1>3, <2>1, <2>2 DEF EndDownload, TransferInv, TransferExact, uploadVars
  <1>4. CASE BreakDownload
    <2>1. NoFetch \in [object: Objects \cup {None}, next: Nat]
      BY DEF NoFetch
    <2> QED
      BY <1>4, <2>1 DEF BreakDownload, TransferInv, TransferExact, uploadVars
  <1>5. CASE BeginUpload
    <2>1. Prefix(<<>>)
      BY TransferAssumption DEF TransferAssumption, Prefix
    <2> QED
      BY <1>5, <2>1 DEF BeginUpload, TransferInv, TransferExact, downloadVars
  <1>6. CASE SendChunk
    <2>1. /\ session_ # None /\ Len(session_) < Len(LocalFile)
          /\ session_' = Append(session_, LocalFile[Len(session_) + 1])
          /\ object' = IF Len(session_') = Len(LocalFile) THEN session_' ELSE None
          /\ UNCHANGED <<dest, part_file, fetch>>
      BY <1>6 DEF SendChunk, downloadVars
    <2>2. Prefix(session_')
      BY <2>1, PrefixGrows DEF TransferInv
    <2>3. object' \in {LocalFile, None}
      BY <2>1, <2>2, PrefixGrows
    <2> QED
      BY <2>1, <2>2, <2>3 DEF TransferInv, TransferExact
  <1>7. CASE BreakUpload \/ ForgetUpload
    BY <1>7 DEF BreakUpload, ForgetUpload, TransferInv, TransferExact, downloadVars
  <1>8. CASE UNCHANGED transferVars
    BY <1>8 DEF transferVars, TransferInv, TransferExact
  <1> QED
    BY <1>1, <1>2, <1>3, <1>4, <1>5, <1>6, <1>7, <1>8 DEF TransferNext

\* However often transfers are broken off and resumed, for any file and any objects
\* that are asked for at one path, both ends only ever show whole ones.
THEOREM TransfersExact == TransferSpec => []TransferExact
  <1>1. TransferInit => TransferInv
    BY DEF TransferInit, TransferInv, TransferExact, NoFetch
  <1>2. TransferInv /\ [TransferNext]_transferVars => TransferInv'
    BY TransferInvKept
  <1>3. TransferInv => TransferExact
    BY DEF TransferInv
  <1> QED
    BY <1>1, <1>2, <1>3, PTL DEF TransferSpec

----------------------------------------------------------------------------
(* The local coordinator.  Its steps are of four kinds, as those of the    *)
(* central queue are, and its sweep only ever fails unfinished stages.     *)

Unfinished == {"queued", "running"}

StageStatuses == {"absent", "queued", "running", "done", "failed", "cancelled"}

Holders == {l[1] : l \in LocalLoops} \cup {None}

Outputs == [mock: BOOLEAN, hard: BOOLEAN]

StageRows ==
    [status: StageStatuses,
     attempts: Nat, holder: Holders, lapsed: BOOLEAN, computed: BOOLEAN,
     output: Outputs \cup {None}]

JobRows == [plan: Nat, mock: BOOLEAN, status: {"open", "cancelled", "approved"}]

\* The rows of the coordinator: a stage that runs has been granted, one that is done
\* has an output, and mock work has not passed the checks.
LocalInv ==
    /\ ljob \in JobRows \cup {None}
    /\ ltask \in [Stages -> StageRows]
    /\ ljob = None => \A s \in Stages : ltask[s] = Stage("absent")
    /\ \A s \in Stages :
          /\ ltask[s].status = "running" => ltask[s].attempts # 0
          /\ ltask[s].status = "done" =>
                ltask[s].output \in Outputs /\ ~(ltask[s].output.hard /\ ltask[s].output.mock)

\* The kinds of steps.  A stage is left in its state, or queued again or closed before
\* it is done; one stage is granted; one stage is done; all stages appear.
KeptRow(row, next) ==
    /\ next.attempts = row.attempts /\ next.output = row.output
    /\ next.status # row.status =>
          row.status \in Unfinished /\ next.status \in {"queued", "failed", "cancelled"}

KeepStep == \A s \in Stages : KeptRow(ltask[s], ltask'[s])

GrantStep(s) ==
    /\ ltask[s].status \in Unfinished /\ ltask'[s].status = "running"
    /\ ltask[s].attempts < LocalAttempts /\ ltask'[s].attempts = ltask[s].attempts + 1
    /\ Upstream[s] # None => ltask[Upstream[s]].status = "done"
    /\ \A t \in Stages \ {s} : KeptRow(ltask[t], ltask'[t])

FinishStep(s) ==
    /\ ltask[s].status = "running" /\ ltask'[s].status = "done"
    /\ ltask'[s].attempts = ltask[s].attempts
    /\ ltask'[s].output \in Outputs /\ ~(ltask'[s].output.hard /\ ltask'[s].output.mock)
    /\ \A t \in Stages \ {s} : ltask'[t] = ltask[t]

AppearStep ==
    /\ ljob = None /\ \A s \in Stages : ltask'[s] = Stage("queued")

LocalStep ==
    \/ KeepStep
    \/ \E s \in Stages : GrantStep(s)
    \/ \E s \in Stages : FinishStep(s)
    \/ AppearStep

\* Rows that the job and the stages become.
LocalTypedNext ==
    /\ ljob' \in JobRows \cup {None}
    /\ ltask' \in [Stages -> StageRows]
    /\ ljob # None => ljob' # None /\ ljob'.plan = ljob.plan
    /\ ljob' = None => ltask' = ltask

\* What the assumption says in the form the proofs need it.
LEMMA LocalFacts ==
    /\ LocalAttempts \in Nat
    /\ None \notin Nat /\ None \notin Stages /\ None \notin JobRows
    /\ "mesh" \in Stages /\ "clean" \in Stages
    /\ Upstream["mesh"] = None /\ Upstream["clean"] = "mesh"
    /\ \A s \in Stages : s # "mesh" /\ s # "clean" => Upstream[s] = "clean"
    /\ \A s \in Stages : Upstream[s] # None => Upstream[s] \in Stages
  BY LocalAssumption DEF LocalAssumption, JobRows, Stages, Upstream

\* The sweep follows the stages from mesh to the views: its rule has a solution, which
\* only contains unfinished stages.
LEMMA DoomedUnfinished ==
    \A s \in Stages : DoomedStages[s] => s \in UnfinishedStages
  <1> DEFINE Rule(f) ==
                 [s \in Stages |->
                    /\ s \in UnfinishedStages
                    /\ \/ LocalExhausted(s)
                       \/ /\ Upstream[s] # None
                          /\ \/ ltask[Upstream[s]].status \in {"failed", "cancelled"}
                             \/ f[Upstream[s]]]
             f0 == Rule([s \in Stages |-> FALSE])
             f1 == Rule(f0)
             f2 == Rule(f1)
  <1>1. \A f, g : \A s \in Stages :
           (Upstream[s] # None => f[Upstream[s]] = g[Upstream[s]]) => Rule(f)[s] = Rule(g)[s]
    OBVIOUS
  <1>2. \A f : Rule(f) = [s \in Stages |-> Rule(f)[s]]
    OBVIOUS
  <1>3. \A f : \A s \in Stages : Rule(f)[s] => s \in UnfinishedStages
    OBVIOUS
  <1>4. DoomedStages = CHOOSE f : f = Rule(f)
    BY DEF DoomedStages
  <1> HIDE DEF Rule
  <1>5. f1["mesh"] = f0["mesh"] /\ f2["mesh"] = f1["mesh"] /\ Rule(f2)["mesh"] = f2["mesh"]
    BY <1>1, LocalFacts
  <1>6. f2["clean"] = f1["clean"] /\ Rule(f2)["clean"] = f2["clean"]
    BY <1>1, <1>5, LocalFacts
  <1>7. ASSUME NEW s \in Stages, s # "mesh", s # "clean"
        PROVE  Rule(f2)[s] = f2[s]
    BY <1>1, <1>6, <1>7, LocalFacts
  <1>8. \A s \in Stages : Rule(f2)[s] = f2[s]
    BY <1>5, <1>6, <1>7
  <1>9. f2 = Rule(f2)
    BY <1>2, <1>8
  <1>10. DoomedStages = Rule(DoomedStages)
    BY <1>4, <1>9
  <1> QED
    BY <1>3, <1>10

\* What the sweep makes of a row.
LEMMA SweptRows ==
    ASSUME LocalInv
    PROVE  /\ LocalSwept \in [Stages -> StageRows]
           /\ \A s \in Stages : /\ KeptRow(ltask[s], LocalSwept[s])
                                /\ LocalSwept[s].status \in Unfinished \cup {"done"} =>
                                      LocalSwept[s].status = ltask[s].status
  <1>1. ASSUME NEW s \in Stages
        PROVE  /\ LocalSwept[s] \in StageRows
               /\ KeptRow(ltask[s], LocalSwept[s])
               /\ LocalSwept[s].status \in Unfinished \cup {"done"} =>
                     LocalSwept[s].status = ltask[s].status
    <2>1. PICK row \in StageRows : row = ltask[s]
      BY DEF LocalInv
    <2>2. CASE ~DoomedStages[s]
      <3>1. LocalSwept[s] = row
        BY <2>1, <2>2 DEF LocalSwept
      <3> QED
        BY <2>1, <3>1 DEF KeptRow
    <2>3. CASE DoomedStages[s]
      <3>1. LocalSwept[s] = [row EXCEPT !.status = "failed"]
        BY <2>1, <2>3 DEF LocalSwept
      <3>2. row.status \in Unfinished
        BY <2>1, <2>3, DoomedUnfinished DEF UnfinishedStages, Unfinished
      <3> QED
        BY <2>1, <3>1, <3>2 DEF KeptRow, StageRows, StageStatuses, Unfinished
    <2> QED
      BY <2>2, <2>3
  <1>2. LocalSwept = [s \in Stages |-> LocalSwept[s]]
    BY DEF LocalSwept
  <1> QED
    BY <1>1, <1>2

\* A sweep alone.
LEMMA SweepIsStep ==
    ASSUME LocalInv, ljob # None, ltask' = LocalSwept, UNCHANGED ljob
    PROVE  LocalTypedNext /\ LocalStep
  BY SweptRows DEF LocalTypedNext, LocalStep, KeepStep, LocalInv

\* A claim.
LEMMA ClaimIsStep ==
    ASSUME LocalInv, NEW l \in LocalLoops, LocalClaim(l[1], l[2])
    PROVE  LocalTypedNext /\ LocalStep
  <1>1. ljob # None /\ UNCHANGED ljob
    BY DEF LocalClaim
  <1>2. CASE ltask' = LocalSwept
    BY <1>1, <1>2, SweepIsStep
  <1>3. ASSUME NEW s \in LocalAvailable(LocalSwept, l[2]),
               ltask' = [LocalSwept EXCEPT ![s] = LocalGranted(@, l[1])]
        PROVE  LocalTypedNext /\ LocalStep
    <2>1. /\ s \in Stages
          /\ LocalSwept[s].status \in Unfinished
          /\ LocalSwept[s].attempts < LocalAttempts
          /\ Upstream[s] # None => LocalSwept[Upstream[s]].status = "done"
      BY DEF LocalAvailable, Unfinished
    <2>2. PICK row \in StageRows : row = LocalSwept[s]
      BY <2>1, SweptRows
    <2>3. l[1] \in Holders
      BY DEF Holders
    <2> DEFINE next == LocalGranted(row, l[1])
    <2>4. /\ next \in StageRows
          /\ next.status = "running" /\ next.attempts = row.attempts + 1
      <3>1. "running" \in StageStatuses
        BY DEF StageStatuses
      <3>2. row.attempts \in Nat /\ row.attempts + 1 \in Nat
        BY DEF StageRows
      <3> DEFINE attempts == row.attempts + 1
                 w == l[1]
      <3>3. next = [row EXCEPT !.status = "running", !.computed = FALSE, !.holder = w,
                               !.lapsed = FALSE, !.attempts = attempts]
        BY DEF LocalGranted
      <3> HIDE DEF attempts, w, next
      <3>4. attempts \in Nat /\ w \in Holders
        BY <2>3, <3>2 DEF attempts, w
      <3>5. next \in StageRows /\ next.status = "running" /\ next.attempts = attempts
        BY <3>1, <3>3, <3>4 DEF StageRows
      <3> QED
        BY <3>5 DEF attempts
    <2>5. /\ ltask'[s] = next
          /\ \A t \in Stages \ {s} : ltask'[t] = LocalSwept[t]
          /\ ltask' \in [Stages -> StageRows]
      <3> HIDE DEF next
      <3>1. ltask' = [LocalSwept EXCEPT ![s] = next]
        BY <1>3, <2>2 DEF next
      <3> QED
        BY <2>1, <2>4, <3>1, SweptRows
    <2> HIDE DEF next
    <2>6. ltask[s].status \in Unfinished /\ ltask[s].attempts = row.attempts
      BY <2>1, <2>2, SweptRows DEF KeptRow
    <2>7. Upstream[s] # None => ltask[Upstream[s]].status = "done"
      BY <2>1, SweptRows, LocalFacts
    <2>8. \A t \in Stages \ {s} : KeptRow(ltask[t], ltask'[t])
      BY <2>5, SweptRows
    <2>9. GrantStep(s)
      BY <2>1, <2>2, <2>4, <2>5, <2>6, <2>7, <2>8 DEF GrantStep
    <2> QED
      BY <1>1, <2>1, <2>5, <2>9 DEF LocalTypedNext, LocalStep, LocalInv
  <1> QED
    BY <1>2, <1>3 DEF LocalClaim

\* One row is changed: it is a step if the row is kept, or done.
LEMMA RowIsStep ==
    ASSUME LocalInv, NEW s \in Stages, NEW row \in StageRows,
           ltask' = [ltask EXCEPT ![s] = row], UNCHANGED ljob, ljob # None,
           \/ KeptRow(ltask[s], row)
           \/ /\ ltask[s].status = "running" /\ row.status = "done"
              /\ row.attempts = ltask[s].attempts
              /\ row.output \in Outputs /\ ~(row.output.hard /\ row.output.mock)
    PROVE  LocalTypedNext /\ LocalStep
  <1>1. /\ ltask'[s] = row
        /\ \A t \in Stages \ {s} : ltask'[t] = ltask[t]
        /\ ltask' \in [Stages -> StageRows]
    BY DEF LocalInv
  <1>2. LocalTypedNext
    BY <1>1 DEF LocalTypedNext, LocalInv
  <1>3. CASE KeptRow(ltask[s], row)
    <2>1. KeepStep
      BY <1>1, <1>3 DEF KeepStep, KeptRow
    <2> QED
      BY <1>2, <2>1 DEF LocalStep
  <1>4. CASE FinishStep(s)
    BY <1>2, <1>4 DEF LocalStep
  <1> QED
    BY <1>1, <1>3, <1>4 DEF FinishStep

\* A row whose result is computed, or whose lease lapses.
LEMMA FlaggedRows ==
    ASSUME NEW c \in StageRows
    PROVE  /\ [c EXCEPT !.computed = TRUE] \in StageRows
           /\ KeptRow(c, [c EXCEPT !.computed = TRUE])
           /\ [c EXCEPT !.lapsed = TRUE] \in StageRows
           /\ KeptRow(c, [c EXCEPT !.lapsed = TRUE])
  <1>1. [c EXCEPT !.computed = TRUE] \in StageRows
    BY DEF StageRows
  <1>2. [c EXCEPT !.lapsed = TRUE] \in StageRows
    BY DEF StageRows
  <1>3. KeptRow(c, [c EXCEPT !.computed = TRUE])
    BY DEF KeptRow, StageRows
  <1>4. KeptRow(c, [c EXCEPT !.lapsed = TRUE])
    BY DEF KeptRow, StageRows
  <1> QED
    BY <1>1, <1>2, <1>3, <1>4

\* A row that gets another status, and one that gets its output as well.
LEMMA DecidedRows ==
    ASSUME NEW c \in StageRows, NEW status \in StageStatuses, NEW o \in Outputs
    PROVE  /\ LET d == [c EXCEPT !.status = status]
              IN  d \in StageRows /\ d.status = status
                  /\ d.attempts = c.attempts /\ d.output = c.output
           /\ LET d == [c EXCEPT !.status = status, !.output = o]
              IN  d \in StageRows /\ d.status = status
                  /\ d.attempts = c.attempts /\ d.output = o
  BY DEF StageRows

\* A worker's call about a stage, and its lease.
LEMMA HeldIsStep ==
    ASSUME LocalInv, NEW s \in Stages, NEW w,
           LocalComputed(w, s) \/ LocalFinish(w, s) \/ LocalFail(w, s) \/ LocalLapse(s)
    PROVE  LocalTypedNext /\ LocalStep
  <1>1. /\ ltask[s].status = "running" /\ UNCHANGED ljob
    BY DEF LocalComputed, LocalFinish, LocalFail, LocalLapse, LocalHolds
  <1>2. ljob # None
    <2>1. ASSUME ljob = None
          PROVE  FALSE
      <3>1. ltask[s].status = "absent"
        BY <2>1 DEF LocalInv, Stage
      <3> QED
        BY <1>1, <3>1
    <2> QED
      BY <2>1
  <1>3. PICK c \in StageRows : c = ltask[s]
    BY DEF LocalInv
  <1>4. CASE LocalComputed(w, s)
    <2>1. PICK row \in StageRows : row = [c EXCEPT !.computed = TRUE] /\ KeptRow(c, row)
      BY FlaggedRows
    <2>2. ltask' = [ltask EXCEPT ![s] = row]
      BY <1>3, <1>4, <2>1 DEF LocalComputed, LocalInv
    <2> QED
      BY <1>1, <1>2, <1>3, <2>1, <2>2, RowIsStep
  <1>5. CASE LocalLapse(s)
    <2>1. PICK row \in StageRows : row = [c EXCEPT !.lapsed = TRUE] /\ KeptRow(c, row)
      BY FlaggedRows
    <2>2. ltask' = [ltask EXCEPT ![s] = row]
      BY <1>3, <1>5, <2>1 DEF LocalLapse, LocalInv
    <2> QED
      BY <1>1, <1>2, <1>3, <2>1, <2>2, RowIsStep
  <1>6. CASE LocalFail(w, s)
    <2>1. PICK status \in {"failed", "queued"} :
             status = IF c.attempts >= LocalAttempts THEN "failed" ELSE "queued"
      OBVIOUS
    <2>2. PICK row \in StageRows : row = [c EXCEPT !.status = status] /\ KeptRow(c, row)
      <3>1. status \in StageStatuses
        BY DEF StageStatuses
      <3>2. [mock |-> TRUE, hard |-> FALSE] \in Outputs
        BY DEF Outputs
      <3>3. LET d == [c EXCEPT !.status = status]
            IN  d \in StageRows /\ d.status = status
                /\ d.attempts = c.attempts /\ d.output = c.output
        BY <3>1, <3>2, DecidedRows, ZenonT(60)
      <3> QED
        BY <1>1, <1>3, <3>3 DEF KeptRow, Unfinished
    <2>3. ltask' = [ltask EXCEPT ![s] = row]
      BY <1>3, <1>6, <2>1, <2>2 DEF LocalFail, LocalInv
    <2> QED
      BY <1>1, <1>2, <1>3, <2>2, <2>3, RowIsStep
  <1>7. CASE LocalFinish(w, s)
    <2>1. PICK o \in LocalOutputs(s) :
             ltask' = [ltask EXCEPT ![s].status = "done", ![s].output = o]
      BY <1>7 DEF LocalFinish
    <2>2. o \in Outputs /\ ~(o.hard /\ o.mock)
      BY DEF LocalOutputs, Outputs
    <2> DEFINE row == [c EXCEPT !.status = "done", !.output = o]
    <2>3. "done" \in StageStatuses
      BY DEF StageStatuses
    <2>4. /\ row \in StageRows
          /\ row.status = "done" /\ row.attempts = c.attempts /\ row.output = o
      BY <2>2, <2>3 DEF StageRows
    <2>5. ltask' = [ltask EXCEPT ![s] = row]
      BY <1>3, <2>1 DEF LocalInv
    <2> HIDE DEF row
    <2> QED
      BY <1>1, <1>2, <1>3, <2>2, <2>4, <2>5, RowIsStep
  <1> QED
    BY <1>4, <1>5, <1>6, <1>7

\* The job is closed, by a cancellation or an approval.
LEMMA CloseIsStep ==
    ASSUME LocalInv, LocalCancel \/ LocalApprove
    PROVE  LocalTypedNext /\ LocalStep
  <1>1. PICK status \in {"cancelled", "approved"} :
           /\ ljob # None /\ ljob' = [ljob EXCEPT !.status = status]
           /\ ltask' = ClosedStages
    BY DEF LocalCancel, LocalApprove, MayApprove
  <1>2. ljob' \in JobRows /\ ljob'.plan = ljob.plan
    BY <1>1 DEF LocalInv, JobRows
  <1>3. ljob' # None
    BY <1>2, LocalFacts
  <1>4. ASSUME NEW s \in Stages
        PROVE  ClosedStages[s] \in StageRows /\ KeptRow(ltask[s], ClosedStages[s])
    <2>1. PICK row \in StageRows : row = ltask[s]
      BY DEF LocalInv
    <2>2. CASE s \notin UnfinishedStages
      BY <2>1, <2>2 DEF ClosedStages, KeptRow
    <2>3. CASE s \in UnfinishedStages
      <3>1. ClosedStages[s] = [row EXCEPT !.status = "cancelled"]
        BY <2>1, <2>3 DEF ClosedStages
      <3>2. row.status \in Unfinished
        BY <2>1, <2>3 DEF UnfinishedStages, Unfinished
      <3> QED
        BY <2>1, <3>1, <3>2 DEF KeptRow, StageRows, StageStatuses
    <2> QED
      BY <2>2, <2>3
  <1>5. ClosedStages = [s \in Stages |-> ClosedStages[s]]
    BY DEF ClosedStages
  <1>6. ltask' \in [Stages -> StageRows]
    BY <1>1, <1>4, <1>5
  <1>7. KeepStep
    BY <1>1, <1>4 DEF KeepStep
  <1> QED
    BY <1>1, <1>2, <1>3, <1>6, <1>7 DEF LocalTypedNext, LocalStep

\* A plan arrives.
LEMMA SubmitIsStep ==
    ASSUME LocalInv, NEW plan \in Nat, NEW mock \in BOOLEAN, LocalSubmit(plan, mock)
    PROVE  /\ LocalTypedNext /\ LocalStep
           /\ ljob' # None
           /\ ljob = None => ljob'.plan = plan
  <1>1. CASE ljob = None
    <2>1. /\ ljob' = [plan |-> plan, mock |-> mock, status |-> "open"]
          /\ ltask' = [s \in Stages |-> Stage("queued")]
      BY <1>1 DEF LocalSubmit
    <2>2. ljob' \in JobRows /\ ljob'.plan = plan
      BY <2>1 DEF JobRows
    <2>3. ljob' # None
      BY <2>2, LocalFacts
    <2>4. Stage("queued") \in StageRows
      <3>1. "queued" \in StageStatuses /\ None \in Holders /\ None \in Outputs \cup {None}
        BY DEF StageStatuses, Holders
      <3> QED
        BY <3>1 DEF Stage, StageRows
    <2>5. ltask' \in [Stages -> StageRows] /\ \A s \in Stages : ltask'[s] = Stage("queued")
      BY <2>1, <2>4
    <2> QED
      BY <1>1, <2>2, <2>3, <2>5 DEF LocalTypedNext, LocalStep, AppearStep
  <1>2. CASE ljob # None
    BY <1>2 DEF LocalSubmit, localVars, LocalTypedNext, LocalStep, KeepStep, KeptRow, LocalInv
  <1> QED
    BY <1>1, <1>2

\* Every kind of step keeps the invariant of the rows.
LEMMA LocalInvKept ==
    ASSUME LocalInv, LocalTypedNext, LocalStep
    PROVE  LocalInv'
  <1> DEFINE Row(row) ==
        /\ row.status = "running" => row.attempts # 0
        /\ row.status = "done" => row.output \in Outputs /\ ~(row.output.hard /\ row.output.mock)
  <1>1. ASSUME NEW row \in StageRows, NEW next \in StageRows, Row(row), KeptRow(row, next)
        PROVE  Row(next)
    BY <1>1 DEF KeptRow
  <1>2. \A s \in Stages : ltask[s] \in StageRows /\ ltask'[s] \in StageRows /\ Row(ltask[s])
    BY DEF LocalInv, LocalTypedNext
  <1>3. ASSUME NEW s \in Stages
        PROVE  Row(ltask'[s])
    <2>1. CASE KeepStep
      BY <1>1, <1>2, <2>1 DEF KeepStep
    <2>2. ASSUME NEW t \in Stages, GrantStep(t)
          PROVE  Row(ltask'[s])
      <3>1. CASE s = t
        <4>1. ltask'[t].status = "running" /\ ltask'[t].attempts = ltask[t].attempts + 1
              /\ ltask[t].attempts \in Nat
          BY <1>2, <2>2 DEF GrantStep, StageRows
        <4>2. ltask'[t].attempts # 0
          BY <4>1
        <4> QED
          BY <3>1, <4>1, <4>2
      <3>2. CASE s # t
        BY <1>1, <1>2, <2>2, <3>2 DEF GrantStep
      <3> QED
        BY <3>1, <3>2
    <2>3. ASSUME NEW t \in Stages, FinishStep(t)
          PROVE  Row(ltask'[s])
      BY <1>2, <2>3 DEF FinishStep
    <2>4. CASE AppearStep
      BY <2>4 DEF AppearStep, Stage
    <2> QED
      BY <2>1, <2>2, <2>3, <2>4 DEF LocalStep
  <1>4. ljob' = None => ljob = None /\ ltask' = ltask
    BY DEF LocalTypedNext
  <1> QED
    BY <1>3, <1>4 DEF LocalInv, LocalTypedNext

----------------------------------------------------------------------------
(* The refinement of TaskOutcome by the local coordinator.                 *)

LocalPhase == [s \in Stages |->
    CASE ltask[s].status \in {"queued", "running"} -> "pending"
      [] ltask[s].status = "done" -> "committed"
      [] ltask[s].status \in {"failed", "cancelled"} -> "closed"
      [] OTHER -> "absent"]
LocalGrants == [s \in Stages |-> ltask[s].attempts]
LocalWinner == [s \in Stages |-> IF ltask[s].status = "done" THEN ltask[s].attempts ELSE None]

\* The phase of a stage by its status.
LEMMA LocalPhaseOf ==
    ASSUME NEW s \in Stages
    PROVE  /\ ltask[s].status \in Unfinished => LocalPhase[s] = "pending"
           /\ ltask[s].status = "done" => LocalPhase[s] = "committed"
           /\ ltask[s].status \in {"failed", "cancelled"} => LocalPhase[s] = "closed"
           /\ ltask[s].status = "absent" => LocalPhase[s] = "absent"
  BY DEF LocalPhase, Unfinished

\* The same after a step.
LEMMA LocalPhaseNext ==
    ASSUME NEW s \in Stages
    PROVE  /\ ltask'[s].status \in Unfinished => LocalPhase'[s] = "pending"
           /\ ltask'[s].status = "done" => LocalPhase'[s] = "committed"
           /\ ltask'[s].status \in {"failed", "cancelled"} => LocalPhase'[s] = "closed"
           /\ ltask'[s].status = "absent" => LocalPhase'[s] = "absent"
           /\ ltask'[s].status = ltask[s].status => LocalPhase'[s] = LocalPhase[s]
  BY DEF LocalPhase, Unfinished

\* A row that is kept is in its phase, or is closed; it has its grants and its winner.
LEMMA KeptPhases ==
    ASSUME LocalInv, NEW s \in Stages, KeptRow(ltask[s], ltask'[s])
    PROVE  /\ \/ LocalPhase'[s] = LocalPhase[s]
              \/ LocalPhase[s] = "pending" /\ LocalPhase'[s] = "closed"
           /\ ltask'[s].attempts = ltask[s].attempts
           /\ ltask'[s].status = "done" <=> ltask[s].status = "done"
  <1>1. CASE ltask'[s].status = ltask[s].status
    BY <1>1, LocalPhaseNext DEF KeptRow
  <1>2. CASE ltask'[s].status # ltask[s].status
    BY <1>2, LocalPhaseOf, LocalPhaseNext DEF KeptRow, Unfinished
  <1> QED
    BY <1>1, <1>2

\* Every kind of step is a step of the outcomes.
LEMMA LocalStepRefines ==
    ASSUME LocalInv, LocalTypedNext, LocalStep
    PROVE  LocalTasks!Next
  <1>1. PICK S \in SUBSET Stages :
           S = {s \in Stages : LocalPhase[s] = "pending" /\ LocalPhase'[s] = "closed"}
    OBVIOUS
  <1>2. CASE KeepStep
    <2>1. \A s \in Stages : KeptRow(ltask[s], ltask'[s])
      BY <1>2 DEF KeepStep
    <2>2. LocalPhase' = [s \in Stages |-> IF s \in S /\ LocalPhase[s] = "pending"
                                          THEN "closed" ELSE LocalPhase[s]]
      <3>1. \A s \in Stages : LocalPhase'[s] = IF s \in S /\ LocalPhase[s] = "pending"
                                               THEN "closed" ELSE LocalPhase[s]
        BY <1>1, <2>1, KeptPhases
      <3>2. LocalPhase' = [s \in Stages |-> LocalPhase'[s]]
        BY DEF LocalPhase
      <3> QED
        BY <3>1, <3>2, Zenon
    <2>3. LocalGrants' = LocalGrants /\ LocalWinner' = LocalWinner
      BY <2>1, KeptPhases DEF LocalGrants, LocalWinner
    <2>4. LocalTasks!Close(S)
      BY <2>2, <2>3 DEF LocalTasks!Close, LocalTasks!Moved, LocalPhase, LocalGrants, LocalWinner
    <2> QED
      BY <2>4 DEF LocalTasks!Next
  <1>3. ASSUME NEW t \in Stages, GrantStep(t)
        PROVE  LocalTasks!Next
    <2>1. /\ ltask[t].status \in Unfinished /\ ltask'[t].status = "running"
          /\ LocalPhase[t] = "pending" /\ LocalPhase'[t] = "pending"
      BY <1>3, LocalPhaseOf, LocalPhaseNext DEF GrantStep, Unfinished
    <2>2. \A s \in Stages \ {t} : KeptRow(ltask[s], ltask'[s])
      BY <1>3 DEF GrantStep
    <2>3. LocalPhase' = [s \in Stages |-> IF s \in S /\ LocalPhase[s] = "pending"
                                          THEN "closed" ELSE LocalPhase[s]]
      <3>1. \A s \in Stages : LocalPhase'[s] = IF s \in S /\ LocalPhase[s] = "pending"
                                               THEN "closed" ELSE LocalPhase[s]
        BY <1>1, <2>1, <2>2, KeptPhases
      <3>2. LocalPhase' = [s \in Stages |-> LocalPhase'[s]]
        BY DEF LocalPhase
      <3> QED
        BY <3>1, <3>2, Zenon
    <2>4. LocalGrants' = [LocalGrants EXCEPT ![t] = @ + 1]
      BY <1>3, <2>2, KeptPhases DEF LocalGrants, GrantStep
    <2>5. LocalWinner' = LocalWinner
      BY <2>1, <2>2, KeptPhases DEF LocalWinner, Unfinished
    <2>6. t \notin S
      BY <1>1, <2>1
    <2>7. Upstream[t] # None => LocalPhase[Upstream[t]] = "committed"
      BY <1>3, LocalPhaseOf, LocalFacts DEF GrantStep
    <2>8. LocalGrants[t] < LocalAttempts
      BY <1>3 DEF GrantStep, LocalGrants
    <2>9. LocalTasks!Grant(t, S)
      BY <2>1, <2>3, <2>4, <2>5, <2>6, <2>7, <2>8
         DEF LocalTasks!Grant, LocalTasks!Moved, LocalPhase, LocalGrants, LocalWinner
    <2> QED
      BY <2>9 DEF LocalTasks!Next
  <1>4. ASSUME NEW t \in Stages, FinishStep(t)
        PROVE  LocalTasks!Next
    <2>1. /\ LocalPhase[t] = "pending" /\ LocalPhase'[t] = "committed"
          /\ \A s \in Stages \ {t} : LocalPhase'[s] = LocalPhase[s]
      BY <1>4, LocalPhaseOf, LocalPhaseNext DEF FinishStep, Unfinished
    <2>2. LocalPhase' = [LocalPhase EXCEPT ![t] = "committed"]
      <3>1. /\ LocalPhase = [s \in Stages |-> LocalPhase[s]]
            /\ LocalPhase' = [s \in Stages |-> LocalPhase'[s]]
        BY DEF LocalPhase
      <3> QED
        BY <1>4, <2>1, <3>1
    <2>3. LocalGrants' = LocalGrants
      BY <1>4 DEF LocalGrants, FinishStep
    <2>4. LocalWinner' = [LocalWinner EXCEPT ![t] = LocalGrants[t]]
      BY <1>4 DEF LocalWinner, LocalGrants, FinishStep
    <2>5. LocalGrants[t] > 0
      <3>1. ltask[t].attempts \in Nat /\ ltask[t].attempts # 0
        BY <1>4 DEF LocalInv, StageRows, FinishStep
      <3> QED
        BY <3>1 DEF LocalGrants
    <2>6. LocalTasks!Commit(t)
      BY <2>1, <2>2, <2>3, <2>4, <2>5
         DEF LocalTasks!Commit, LocalPhase, LocalGrants, LocalWinner
    <2> QED
      BY <2>6 DEF LocalTasks!Next
  <1>5. CASE AppearStep
    <2>1. \A s \in Stages : ltask[s] = Stage("absent") /\ ltask'[s] = Stage("queued")
      BY <1>5 DEF AppearStep, LocalInv
    <2>2. \A s \in Stages : /\ ltask[s].status = "absent" /\ ltask'[s].status = "queued"
                            /\ ltask[s].attempts = 0 /\ ltask'[s].attempts = 0
      BY <2>1 DEF Stage
    <2>3. \A s \in Stages : LocalPhase[s] = "absent" /\ LocalPhase'[s] = "pending"
      BY <2>2, LocalPhaseOf, LocalPhaseNext DEF Unfinished
    <2>4. LocalPhase' = [s \in Stages |-> IF s \in Stages /\ LocalPhase[s] = "absent"
                                          THEN "pending" ELSE LocalPhase[s]]
      BY <2>3 DEF LocalPhase
    <2>5. LocalGrants' = LocalGrants /\ LocalWinner' = LocalWinner
      BY <2>2 DEF LocalGrants, LocalWinner
    <2>6. LocalTasks!Create(Stages)
      BY <2>4, <2>5
         DEF LocalTasks!Create, LocalTasks!Moved, LocalPhase, LocalGrants, LocalWinner
    <2>7. Stages \in SUBSET Stages
      OBVIOUS
    <2> QED
      BY <2>6, <2>7, Zenon DEF LocalTasks!Next
  <1> QED
    BY <1>2, <1>3, <1>4, <1>5 DEF LocalStep

----------------------------------------------------------------------------
(* The caller's commands.  Between two writes of a command its plan is the *)
(* one that is stored, unless two submissions have run at once.            *)

CallerNext == (\E c \in Commands : SubmitStep(c)) \/ ReviewStep

CallerSpec == CallerInit /\ [][CallerNext]_callerVars

CommandRows == [at: {"idle", "upload", "call"}, plan: Nat \cup {None}]

\* The files and commands, and what a command needs before it calls.
SpoolInv ==
    /\ intent \in BOOLEAN \cup {None}
    /\ request \in Nat \cup {None}
    /\ command \in [Commands -> CommandRows]
    /\ plans \in Nat
    /\ \A c \in Commands :
          /\ command[c].at # "idle" => intent \in BOOLEAN
          /\ command[c].at = "call" => command[c].plan \in Nat

\* A single submission at a time uploads before a plan is stored, and calls with the
\* plan that is.
SingleInv ==
    ~overlapped =>
        /\ \A c, d \in Commands : Running(c) /\ Running(d) => c = d
        /\ \A c \in Commands : /\ command[c].at = "upload" => request = None
                               /\ command[c].at = "call" => request = command[c].plan
        /\ request = None => ljob = None
        /\ ljob # None => request = ljob.plan

\* What a report offers has been reviewed in full, and stays so.
ReportInv ==
    report = "ready" =>
        /\ ljob # None
        /\ ltask["clean"].status = "done"
        /\ ltask["clean"].output.hard
        /\ \A s \in Stages : Upstream[s] = "clean" => ltask[s].status = "done"

CallerInv == LocalInv /\ SpoolInv /\ SingleInv /\ ReportInv

\* A command goes to another place.
LEMMA GotoFacts ==
    ASSUME SpoolInv, NEW c \in Commands, NEW at \in {"idle", "upload", "call"},
           NEW plan \in Nat \cup {None}, Goto(c, at, plan)
    PROVE  /\ command' \in [Commands -> CommandRows]
           /\ command'[c].at = at /\ command'[c].plan = plan
           /\ \A d \in Commands \ {c} : command'[d] = command[d]
  <1> DEFINE row == [at |-> at, plan |-> plan]
  <1>1. row \in CommandRows /\ row.at = at /\ row.plan = plan
    BY DEF CommandRows
  <1>2. command' = [command EXCEPT ![c] = row]
    BY DEF Goto
  <1> HIDE DEF row
  <1> QED
    BY <1>1, <1>2 DEF SpoolInv

\* The report stays true through every step of the coordinator: what is done stays
\* done, with its output.
LEMMA ReportStays ==
    ASSUME LocalInv, LocalTypedNext, LocalStep, ReportInv, report' = report
    PROVE  ReportInv'
  <1>1. SUFFICES ASSUME report = "ready"
                 PROVE  ReportInv'
    BY DEF ReportInv
  <1>2. ljob # None /\ ljob' # None
    BY <1>1 DEF ReportInv, LocalTypedNext
  <1>3. ASSUME NEW s \in Stages, ltask[s].status = "done"
        PROVE  ltask'[s].status = "done" /\ ltask'[s].output = ltask[s].output
    BY <1>2, <1>3
       DEF LocalStep, KeepStep, GrantStep, FinishStep, AppearStep, KeptRow, Unfinished
  <1> QED
    BY <1>1, <1>2, <1>3, LocalFacts DEF ReportInv

\* What a step leaves alone keeps the parts of the invariant about it.
LEMMA SpoolStays ==
    ASSUME SpoolInv, UNCHANGED <<intent, request, command, plans>>
    PROVE  SpoolInv'
  BY DEF SpoolInv

\* A submission begins.
LEMMA BeginKeeps ==
    ASSUME CallerInv, NEW c \in Commands, NEW mock \in BOOLEAN, BeginSubmit(c, mock)
    PROVE  CallerInv'
  <1>1. /\ ~Running(c) /\ intent' = mock
        /\ intent \in {None, mock}
        /\ overlapped' = (overlapped \/ \E d \in Commands : Running(d))
        /\ UNCHANGED <<ljob, ltask, request, plans, report>>
    BY DEF BeginSubmit, localVars
  <1>2. PICK at \in {"upload", "call"}, plan \in Nat \cup {None} :
           /\ Goto(c, at, plan)
           /\ at = "upload" => request = None
           /\ at = "call" => plan \in Nat /\ plan = request
    BY DEF BeginSubmit, CallerInv, SpoolInv
  <1>3. /\ command' \in [Commands -> CommandRows]
        /\ command'[c].at = at /\ command'[c].plan = plan
        /\ \A d \in Commands \ {c} : command'[d] = command[d]
    BY <1>2, GotoFacts DEF CallerInv
  <1>4. SpoolInv'
    BY <1>1, <1>2, <1>3 DEF CallerInv, SpoolInv
  <1>5. SingleInv'
    <2> SUFFICES ASSUME ~overlapped'
                 PROVE  SingleInv'
      BY DEF SingleInv
    <2>1. ~overlapped /\ \A d \in Commands : ~Running(d)
      BY <1>1
    <2>2. \A d \in Commands \ {c} : command'[d].at = "idle"
      BY <1>3, <2>1 DEF Running
    <2> QED
      BY <1>1, <1>2, <1>3, <2>1, <2>2 DEF CallerInv, SingleInv, Running
  <1> QED
    BY <1>1, <1>4, <1>5 DEF CallerInv, LocalInv, ReportInv

\* A plan is drawn up and stored.
LEMMA PrepareKeeps ==
    ASSUME CallerInv, NEW c \in Commands, Prepare(c)
    PROVE  CallerInv'
  <1>1. PICK plan \in Nat : plan = plans + 1
    BY DEF CallerInv, SpoolInv
  <1>2. /\ command[c].at = "upload"
        /\ plans' = plan /\ request' = plan /\ Goto(c, "call", plan)
        /\ UNCHANGED <<ljob, ltask, intent, overlapped, report>>
    BY <1>1 DEF Prepare, localVars
  <1>3. /\ command' \in [Commands -> CommandRows]
        /\ command'[c].at = "call" /\ command'[c].plan = plan
        /\ \A d \in Commands \ {c} : command'[d] = command[d]
    BY <1>2, GotoFacts DEF CallerInv
  <1>4. SpoolInv'
    BY <1>2, <1>3 DEF CallerInv, SpoolInv
  <1>5. plan # None
    BY LocalFacts
  <1>6. SingleInv'
    <2> SUFFICES ASSUME ~overlapped
                 PROVE  SingleInv'
      BY <1>2 DEF SingleInv
    <2>1. ljob = None
      BY <1>2 DEF CallerInv, SingleInv
    <2>2. \A d \in Commands \ {c} : command'[d].at = "idle"
      BY <1>2, <1>3 DEF CallerInv, SingleInv, Running
    <2> QED
      BY <1>2, <1>3, <1>5, <2>1, <2>2 DEF SingleInv, Running
  <1> QED
    BY <1>2, <1>4, <1>6 DEF CallerInv, LocalInv, ReportInv

\* The request arrives.
LEMMA SendKeeps ==
    ASSUME CallerInv, NEW c \in Commands, SendSubmit(c)
    PROVE  CallerInv' /\ LocalTypedNext /\ LocalStep
  <1>1. /\ command[c].at = "call"
        /\ LocalSubmit(command[c].plan, intent)
        /\ Goto(c, "idle", None)
        /\ UNCHANGED <<intent, request, plans, overlapped, report>>
    BY DEF SendSubmit
  <1>2. PICK plan \in Nat, mock \in BOOLEAN : plan = command[c].plan /\ mock = intent
    BY <1>1 DEF CallerInv, SpoolInv
  <1>3. /\ LocalTypedNext /\ LocalStep
        /\ ljob' # None
        /\ ljob = None => ljob'.plan = plan
    BY <1>1, <1>2, SubmitIsStep DEF CallerInv
  <1>4. LocalInv' /\ ReportInv'
    BY <1>1, <1>3, LocalInvKept, ReportStays DEF CallerInv
  <1>5. /\ command' \in [Commands -> CommandRows]
        /\ command'[c].at = "idle"
        /\ \A d \in Commands \ {c} : command'[d] = command[d]
    BY <1>1, GotoFacts DEF CallerInv
  <1>6. SpoolInv'
    BY <1>1, <1>5 DEF CallerInv, SpoolInv
  <1>7. SingleInv'
    <2> SUFFICES ASSUME ~overlapped
                 PROVE  SingleInv'
      BY <1>1 DEF SingleInv
    <2>1. request = plan /\ request # None
      BY <1>1, <1>2, LocalFacts DEF CallerInv, SingleInv
    <2>2. ljob'.plan = plan
      BY <1>3, <2>1 DEF LocalTypedNext, CallerInv, SingleInv
    <2> QED
      BY <1>1, <1>5, <2>1, <2>2 DEF CallerInv, SingleInv, Running
  <1> QED
    BY <1>3, <1>4, <1>6, <1>7 DEF CallerInv

\* A submission stops.
LEMMA StopKeeps ==
    ASSUME CallerInv, NEW c \in Commands, StopSubmit(c)
    PROVE  CallerInv'
  <1>1. /\ Goto(c, "idle", None)
        /\ UNCHANGED <<ljob, ltask, intent, request, plans, overlapped, report>>
    BY DEF StopSubmit, localVars
  <1>2. /\ command' \in [Commands -> CommandRows]
        /\ command'[c].at = "idle"
        /\ \A d \in Commands \ {c} : command'[d] = command[d]
    BY <1>1, GotoFacts DEF CallerInv
  <1>3. SpoolInv'
    BY <1>1, <1>2 DEF CallerInv, SpoolInv
  <1>4. SingleInv'
    BY <1>1, <1>2 DEF CallerInv, SingleInv, Running
  <1> QED
    BY <1>1, <1>3, <1>4 DEF CallerInv, LocalInv, ReportInv

\* The result is collected.
LEMMA CollectKeeps ==
    ASSUME CallerInv, CollectResult
    PROVE  CallerInv'
  <1>1. /\ ljob # None
        /\ UNCHANGED <<ljob, ltask, intent, request, command, plans, overlapped>>
    BY DEF CollectResult, localVars
  <1>2. ASSUME report' = "ready"
        PROVE  ReviewReady("clean") /\ ltask["clean"].output.hard
    BY <1>2 DEF CollectResult, CandidateRow
  <1>3. ReportInv'
    BY <1>1, <1>2 DEF ReportInv, ReviewReady
  <1>4. SingleInv'
    BY <1>1 DEF CallerInv, SingleInv, Running
  <1> QED
    BY <1>1, <1>3, <1>4, SpoolStays DEF CallerInv, LocalInv

\* The workers, an approval and a cancellation.
LEMMA WorkKeeps ==
    ASSUME CallerInv, LocalWork \/ LocalApprove \/ LocalCancel,
           UNCHANGED <<intent, request, command, plans, overlapped, report>>
    PROVE  CallerInv' /\ LocalTypedNext /\ LocalStep
  <1>1. LocalTypedNext /\ LocalStep
    <2>1. ASSUME NEW l \in LocalLoops, LocalClaim(l[1], l[2])
          PROVE  LocalTypedNext /\ LocalStep
      BY <2>1, ClaimIsStep DEF CallerInv
    <2>2. ASSUME NEW w, NEW s \in Stages,
                 LocalComputed(w, s) \/ LocalFinish(w, s) \/ LocalFail(w, s) \/ LocalLapse(s)
          PROVE  LocalTypedNext /\ LocalStep
      BY <2>2, HeldIsStep DEF CallerInv
    <2>3. CASE LocalPeek
      BY <2>3, SweepIsStep DEF LocalPeek, CallerInv
    <2>4. CASE LocalApprove \/ LocalCancel
      BY <2>4, CloseIsStep DEF CallerInv
    <2> QED
      BY <2>1, <2>2, <2>3, <2>4 DEF LocalWork
  <1>2. LocalInv' /\ ReportInv'
    BY <1>1, LocalInvKept, ReportStays DEF CallerInv
  <1>3. ljob = None => ljob' = None
    <2>1. ASSUME ljob = None
          PROVE  UNCHANGED ljob
      BY <2>1 DEF LocalApprove, LocalCancel, MayApprove, LocalWork, LocalClaim,
                  LocalPeek, LocalComputed, LocalFinish, LocalFail, LocalLapse
    <2> QED
      BY <2>1
  <1>4. SingleInv'
    BY <1>1, <1>3 DEF CallerInv, SingleInv, Running, LocalTypedNext
  <1> QED
    BY <1>1, <1>2, <1>4, SpoolStays DEF CallerInv

\* Every step of the callers and of the coordinator keeps the invariant, and is one of
\* the four kinds or leaves the rows of the coordinator alone.
LEMMA CallerInvKept ==
    ASSUME CallerInv, [CallerNext]_callerVars
    PROVE  /\ CallerInv'
           /\ (LocalTypedNext /\ LocalStep) \/ ltask' = ltask
  <1>1. ASSUME NEW c \in Commands, SubmitStep(c)
        PROVE  /\ CallerInv'
               /\ (LocalTypedNext /\ LocalStep) \/ ltask' = ltask
    <2>1. CASE SendSubmit(c)
      BY <2>1, SendKeeps
    <2>2. ASSUME NEW mock \in BOOLEAN, BeginSubmit(c, mock)
          PROVE  CallerInv' /\ ltask' = ltask
      BY <2>2, BeginKeeps DEF BeginSubmit, localVars
    <2>3. CASE Prepare(c)
      BY <2>3, PrepareKeeps DEF Prepare, localVars
    <2>4. CASE StopSubmit(c)
      BY <2>4, StopKeeps DEF StopSubmit, localVars
    <2> QED
      BY <1>1, <2>1, <2>2, <2>3, <2>4 DEF SubmitStep
  <1>2. CASE ReviewStep
    <2>1. CASE CollectResult
      BY <2>1, CollectKeeps DEF CollectResult, localVars
    <2>2. CASE /\ LocalWork \/ LocalApprove \/ LocalCancel
               /\ UNCHANGED <<intent, request, command, plans, overlapped, report>>
      BY <2>2, WorkKeeps
    <2> QED
      BY <1>2, <2>1, <2>2 DEF ReviewStep
  <1>3. CASE UNCHANGED callerVars
    <2>1. /\ UNCHANGED <<ljob, ltask, intent, request, command, plans, overlapped, report>>
      BY <1>3 DEF callerVars, localVars
    <2> QED
      BY <2>1, SpoolStays DEF CallerInv, LocalInv, SingleInv, ReportInv, Running
  <1> QED
    BY <1>1, <1>2, <1>3 DEF CallerNext

\* Nothing is stored and nothing runs.
LEMMA CallerInitHolds ==
    ASSUME CallerInit
    PROVE  CallerInv
  <1>1. /\ ljob = None /\ \A s \in Stages : ltask[s] = Stage("absent")
        /\ ltask = [s \in Stages |-> ltask[s]]
    BY DEF CallerInit, LocalInit
  <1>2. Stage("absent") \in StageRows /\ Stage("absent").status = "absent"
    <2>1. "absent" \in StageStatuses /\ None \in Holders /\ None \in Outputs \cup {None}
      BY DEF StageStatuses, Holders
    <2> QED
      BY <2>1 DEF Stage, StageRows
  <1>3. LocalInv
    BY <1>1, <1>2 DEF LocalInv
  <1>4. SpoolInv
    BY DEF CallerInit, SpoolInv, CommandRows
  <1>5. SingleInv
    BY <1>1 DEF CallerInit, SingleInv, Running
  <1>6. ReportInv
    <2>1. report # "ready"
      BY CallerAssumption DEF CallerAssumption, CallerInit
    <2> QED
      BY <2>1 DEF ReportInv
  <1> QED
    BY <1>3, <1>4, <1>5, <1>6 DEF CallerInv

\* For any number of terminals and plans, loops and views.
THEOREM CallerInvariant == CallerSpec => []CallerInv
  <1>1. CallerInit => CallerInv
    BY CallerInitHolds
  <1>2. CallerInv /\ [CallerNext]_callerVars => CallerInv'
    BY CallerInvKept
  <1> QED
    BY <1>1, <1>2, PTL DEF CallerSpec

\* Wherever a submission is killed, the plan the coordinator accepted is the one that
\* every retry sends.
THEOREM PlanKept == CallerSpec => []RetrySamePlan
  <1>1. CallerInv => RetrySamePlan
    BY DEF CallerInv, SingleInv, RetrySamePlan
  <1> QED
    BY <1>1, CallerInvariant, PTL

\* What a report offers for approval stays approvable for as long as the job is open.
THEOREM OfferHolds == CallerSpec => []ReadyApprovable
  <1>1. CallerInv => ReadyApprovable
    BY LocalFacts DEF CallerInv, LocalInv, ReportInv, ReadyApprovable, MayApprove
  <1> QED
    BY <1>1, CallerInvariant, PTL

\* The local coordinator implements the specification of task outcomes that the central
\* queue implements.
THEOREM LocalImplementsOutcome == CallerSpec => LocalOutcome
  <1>1. CallerInit => LocalTasks!Init
    BY DEF CallerInit, LocalInit, Stage, LocalTasks!Init
  <1>2. CallerInv /\ [CallerNext]_callerVars => [LocalTasks!Next]_(LocalTasks!vars)
    <2> SUFFICES ASSUME CallerInv, [CallerNext]_callerVars
                 PROVE  [LocalTasks!Next]_(LocalTasks!vars)
      OBVIOUS
    <2>1. CASE LocalTypedNext /\ LocalStep
      BY <2>1, LocalStepRefines DEF CallerInv
    <2>2. CASE ltask' = ltask
      BY <2>2 DEF LocalTasks!vars
    <2> QED
      BY <2>1, <2>2, CallerInvKept
  <1> QED
    BY <1>1, <1>2, CallerInvariant, PTL DEF CallerSpec, LocalOutcome, LocalTasks!Spec

----------------------------------------------------------------------------
(* Sounds.  What was heard is what the request, as it is, compiles to.     *)

SoundSpec == SoundInit /\ [][SoundNext]_soundVars

CardRows ==
    [fit: BOOLEAN, category: Vocabulary, action: Vocabulary, tail: Vocabulary,
     loopable: BOOLEAN, must_not: Seq(Vocabulary), frequency: {None} \cup (Nat \X Nat)]

NormalRows ==
    [fit: BOOLEAN, category: Vocabulary, action: Vocabulary, tail: Vocabulary,
     loopable: BOOLEAN, must_not: SUBSET Vocabulary, frequency: {None} \cup (Nat \X Nat)]

Digests == {None, "bad"} \cup Notes

Compiled ==
    [prompt: NormalRows \cup Texts, must_not: SUBSET Vocabulary, note: Texts \cup {"bad"},
     noteUsed: BOOLEAN]

Requests ==
    [version: {1, 2}, fit: BOOLEAN, source_text: Texts, prompt: Texts,
     source_text_hash: Digests, direction: CardRows \cup {None}]

SoundInv ==
    /\ spec # None => spec \in Requests
    /\ drafted => ValidAudioSpec(spec)
    /\ heard # None =>
          /\ spec # None
          /\ ValidAudioSpec(spec)
          /\ heard = CompileSfxRequest(spec)
          /\ spec.direction # None => manifest = heard

\* What the assumption says in the form the proofs need it.
LEMMA SoundFacts ==
    /\ "weapon" \in Vocabulary /\ "movement" \in Vocabulary
    /\ "whoosh" \in Vocabulary /\ "hit" \in Vocabulary
    /\ "short" \in Vocabulary /\ "medium" \in Vocabulary /\ "breath" \in Vocabulary
    /\ {"clipping", "music", "speech", "vocals"} \subseteq Vocabulary
    /\ {"sustained_drone"} \subseteq Vocabulary
    /\ {"airflow", "blowing", "breath", "sustained_wind"} \subseteq Vocabulary
    /\ {"fade_in", "looping_artifacts"} \subseteq Vocabulary
    /\ {"background_noise"} \subseteq Vocabulary
    /\ Directions \subseteq CardRows
    /\ "bad" \notin Notes
    /\ None \notin CardRows
    /\ \A t \in Texts : t \notin NormalRows
    /\ Refused \notin Compiled
  BY SoundAssumption DEF SoundAssumption, CardRows, NormalRows, Compiled, Digests

\* What a note is drafted to is a card, and one that fits.
LEMMA DraftFits ==
    ASSUME NEW hints
    PROVE  DraftCard(hints) \in CardRows /\ FitDirection(DraftCard(hints))
  <1> DEFINE d == DraftCard(hints)
             category == IF "blade" \in hints THEN "weapon" ELSE "movement"
             action == IF "swish" \in hints THEN "whoosh"
                       ELSE IF "impact" \in hints THEN "hit" ELSE "whoosh"
             tail == IF "swish" \in hints THEN "short" ELSE "medium"
             must_not == IF "breath" \in hints THEN <<"breath">> ELSE <<>>
             frequency == IF "swish" \in hints THEN <<1000000, 300000>> ELSE None
  <1>1. d = [fit |-> TRUE, category |-> category, action |-> action, tail |-> tail,
             loopable |-> FALSE, must_not |-> must_not, frequency |-> frequency]
    BY SMT DEF DraftCard
  <1>2. /\ frequency \in {None} \cup (Nat \X Nat)
        /\ frequency # None => frequency[1] # frequency[2]
    BY SMT
  <1> HIDE DEF d, frequency
  <1>3. category \in Vocabulary /\ action \in Vocabulary /\ tail \in Vocabulary
    BY SoundFacts
  <1>4. must_not \in Seq(Vocabulary) /\ Len(must_not) <= 8
    BY SoundFacts
  <1> HIDE DEF category, action, tail, must_not
  <1>5. d \in CardRows
    BY <1>1, <1>2, <1>3, <1>4 DEF CardRows
  <1>6. d.fit /\ d.must_not = must_not /\ d.frequency = frequency
    BY <1>1
  <1>7. FitDirection(d)
    BY <1>2, <1>4, <1>6 DEF FitDirection
  <1> QED
    BY <1>5, <1>7 DEF d

\* A card is normalised without losing what it asks for.
LEMMA NormalFacts ==
    ASSUME NEW d \in CardRows
    PROVE  /\ NormalCard(d) \in NormalRows
           /\ NormalCard(d).action = d.action
  <1> DEFINE must_not == ToSet(d.must_not)
             frequency == IF d.frequency = None THEN None
                          ELSE <<Tenths(d.frequency[1]), Tenths(d.frequency[2])>>
  <1>1. must_not \in SUBSET Vocabulary
    BY DEF CardRows, ToSet
  <1>2. frequency \in {None} \cup (Nat \X Nat)
    <2>1. \A x \in Nat : Tenths(x) \in Nat
      BY DEF Tenths
    <2>2. d.frequency \in {None} \cup (Nat \X Nat)
      BY DEF CardRows
    <2>3. CASE d.frequency # None
      <3>1. Tenths(d.frequency[1]) \in Nat /\ Tenths(d.frequency[2]) \in Nat
        BY <2>1, <2>2, <2>3
      <3> QED
        BY <2>3, <3>1
    <2> QED
      BY <2>3
  <1>3. NormalCard(d) = [d EXCEPT !.must_not = must_not, !.frequency = frequency]
    BY DEF NormalCard
  <1> HIDE DEF must_not, frequency
  <1> QED
    BY <1>1, <1>2, <1>3 DEF CardRows, NormalRows

\* A request that is valid compiles: with a card to that card, and to the note that the
\* request holds; without one to its prompt.
LEMMA ValidCompiles ==
    ASSUME NEW r \in Requests, ValidAudioSpec(r)
    PROVE  LET h == CompileSfxRequest(r)
           IN  /\ h # Refused
               /\ r.version = 2 =>
                     /\ r.direction # None
                     /\ ~h.noteUsed /\ h.prompt \notin Texts
                     /\ SourceOf(r) # None => h.note = SourceOf(r)
                     /\ r.direction.action = "whoosh" => "breath" \in h.must_not
  <1> DEFINE h == CompileSfxRequest(r)
  <1>1. SourceOf(r) \in Texts
    BY DEF Requests, SourceOf
  <1>2. CASE r.version = 2
    <2>1. /\ r.direction # None /\ FitDirection(r.direction)
          /\ r.source_text # None => FitText(r.source_text)
          /\ r.prompt # None => FitText(r.prompt)
          /\ r.source_text_hash # None => FitHash(r.source_text_hash, SourceOf(r))
      BY <1>2 DEF ValidAudioSpec, FitV2, Provenance
    <2>2. SourceOf(r) # None => FitText(SourceOf(r))
      BY <2>1 DEF SourceOf
    <2>3. ~RefusedDirection(r)
      BY <2>1, <2>2 DEF RefusedDirection
    <2>4. PICK d \in CardRows : d = r.direction
      BY <2>1 DEF Requests
    <2>5. PICK note \in Texts \cup {"bad"} :
             note = IF r.source_text_hash # None THEN r.source_text_hash ELSE SourceOf(r)
      BY <1>1 DEF Requests, Digests, Texts
    <2>6. SourceOf(r) # None => note = SourceOf(r)
      BY <2>1, <2>5 DEF FitHash
    <2>7. h = [prompt |-> NormalCard(d), must_not |-> CompileMustNot(NormalCard(d)),
               note |-> note, noteUsed |-> FALSE]
      BY <2>1, <2>3, <2>4, <2>5 DEF CompileSfxRequest, CompileDirection
    <2>8. NormalCard(d) \in NormalRows /\ NormalCard(d).action = d.action
      BY NormalFacts
    <2>9. CompileMustNot(NormalCard(d)) \in SUBSET Vocabulary
      BY <2>8, SoundFacts DEF CompileMustNot, NormalRows
    <2>10. d.action = "whoosh" => "breath" \in CompileMustNot(NormalCard(d))
      BY <2>8 DEF CompileMustNot
    <2> DEFINE must_not == CompileMustNot(NormalCard(d))
               prompt == NormalCard(d)
    <2> HIDE DEF h, must_not, prompt
    <2>11. /\ h = [prompt |-> prompt, must_not |-> must_not, note |-> note, noteUsed |-> FALSE]
           /\ prompt \in NormalRows /\ must_not \in SUBSET Vocabulary
           /\ d.action = "whoosh" => "breath" \in must_not
      BY <2>7, <2>8, <2>9, <2>10 DEF must_not, prompt
    <2>12. h \in Compiled
      BY <2>11 DEF Compiled
    <2>13. h.prompt = prompt /\ h.must_not = must_not /\ h.note = note /\ h.noteUsed = FALSE
      BY <2>11
    <2>14. prompt \notin Texts
      BY <2>11, SoundFacts
    <2>15. h # Refused
      BY <2>12, SoundFacts
    <2> QED
      BY <2>1, <2>4, <2>6, <2>11, <2>13, <2>14, <2>15 DEF h
  <1>3. CASE r.version # 2
    <2>1. r.direction = None /\ r.source_text = None /\ FitText(r.prompt)
      BY <1>3 DEF ValidAudioSpec
    <2>2. SourceOf(r) = r.prompt
      BY <2>1 DEF SourceOf
    <2>3. h = [prompt |-> SourceOf(r), must_not |-> {}, note |-> SourceOf(r), noteUsed |-> TRUE]
      BY <2>1, <2>2 DEF CompileSfxRequest
    <2>4. h \in Compiled
      BY <1>1, <2>3 DEF Compiled
    <2>5. h # Refused
      BY <2>4, SoundFacts
    <2> QED
      BY <1>3, <2>5
  <1> QED
    BY <1>2, <1>3

\* Every draft, edit and generation keeps the invariant.
LEMMA SoundInvKept ==
    ASSUME SoundInv, [SoundNext]_soundVars
    PROVE  SoundInv'
  <1>1. ASSUME NEW note \in Notes, NEW hints \in Hints, DraftSpec(note, hints)
        PROVE  SoundInv'
    <2> DEFINE d == DraftCard(hints)
               r == [version |-> 2, fit |-> TRUE, source_text |-> note, prompt |-> None,
                     source_text_hash |-> note, direction |-> d]
    <2>1. d \in CardRows /\ FitDirection(d) /\ d # None
      BY DraftFits, SoundFacts
    <2>2. spec' = r /\ heard' = None /\ manifest' = manifest
      BY <1>1 DEF DraftSpec, Write
    <2> HIDE DEF d
    <2>3. r \in Requests
      BY <2>1 DEF Requests, Texts, Digests
    <2>4. note # "bad"
      BY SoundFacts
    <2>5. ValidAudioSpec(r)
      <3>1. SourceOf(r) \in {note, None}
        BY DEF SourceOf
      <3>2. FitHash(note, SourceOf(r))
        BY <2>4, <3>1 DEF FitHash
      <3> QED
        BY <2>1, <3>2 DEF ValidAudioSpec, FitV2, Provenance, FitText
    <2> HIDE DEF r
    <2> QED
      BY <2>2, <2>3, <2>5 DEF SoundInv
  <1>2. ASSUME NEW r \in Requests, Write(r), drafted' = FALSE
        PROVE  SoundInv'
    BY <1>2 DEF Write, SoundInv
  <1>3. CASE WriteSpec
    <2>1. PICK v \in {1, 2}, f \in BOOLEAN, t \in Texts, d \in {None} \cup Directions :
             Write([version |-> v, fit |-> f, source_text |-> None, prompt |-> t,
                    source_text_hash |-> None, direction |-> d])
      BY <1>3 DEF WriteSpec
    <2> DEFINE r == [version |-> v, fit |-> f, source_text |-> None, prompt |-> t,
                     source_text_hash |-> None, direction |-> d]
    <2>2. r \in Requests
      BY SoundFacts DEF Requests, Texts, Digests
    <2>3. Write(r) /\ drafted' = FALSE
      BY <1>3, <2>1 DEF WriteSpec
    <2> HIDE DEF r
    <2> QED
      BY <1>2, <2>2, <2>3
  <1>4. CASE EditSpec
    <2>1. PICK r \in Requests : r = spec
      BY <1>4 DEF EditSpec, SoundInv
    <2>2. ASSUME NEW t \in Texts
          PROVE  [r EXCEPT !.source_text = t] \in Requests
      BY DEF Requests
    <2>3. ASSUME NEW t \in Texts
          PROVE  [r EXCEPT !.prompt = t] \in Requests
      BY DEF Requests
    <2>4. ASSUME NEW digest \in {None, "bad"} \cup Notes
          PROVE  [r EXCEPT !.source_text_hash = digest] \in Requests
      BY DEF Requests, Digests
    <2>5. ASSUME NEW d \in {None} \cup Directions
          PROVE  [r EXCEPT !.direction = d] \in Requests
      BY SoundFacts DEF Requests
    <2>6. PICK n \in Requests : Write(n)
      BY <1>4, <2>1, <2>2, <2>3, <2>4, <2>5 DEF EditSpec
    <2>7. drafted' = FALSE
      BY <1>4 DEF EditSpec
    <2> QED
      BY <1>2, <2>6, <2>7
  <1>5. CASE GenerateSound
    BY <1>5 DEF GenerateSound, SoundInv
  <1>6. CASE UNCHANGED soundVars
    BY <1>6 DEF soundVars, SoundInv
  <1> QED
    BY <1>1, <1>3, <1>4, <1>5, <1>6 DEF SoundNext

\* For any notes, cards and words: what a draft wrote is accepted, what is accepted
\* compiles, and with a card the model hears the card and never the note.
THEOREM SoundsCompile == SoundSpec => []AcceptedCompiles
  <1>1. SoundInit => SoundInv
    BY DEF SoundInit, SoundInv
  <1>2. SoundInv /\ [SoundNext]_soundVars => SoundInv'
    BY SoundInvKept
  <1>3. SoundInv => AcceptedCompiles
    BY ValidCompiles DEF SoundInv, AcceptedCompiles
  <1> QED
    BY <1>1, <1>2, <1>3, PTL DEF SoundSpec
=============================================================================
