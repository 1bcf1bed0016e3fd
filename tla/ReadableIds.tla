----------------------------- MODULE ReadableIds ----------------------------
(***************************************************************************)
(* Giving the videos of the frozen selection readable names                *)
(* (src/tools/normalize_vidhalloc_readable_ids.py).                        *)
(*                                                                         *)
(* The files are linked, copied or remuxed into a staging directory, which *)
(* is renamed; then the manifest and the input of the build are backed up  *)
(* and replaced, one after the other.  Any step can raise, and the process *)
(* can die before any step; what it leaves is not undone, and a new start  *)
(* refuses to write over it.                                               *)
(***************************************************************************)
EXTENDS Integers

CONSTANT Records     \* videos of the selection

ASSUME RecordsAssumption == Records \in Nat \ {0}

VARIABLES
    step,           \* what normalize does next, or "stopped"
    stagingDir,     \* files in the staging directory, -1 without one
    targetDir,      \* files in the target directory, -1 without one
    manifest,       \* VidHalLoc.json: "old" or "new"
    input,          \* the input of the build
    oldManifest,    \* backup of the manifest: "none", "torn" or "old"
    oldInput,       \* backup of the input
    newManifest,    \* the manifest written beside the old one: "none", "torn" or "new"
    newInput        \* the input written beside the old one

idsVars == <<step, stagingDir, targetDir, manifest, input, oldManifest,
             oldInput, newManifest, newInput>>
dirVars == <<stagingDir, targetDir>>
backupVars == <<oldManifest, oldInput>>
fileVars == <<manifest, input, newManifest, newInput>>

Absent == -1

Steps == {"place", "write_manifest", "write_input", "wrote_input", "rename", "copy_manifest", "copied_manifest",
          "copy_input", "copied_input", "replace_manifest", "replace_input"}

IdsInit ==
    /\ step = "stopped"
    /\ stagingDir = Absent /\ targetDir = Absent
    /\ manifest = "old" /\ input = "old"
    /\ oldManifest = "none" /\ oldInput = "none"
    /\ newManifest = "none" /\ newInput = "none"

\* Refuses to overwrite any existing path.
StartNormalize ==
    /\ step = "stopped"
    /\ stagingDir = Absent /\ targetDir = Absent
    /\ oldManifest = "none" /\ oldInput = "none"
    /\ step' = "place" /\ stagingDir' = 0
    /\ UNCHANGED <<targetDir, fileVars, backupVars>>

\* One record: its file under the next number of its task.
PlaceRecord ==
    /\ step = "place" /\ stagingDir < Records
    /\ stagingDir' = stagingDir + 1
    /\ UNCHANGED <<step, targetDir, fileVars, backupVars>>

\* All records are there and checked; the report says PASS, and the new
\* manifest and then the new input are written beside the old ones, over
\* whatever an earlier start left there.
WriteManifest ==
    \/ /\ step = "place" /\ stagingDir = Records
       /\ newManifest' = "torn" /\ step' = "write_manifest"
       /\ UNCHANGED <<dirVars, manifest, input, newInput, backupVars>>
    \/ /\ step = "write_manifest"
       /\ newManifest' = "new" /\ step' = "write_input"
       /\ UNCHANGED <<dirVars, manifest, input, newInput, backupVars>>

WriteInput ==
    \/ /\ step = "write_input"
       /\ newInput' = "torn" /\ step' = "wrote_input"
       /\ UNCHANGED <<dirVars, manifest, input, newManifest, backupVars>>
    \/ /\ step = "wrote_input"
       /\ newInput' = "new" /\ step' = "rename"
       /\ UNCHANGED <<dirVars, manifest, input, newManifest, backupVars>>

RenameRoot ==
    /\ step = "rename"
    /\ targetDir' = stagingDir /\ stagingDir' = Absent
    /\ step' = "copy_manifest"
    /\ UNCHANGED <<fileVars, backupVars>>

\* A copy is there, incomplete, before it is finished.
BackUpManifest ==
    \/ /\ step = "copy_manifest"
       /\ oldManifest' = "torn" /\ step' = "copied_manifest"
       /\ UNCHANGED <<dirVars, fileVars, oldInput>>
    \/ /\ step = "copied_manifest"
       /\ oldManifest' = manifest /\ step' = "copy_input"
       /\ UNCHANGED <<dirVars, fileVars, oldInput>>

BackUpInput ==
    \/ /\ step = "copy_input"
       /\ oldInput' = "torn" /\ step' = "copied_input"
       /\ UNCHANGED <<dirVars, fileVars, oldManifest>>
    \/ /\ step = "copied_input"
       /\ oldInput' = input /\ step' = "replace_manifest"
       /\ UNCHANGED <<dirVars, fileVars, oldManifest>>

\* Mutation of ReplaceManifest: as soon as the manifest is backed up.
ReplaceManifestEarly ==
    /\ step \in {"copy_input", "replace_manifest"}
    /\ manifest' = newManifest /\ newManifest' = "none"
    /\ step' = IF step = "copy_input" THEN step ELSE "replace_input"
    /\ UNCHANGED <<dirVars, input, newInput, backupVars>>

ReplaceManifest ==
    /\ step = "replace_manifest"
    /\ manifest' = newManifest /\ newManifest' = "none"
    /\ step' = "replace_input"
    /\ UNCHANGED <<dirVars, input, newInput, backupVars>>

ReplaceInput ==
    /\ step = "replace_input"
    /\ input' = newInput /\ newInput' = "none"
    /\ step' = "stopped"
    /\ UNCHANGED <<dirVars, manifest, newManifest, backupVars>>

\* A step raises: the staging directory goes, everything else stays.
RaiseInNormalize ==
    /\ step # "stopped"
    /\ step' = "stopped" /\ stagingDir' = Absent
    /\ UNCHANGED <<targetDir, fileVars, backupVars>>

\* The process dies: everything stays.
CrashNormalize ==
    /\ step # "stopped"
    /\ step' = "stopped"
    /\ UNCHANGED <<dirVars, fileVars, backupVars>>

\* Somebody removes what was left, as long as the old manifest and input are
\* still in place ...
UndoByHand ==
    /\ step = "stopped" /\ manifest = "old" /\ input = "old"
    /\ stagingDir' = Absent /\ targetDir' = Absent
    /\ oldManifest' = "none" /\ oldInput' = "none"
    /\ UNCHANGED <<step, fileVars>>

\* ... and else puts the input in place that was written beside the old one.
FinishByHand ==
    /\ step = "stopped" /\ manifest = "new" /\ input = "old"
    /\ input' = newInput /\ newInput' = "none"
    /\ UNCHANGED <<step, dirVars, manifest, newManifest, backupVars>>

IdsNext ==
    \/ StartNormalize
    \/ PlaceRecord
    \/ WriteManifest
    \/ WriteInput
    \/ RenameRoot
    \/ BackUpManifest
    \/ BackUpInput
    \/ ReplaceManifest
    \/ ReplaceInput
    \/ RaiseInNormalize
    \/ CrashNormalize
    \/ UndoByHand
    \/ FinishByHand

IdsSpec == IdsInit /\ [][IdsNext]_idsVars

-----------------------------------------------------------------------------
(* Properties *)

\* Wherever the tool stopped: a manifest with the new names finds all its
\* files under them, and both old files have been kept whole; the input of
\* the build never has names the manifest does not know.
IdsBacked ==
    /\ manifest = "new" => /\ targetDir = Records
                           /\ oldManifest = "old" /\ oldInput = "old"
    /\ input = "new" => manifest = "new"
    /\ manifest = "new" /\ input = "old" => newInput = "new"

=============================================================================
