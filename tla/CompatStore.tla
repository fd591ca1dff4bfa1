----------------------------- MODULE CompatStore -----------------------------
(***************************************************************************)
(* The compatibility store as software that reads trust from a path sees   *)
(* it, and what one call of render::render promises about it.  Module      *)
(* Render gives the file operations and is checked to implement this one;  *)
(* module Refresh drives it.                                               *)
(*                                                                         *)
(* disk.certs is the certs/ directory (bundle file and hashed files) and   *)
(* disk.pem is cert.pem, each Absent or the set of fingerprints it makes   *)
(* a reader trust.                                                         *)
(***************************************************************************)
EXTENDS TrustStore

CONSTANT Absent     \* no such file or directory

ASSUME AbsentAssumption == \A S \in SUBSET Fingerprints : S # Absent

VARIABLES
    disk,           \* what a reader of the store finds
    phase,          \* where the render call is
    job             \* the call's arguments, and certs/ when it was made

storeVars == <<disk, phase, job>>

Compats == {"None", "Files", "Live"}
Content == (SUBSET Fingerprints) \cup {Absent}
Disk == [certs : Content, pem : Content]
Job == [compat : Compats, roots : SUBSET Fingerprints, before : Content]
Working == {"remove_pem", "empty_certs", "install", "write_pem"}
Phases == Working \cup {"idle", "done", "failed"}

StoreTypeOK == disk \in Disk /\ phase \in Phases /\ job \in Job

\* The store on disk is the rendering of a root set in a mode.
Renders(d, compat, roots) ==
    IF compat = "None" THEN d.pem = Absent /\ d.certs \in {Absent, {}}
                       ELSE d.pem = roots /\ d.certs = roots

StoreInit ==
    /\ disk = [certs |-> {}, pem |-> Absent]
    /\ phase = "idle"
    /\ job = [compat |-> "Files", roots |-> {}, before |-> {}]

\* The call: in mode None the files are withdrawn, otherwise installed.
Begin(compat, roots) ==
    /\ phase = "idle"
    /\ phase' = IF compat = "None" THEN "remove_pem" ELSE "install"
    /\ job' = [compat |-> compat, roots |-> roots, before |-> disk.certs]
    /\ UNCHANGED disk

RemovePem ==
    /\ phase = "remove_pem"
    /\ phase' = "empty_certs"
    /\ disk' = [disk EXCEPT !.pem = Absent]
    /\ UNCHANGED job

\* empty_dir removes file by file, so a reader sees the set shrink.
Shrink ==
    /\ phase = "empty_certs"
    /\ disk.certs # Absent
    /\ \E rest \in SUBSET disk.certs : disk' = [disk EXCEPT !.certs = rest]
    /\ UNCHANGED <<phase, job>>

Emptied ==
    /\ phase = "empty_certs"
    /\ disk.certs \in {Absent, {}}
    /\ phase' = "done"
    /\ UNCHANGED <<disk, job>>

\* The one step at which the new directory becomes the live one.
Install ==
    /\ phase = "install"
    /\ phase' = "write_pem"
    /\ disk' = [disk EXCEPT !.certs = job.roots]
    /\ UNCHANGED job

\* Without RENAME_EXCHANGE the old directory is set aside first ...
SetAside ==
    /\ phase = "install"
    /\ disk.certs # Absent
    /\ disk' = [disk EXCEPT !.certs = Absent]
    /\ UNCHANGED <<phase, job>>

\* ... and put back when the new one cannot be installed.
Restore ==
    /\ phase = "install"
    /\ disk.certs = Absent
    /\ phase' = "failed"
    /\ disk' = [disk EXCEPT !.certs = job.before]
    /\ UNCHANGED job

WritePem ==
    /\ phase = "write_pem"
    /\ phase' = "done"
    /\ disk' = [disk EXCEPT !.pem = job.roots]
    /\ UNCHANGED job

\* Any file operation may fail; the call stops where it is.
Fail ==
    /\ phase \in Working
    /\ phase' = "failed"
    /\ UNCHANGED <<disk, job>>

\* The caller takes the result.
Return ==
    /\ phase \in {"done", "failed"}
    /\ phase' = "idle"
    /\ UNCHANGED <<disk, job>>

\* The process dies: the files stay as they are.
Stop ==
    /\ phase # "idle"
    /\ phase' = "idle"
    /\ UNCHANGED <<disk, job>>

\* The pre-start hook makes the directories that are missing.
Prepare ==
    /\ phase = "idle"
    /\ disk' = [disk EXCEPT !.certs = IF @ = Absent THEN {} ELSE @]
    /\ UNCHANGED <<phase, job>>

RenderStep ==
    RemovePem \/ Shrink \/ Emptied \/ Install \/ SetAside \/ WritePem

StoreNext ==
    \/ \E compat \in Compats, roots \in SUBSET Fingerprints : Begin(compat, roots)
    \/ RenderStep \/ Restore \/ Fail \/ Return \/ Stop \/ Prepare

StoreSpec == StoreInit /\ [][StoreNext]_storeVars

=============================================================================
