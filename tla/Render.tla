------------------------------- MODULE Render -------------------------------
(***************************************************************************)
(* render::render one file operation at a time: withdrawing the files in   *)
(* mode None; building certs.new, exchanging it with certs (or the two     *)
(* renames where the filesystem cannot exchange), writing cert.pem.  Any   *)
(* operation may fail and the process may die between any two; the         *)
(* pre-start hook runs before the next process.                            *)
(***************************************************************************)
EXTENDS Naturals, FiniteSets, Functions

CONSTANTS
    Fingerprints,
    Absent,
    SubjectHash,        \* subject hash of each certificate; they may collide
    ExchangeOutcomes    \* what renameat2(RENAME_EXCHANGE) may answer

ASSUME RenderAssumption ==
    /\ Fingerprints \subseteq Nat \* fingerprint order is the numbers' order
    /\ IsFiniteSet(Fingerprints)
    /\ SubjectHash \in [Fingerprints -> Nat]
    /\ ExchangeOutcomes \subseteq {"exchanged", "unsupported", "error"}

VARIABLES
    live, staging, previous,  \* certs, certs.new, certs.previous
    certPem,                  \* content of cert.pem, or Absent
    step,                     \* the operation render performs next
    todo,                     \* roots whose hashed file is not written yet
    compat, roots,            \* the call's arguments
    before,                   \* ghost: certs/ when the call was made
    holding,                  \* ghost: a store was installed, not withdrawn
    gutted,                   \* ghost: mode None removed files of certs
    blank                     \* ghost: the hook made certs anew since

fileVars == <<live, staging, previous, certPem>>
callVars == <<todo, compat, roots, before>>
ghostVars == <<holding, gutted, blank>>
vars == <<fileVars, step, callVars, ghostVars>>

(***************************************************************************)
(* Directories.  A file's name is the bundle, a hash and a number, or a    *)
(* temporary; its content is the set of certificates in it.  A directory   *)
(* also has the descriptor it was made with: the hook's grant, or not.     *)
(***************************************************************************)
BundleName == [kind |-> "bundle", hash |-> 0, seq |-> 0]
TempName == [kind |-> "temp", hash |-> 0, seq |-> 0]
HashedName(h, n) == [kind |-> "hashed", hash |-> h, seq |-> n]

\* A hash has at most one file for each certificate.
FileNames ==
    {BundleName, TempName}
    \cup {HashedName(SubjectHash[f], n) :
            f \in Fingerprints, n \in 0..Cardinality(Fingerprints)}
Directory ==
    [files : UNION {[S -> SUBSET Fingerprints] : S \in SUBSET FileNames},
     granted : BOOLEAN]

ASSUME AbsentAssumption ==
    Absent \notin Directory /\ \A S \in SUBSET Fingerprints : S # Absent

NoFiles == [n \in {} |-> {}]
Dir(files, granted) == [files |-> files, granted |-> granted]
EmptyDir(granted) == Dir(NoFiles, granted)

Put(dir, name, content) ==
    [dir EXCEPT !.files = [n \in DOMAIN @ \cup {name} |->
                              IF n = name THEN content ELSE @[n]]]
RemoveFile(dir, name) == [dir EXCEPT !.files = Restrict(@, DOMAIN @ \ {name})]

Names(dir) == IF dir = Absent THEN {} ELSE DOMAIN dir.files
Hashed(dir) == {n \in Names(dir) : n.kind = "hashed"}
HashedRoots(dir) == UNION {dir.files[n] : n \in Hashed(dir)}

\* The roots a reader of the directory would trust.
Visible(dir) ==
    IF dir = Absent THEN Absent ELSE UNION {dir.files[n] : n \in Names(dir)}

\* The bundle and the hashed files hold the same set, one root to a file.
Complete(dir, set) ==
    /\ BundleName \in Names(dir) /\ dir.files[BundleName] = set
    /\ HashedRoots(dir) = set
    /\ Cardinality(Hashed(dir)) = Cardinality(set)
    /\ TempName \notin Names(dir)

Whole(dir) == dir # Absent /\ \E set \in SUBSET Fingerprints : Complete(dir, set)

-----------------------------------------------------------------------------
Init ==
    /\ live = EmptyDir(TRUE) /\ staging = EmptyDir(TRUE) /\ previous = Absent
    /\ certPem = Absent
    /\ step = "idle"
    /\ todo = {} /\ compat = "Files" /\ roots = {} /\ before = {}
    /\ holding = FALSE /\ gutted = FALSE /\ blank = FALSE

\* Mutant of Call: the list of roots to write is not cleared.
CallKeepsTodo ==
    /\ step = "idle"
    /\ \E c \in {"None", "Files"}, rs \in SUBSET Fingerprints :
        /\ compat' = c /\ roots' = rs
        /\ step' = IF c = "None" THEN "remove_pem" ELSE "prepare"
    /\ before' = Visible(live)
    /\ UNCHANGED <<fileVars, todo, ghostVars>>

\* render() is called.  Only None is told apart: Live is treated as Files.
Call ==
    /\ step = "idle"
    /\ \E c \in {"None", "Files"}, rs \in SUBSET Fingerprints :
        /\ compat' = c /\ roots' = rs
        /\ step' = IF c = "None" THEN "remove_pem" ELSE "prepare"
    /\ before' = Visible(live)
    /\ todo' = {}
    /\ UNCHANGED <<fileVars, ghostVars>>

RemovePem ==
    /\ step = "remove_pem"
    /\ certPem' = Absent
    /\ step' = "empty_live"
    /\ holding' = FALSE
    /\ UNCHANGED <<live, staging, previous, callVars, gutted, blank>>

\* empty_dir(certs): one file, in the order read_dir gives them.
EmptyLive ==
    /\ step = "empty_live"
    /\ \E n \in Names(live) : live' = RemoveFile(live, n)
    /\ gutted' = TRUE
    /\ UNCHANGED <<staging, previous, certPem, step, callVars, holding, blank>>

LiveEmptied ==
    /\ step = "empty_live"
    /\ Names(live) = {}
    /\ step' = "done"
    /\ UNCHANGED <<fileVars, callVars, ghostVars>>

\* certs.new is made, or emptied file by file.
MakeStaging ==
    /\ step = "prepare"
    /\ staging = Absent
    /\ staging' = EmptyDir(FALSE)
    /\ step' = "write_bundle"
    /\ UNCHANGED <<live, previous, certPem, callVars, ghostVars>>

EmptyStaging ==
    /\ step = "prepare"
    /\ \E n \in Names(staging) : staging' = RemoveFile(staging, n)
    /\ UNCHANGED <<live, previous, certPem, step, callVars, ghostVars>>

StagingEmptied ==
    /\ step = "prepare"
    /\ staging # Absent /\ Names(staging) = {}
    /\ step' = "write_bundle"
    /\ UNCHANGED <<fileVars, callVars, ghostVars>>

(***************************************************************************)
(* write_file: a temporary sibling is created and written, then renamed.   *)
(***************************************************************************)
WriteBundle ==
    /\ step = "write_bundle"
    /\ staging' = Put(staging, TempName, roots)
    /\ step' = "install_bundle"
    /\ UNCHANGED <<live, previous, certPem, callVars, ghostVars>>

InstallBundle ==
    /\ step = "install_bundle"
    /\ staging' = Put(RemoveFile(staging, TempName), BundleName, roots)
    /\ todo' = roots
    /\ step' = "write_hashed"
    /\ UNCHANGED <<live, previous, certPem, compat, roots, before,
                   ghostVars>>

\* The next root in fingerprint order, and the sequence number its hash has
\* reached among the files written so far.
NextRoot == CHOOSE f \in todo : \A g \in todo : f <= g

\* Mutant of Sequence: every hashed file is number 0.
SequenceZero(h) == 0

Sequence(h) == Cardinality({n \in Hashed(staging) : n.hash = h})

WriteHashed ==
    /\ step = "write_hashed"
    /\ todo # {}
    /\ staging' = Put(staging, TempName, {NextRoot})
    /\ step' = "install_hashed"
    /\ UNCHANGED <<live, previous, certPem, callVars, ghostVars>>

InstallHashed ==
    /\ step = "install_hashed"
    /\ LET h == SubjectHash[NextRoot]
       IN staging' = Put(RemoveFile(staging, TempName),
                         HashedName(h, Sequence(h)), {NextRoot})
    /\ todo' = todo \ {NextRoot}
    /\ step' = "write_hashed"
    /\ UNCHANGED <<live, previous, certPem, compat, roots, before,
                   ghostVars>>

\* exchange() when there is no live directory: a plain rename.
InstallFirst ==
    /\ step = "write_hashed" /\ todo = {}
    /\ live = Absent
    /\ live' = staging /\ staging' = Absent
    /\ step' = "write_pem"
    /\ holding' = TRUE /\ gutted' = FALSE /\ blank' = FALSE
    /\ UNCHANGED <<previous, certPem, callVars>>

\* exchange() otherwise: renameat2, and what its answer leads to.
Exchange ==
    /\ step = "write_hashed" /\ todo = {}
    /\ live # Absent
    /\ \/ /\ "exchanged" \in ExchangeOutcomes
          /\ live' = staging /\ staging' = live
          /\ step' = "discard_staging"
          /\ holding' = TRUE /\ gutted' = FALSE /\ blank' = FALSE
       \/ /\ "unsupported" \in ExchangeOutcomes
          /\ step' = "clear_previous"
          /\ UNCHANGED <<live, staging, ghostVars>>
       \/ /\ "error" \in ExchangeOutcomes
          /\ step' = "failed"
          /\ UNCHANGED <<live, staging, ghostVars>>
    /\ UNCHANGED <<previous, certPem, callVars>>

\* remove_dir_all of what was the live directory, file by file.
DiscardStaging ==
    /\ step = "discard_staging"
    /\ IF Names(staging) = {}
       THEN staging' = Absent /\ step' = "write_pem"
       ELSE /\ \E n \in Names(staging) : staging' = RemoveFile(staging, n)
            /\ UNCHANGED step
    /\ UNCHANGED <<live, previous, certPem, callVars, ghostVars>>

(***************************************************************************)
(* exchange_fallback                                                       *)
(***************************************************************************)
ClearPrevious ==
    /\ step = "clear_previous"
    /\ IF Names(previous) = {}
       THEN previous' = Absent /\ step' = "set_aside"
       ELSE /\ \E n \in Names(previous) : previous' = RemoveFile(previous, n)
            /\ UNCHANGED step
    /\ UNCHANGED <<live, staging, certPem, callVars, ghostVars>>

\* Mutant of SetAside: the old directory is removed, not renamed.
SetAsideDeletes ==
    /\ step = "set_aside"
    /\ live' = Absent
    /\ step' = "install_staging"
    /\ UNCHANGED <<staging, previous, certPem, callVars, ghostVars>>

SetAside ==
    /\ step = "set_aside"
    /\ previous' = live /\ live' = Absent
    /\ step' = "install_staging"
    /\ UNCHANGED <<staging, certPem, callVars, ghostVars>>

InstallStaging ==
    /\ step = "install_staging"
    /\ \/ /\ live' = staging /\ staging' = Absent
          /\ step' = "discard_previous"
          /\ holding' = TRUE /\ gutted' = FALSE /\ blank' = FALSE
       \/ /\ step' = "restore"
          /\ UNCHANGED <<live, staging, ghostVars>>
    /\ UNCHANGED <<previous, certPem, callVars>>

\* Mutant of Restore: the wrong directory is renamed back.
RestoreStaging ==
    /\ step = "restore"
    /\ live' = staging /\ staging' = Absent
    /\ step' = "failed"
    /\ UNCHANGED <<previous, certPem, callVars, ghostVars>>

Restore ==
    /\ step = "restore"
    /\ live' = previous /\ previous' = Absent
    /\ step' = "failed"
    /\ UNCHANGED <<staging, certPem, callVars, ghostVars>>

DiscardPrevious ==
    /\ step = "discard_previous"
    /\ IF Names(previous) = {}
       THEN previous' = Absent /\ step' = "write_pem"
       ELSE /\ \E n \in Names(previous) : previous' = RemoveFile(previous, n)
            /\ UNCHANGED step
    /\ UNCHANGED <<live, staging, certPem, callVars, ghostVars>>

\* Mutant of WritePem: a cert.pem that exists is left alone.
WritePemOnce ==
    /\ step = "write_pem"
    /\ certPem' = IF certPem = Absent THEN roots ELSE certPem
    /\ step' = "done"
    /\ UNCHANGED <<live, staging, previous, callVars, ghostVars>>

\* cert.pem, a copy of the bundle, through a temporary in the store root.
WritePem ==
    /\ step = "write_pem"
    /\ certPem' = roots
    /\ step' = "done"
    /\ UNCHANGED <<live, staging, previous, callVars, ghostVars>>

-----------------------------------------------------------------------------
\* An operation fails: render returns the error.  Dropping TemporaryFile
\* removes the temporary of the write that failed.
Fail ==
    /\ step \notin {"idle", "down", "done", "failed", "install_staging"}
    /\ step' = "failed"
    /\ staging' = IF staging # Absent THEN RemoveFile(staging, TempName) ELSE Absent
    /\ UNCHANGED <<live, previous, certPem, callVars, ghostVars>>

\* The caller takes the result.
Return ==
    /\ step \in {"done", "failed"}
    /\ step' = "idle"
    /\ UNCHANGED <<fileVars, callVars, ghostVars>>

\* The process dies between two operations.
Stop ==
    /\ step # "down"
    /\ step' = "down"
    /\ UNCHANGED <<fileVars, callVars, ghostVars>>

\* libexec/prepare-store, before the next process: mkdir -p certs certs.new.
Prepare ==
    /\ step = "down"
    /\ step' = "idle"
    /\ live' = IF live = Absent THEN EmptyDir(TRUE) ELSE live
    /\ staging' = IF staging = Absent THEN EmptyDir(TRUE) ELSE staging
    /\ blank' = (blank \/ live = Absent)
    /\ UNCHANGED <<previous, certPem, callVars, holding, gutted>>

Next ==
    \/ Call \/ RemovePem \/ EmptyLive \/ LiveEmptied
    \/ MakeStaging \/ EmptyStaging \/ StagingEmptied
    \/ WriteBundle \/ InstallBundle \/ WriteHashed \/ InstallHashed
    \/ InstallFirst \/ Exchange \/ DiscardStaging
    \/ ClearPrevious \/ SetAside \/ InstallStaging \/ Restore \/ DiscardPrevious
    \/ WritePem
    \/ Fail \/ Return \/ Stop \/ Prepare

Spec == Init /\ [][Next]_vars

-----------------------------------------------------------------------------
Steps == {"idle", "down", "remove_pem", "empty_live", "prepare", "write_bundle",
          "install_bundle", "write_hashed", "install_hashed",
          "discard_staging", "clear_previous", "set_aside", "install_staging",
          "restore", "discard_previous", "write_pem", "done", "failed"}

TypeOK ==
    /\ {live, staging, previous} \subseteq Directory \cup {Absent}
    /\ certPem \in (SUBSET Fingerprints) \cup {Absent}
    /\ before \in (SUBSET Fingerprints) \cup {Absent}
    /\ step \in Steps
    /\ todo \subseteq roots /\ roots \subseteq Fingerprints
    /\ compat \in {"None", "Files"}
    /\ {holding, gutted, blank} \subseteq BOOLEAN

\* "neither path mixes the contents of the old set and the new" (render.rs
\* module comment): whatever fails or dies in between, a certs directory that
\* holds anything is one complete store with no temporary in it, unless mode
\* None began to empty it.  Colliding subject hashes lose no root.
LiveIsWhole ==
    live # Absent /\ Names(live) # {} /\ ~gutted => Whole(live)

\* "retaining the old directory until the replacement is in place"
\* (render.rs:334): once a store was installed and not withdrawn by mode None,
\* a complete one is on disk at every moment: live, set aside, or staged.
OldStoreSurvives ==
    holding => Whole(live) \/ Whole(previous) \/ Whole(staging)

\* The same as long as no process died in the fallback's window with certs/
\* missing, for the hook then makes an empty certs/ that the next fallback
\* takes for the old store.
StoreSurvivesFailures == ~blank => OldStoreSurvives

Store == INSTANCE CompatStore WITH
    disk <- [certs |-> Visible(live), pem |-> certPem],
    phase <- CASE step \in {"idle", "down"} -> "idle"
               [] step = "empty_live" -> "empty_certs"
               [] step \in {"prepare", "write_bundle", "install_bundle",
                            "write_hashed", "install_hashed",
                            "clear_previous", "set_aside",
                            "install_staging", "restore"} -> "install"
               [] step \in {"discard_staging", "discard_previous"} -> "write_pem"
               [] OTHER -> step,
    job <- [compat |-> compat, roots |-> roots, before |-> before]

\* A render that reports success has put exactly the composed set, or in mode
\* None nothing, before every reader: directory and cert.pem agree.
DoneIsRendered ==
    step = "done" =>
        Store!Renders([certs |-> Visible(live), pem |-> certPem], compat, roots)

\* The file operations implement the store readers are promised (module
\* CompatStore): the set under certs/ only ever changes in one step to the
\* whole new set, to nothing and back in the fallback's window, or by
\* shrinking in mode None.
ImplementsStore == Store!StoreSpec

\* "Both directories are made once by the pre-start hook ... so exchanging
\* them for ever keeps the grant that was stamped on each" (render.rs:149):
\* the directory readers use carries the hook's descriptor.
LiveKeepsGrant == live # Absent => live.granted
=============================================================================
