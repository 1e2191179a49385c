--------------------------- MODULE PublicationSync ---------------------------
(***************************************************************************)
(* scripts/prepare_publication_sync.py: refresh the curated public files   *)
(* from a private source tree under a manifest that records, for every     *)
(* mapped file, the hash of the source and of the public bytes.            *)
(*                                                                         *)
(* One run of the helper scans the manifest's entries in order, reports    *)
(* NONE, PENDING or BLOCKED and, with --apply, writes the changed files    *)
(* and the manifest, runs the verifier and rolls back on any failure.      *)
(* Every write is write_atomic: a .tmp file next to the target, then       *)
(* os.replace.  A write can raise before or after the .tmp file exists,    *)
(* and the process can be killed between any two steps, which leaves the   *)
(* working tree as it is.  The private files may be edited at any moment;  *)
(* the maintainer's own git commands come between two runs.                *)
(*                                                                         *)
(* A file's content is a member of Bytes, and its hash is the content      *)
(* itself.  transform() is ToPublic: CRLF -> LF for the entries whose      *)
(* modification asks for it, nothing for the others.                       *)
(***************************************************************************)
EXTENDS Integers, Sequences

CONSTANTS
  File,        \* the mapped files, in manifest order: a sequence
  Bytes,       \* file contents
  LF,          \* LF[b]: content b with CRLF -> LF
  Normalised,  \* the files whose entry asks for that normalisation
  Sensitive,   \* contents scan_candidate finds something in
  Original,    \* what every file contains at first
  StatusMayFail, \* git status may fail, which git_out turns into no output
  MaxEdits,    \* bound: edits of the private tree in a behaviour
  MaxFaults,   \* bound: write errors, verifier and git failures, kills
  MaxRuns      \* bound: runs of the helper

Mapped == {File[i] : i \in DOMAIN File}

Manifest == "manifest"   \* the manifest as a target of write_atomic

\* Every file has one entry, and the manifest has none of itself.
ASSUME FileAssumption ==
  /\ File \in Seq(Mapped) /\ Manifest \notin Mapped
  /\ \A i, j \in DOMAIN File : File[i] = File[j] => i = j
ASSUME BytesAssumption ==
  /\ LF \in [Bytes -> Bytes]
  /\ Normalised \subseteq Mapped
  /\ Sensitive \subseteq Bytes
  /\ Original \in Bytes \ Sensitive /\ LF[Original] = Original
ASSUME StatusAssumption == StatusMayFail \in BOOLEAN
ASSUME BoundsAssumption == MaxEdits \in Nat /\ MaxFaults \in Nat /\ MaxRuns \in Nat

VARIABLES
  src,       \* the private files
  pub,       \* the public working tree: the mapped files
  man,       \* the manifest on disk: recorded source and public hashes
  head,      \* the commit the working tree is compared with
  litter,    \* the targets whose .tmp file lies about, untracked
  phase,     \* where the helper is
  next,      \* the entry it is at
  mode,      \* "check" or "apply"
  memory,    \* the manifest object in memory
  changed,   \* the files the scan found a change of
  payload,   \* their bytes to publish and the source they are of
  blocked,   \* a blocker was found
  backup,    \* the bytes retained before the first write
  cleanStart, \* observed: the tree was clean before the first write
  report,    \* what the last run concluded
  faults,    \* write errors, verifier and git failures and kills so far
  runFaults, \* of these, in the current run
  edits, runs

tree == <<pub, man, litter>>
job  == <<next, mode, memory, changed, payload, blocked, backup, cleanStart>>
vars == <<src, tree, head, phase, job, report, faults, runFaults, edits, runs>>

ToPublic(f, b) == IF f \in Normalised THEN LF[b] ELSE b
Entries == [src : Bytes, pub : Bytes]

Here == File[next]
Done == next > Len(File)
Target == IF Done THEN Manifest ELSE Here
Writing == Target \in changed \cup {Manifest}

\* git status --porcelain prints nothing.
Clean == pub = head.pub /\ man = head.man /\ litter = {}

Init ==
  /\ src = [f \in Mapped |-> Original]
  /\ pub = [f \in Mapped |-> ToPublic(f, Original)]
  /\ man = [f \in Mapped |-> [src |-> Original, pub |-> ToPublic(f, Original)]]
  /\ head = [pub |-> pub, man |-> man]
  /\ litter = {}
  /\ phase = "idle"
  /\ next = 1 /\ mode = "check" /\ blocked = FALSE
  /\ memory = man
  /\ changed = {} /\ payload = man
  /\ backup = head /\ cleanStart = TRUE
  /\ report = "STALE"
  /\ faults = 0 /\ runFaults = 0 /\ edits = 0 /\ runs = 0

-----------------------------------------------------------------------------
(* Around the helper.                                                      *)

\* A private file is edited, whatever the helper is doing.
EditSource(f) ==
  /\ edits < MaxEdits
  /\ \E b \in Bytes \ {src[f]} : src' = [src EXCEPT ![f] = b]
  /\ edits' = edits + 1
  /\ UNCHANGED <<tree, head, phase, job, report, faults, runFaults, runs>>

\* The maintainer commits the tracked files, in whatever state they are.
Commit ==
  /\ phase = "idle" /\ ~Clean
  /\ head' = [pub |-> pub, man |-> man]
  /\ UNCHANGED <<src, tree, phase, job, report, faults, runFaults, edits, runs>>

\* The maintainer goes back to the last commit and cleans up.
Restore ==
  /\ phase = "idle" /\ ~Clean
  /\ pub' = head.pub /\ man' = head.man /\ litter' = {}
  /\ report' = "STALE"
  /\ UNCHANGED <<src, head, phase, job, faults, runFaults, edits, runs>>

-----------------------------------------------------------------------------
(* The scan: scan_manifest, one entry per step, reading only.              *)

Start(m) ==
  /\ phase = "idle" /\ runs < MaxRuns
  /\ phase' = "scan" /\ mode' = m /\ next' = 1
  /\ memory' = man
  /\ changed' = {} /\ payload' = man
  /\ blocked' = FALSE
  /\ report' = "STALE"
  /\ runFaults' = 0 /\ runs' = runs + 1
  /\ UNCHANGED <<src, tree, head, backup, cleanStart, faults, edits>>

ScanStep ==
  /\ phase = "scan" /\ ~Done
  /\ next' = next + 1
  /\ UNCHANGED <<src, tree, head, phase, mode, memory, backup, cleanStart, report, faults,
                 runFaults, edits, runs>>

\* "public file drifted from recorded manifest"
ScanDrift ==
  /\ ScanStep
  /\ pub[Here] # memory[Here].pub
  /\ blocked' = TRUE /\ UNCHANGED <<changed, payload>>

\* Mutant: an unchanged source is not compared with the public file any further.
MutUnchangedFirst ==
  /\ ScanStep
  /\ src[Here] = memory[Here].src
  /\ UNCHANGED <<blocked, changed, payload>>

ScanUnchanged ==
  /\ ScanStep
  /\ pub[Here] = memory[Here].pub /\ src[Here] = memory[Here].src
  /\ UNCHANGED <<blocked, changed, payload>>

ScanSensitive ==
  /\ ScanStep
  /\ pub[Here] = memory[Here].pub /\ src[Here] # memory[Here].src
  /\ ToPublic(Here, src[Here]) \in Sensitive
  /\ blocked' = TRUE /\ UNCHANGED <<changed, payload>>

\* The payload and both hashes come from the one read of the source.
ScanChange ==
  /\ ScanStep
  /\ pub[Here] = memory[Here].pub /\ src[Here] # memory[Here].src
  /\ ToPublic(Here, src[Here]) \notin Sensitive
  /\ changed' = changed \cup {Here}
  /\ payload' = [payload EXCEPT ![Here] =
                   [src |-> src[Here], pub |-> ToPublic(Here, src[Here])]]
  /\ UNCHANGED blocked

State ==
  CASE blocked      -> "BLOCKED"
    [] ~blocked /\ changed # {} -> "PENDING"
    [] OTHER        -> "NONE"

\* The report of a check, and of an apply that has a blocker.
Conclude ==
  /\ phase = "scan" /\ Done
  /\ mode = "check" \/ blocked
  /\ report' = State
  /\ phase' = "idle"
  /\ UNCHANGED <<src, tree, head, job, faults, runFaults, edits, runs>>

\* check_apply_preconditions or the worktree check refuses.  The branch is
\* left open: it refuses or not whatever the rest of the state.
Refuse ==
  /\ phase = "scan" /\ Done /\ mode = "apply" /\ ~blocked
  /\ report' = "REFUSED"
  /\ phase' = "idle"
  /\ UNCHANGED <<src, tree, head, job, faults, runFaults, edits, runs>>

-----------------------------------------------------------------------------
(* The apply: apply_transactionally.                                       *)

\* The preconditions hold: retain the bytes, then write.
Proceed ==
  /\ phase = "scan" /\ Done /\ mode = "apply" /\ ~blocked
  /\ backup' = [pub |-> pub, man |-> man]
  /\ cleanStart' = Clean
  /\ phase' = "write" /\ next' = 1
  /\ UNCHANGED <<src, tree, head, mode, memory, changed, payload, blocked, report, edits, runs>>

\* git status says that the tree is clean.
Accept == Clean /\ Proceed /\ UNCHANGED <<faults, runFaults>>

\* git status fails; its empty output is taken for a clean tree.
AcceptUnseen ==
  /\ StatusMayFail /\ faults < MaxFaults
  /\ faults' = faults + 1 /\ runFaults' = runFaults + 1
  /\ Proceed

\* write_atomic(target, data) returned: the .tmp file, an older one too, is
\* gone.
Wrote(target) == litter' = litter \ {target}

\* write_atomic raised, with or without having written the .tmp file.
Raised(target) ==
  /\ faults < MaxFaults
  /\ faults' = faults + 1 /\ runFaults' = runFaults + 1
  /\ litter' \in {litter, litter \cup {target}}
  /\ UNCHANGED <<pub, man>>

\* Mutant: a file without a change is not passed over.
MutSkipNothing ==
  /\ phase \in {"write", "rollback"} /\ ~Done /\ Here \notin changed
  /\ UNCHANGED vars

\* The file at hand has no change: on to the next one.
SkipFile ==
  /\ phase \in {"write", "rollback"} /\ ~Done /\ Here \notin changed
  /\ next' = next + 1
  /\ UNCHANGED <<src, tree, head, phase, mode, memory, changed, payload, blocked, backup, cleanStart,
                 report, faults, runFaults, edits, runs>>

\* Mutant: the source hash is taken again when the file is written.
MutHashAtWrite ==
  /\ phase = "write" /\ ~Done /\ Here \in changed
  /\ pub' = [pub EXCEPT ![Here] = payload[Here].pub]
  /\ memory' = [memory EXCEPT ![Here] = [src |-> src[Here], pub |-> payload[Here].pub]]
  /\ Wrote(Here)
  /\ next' = next + 1
  /\ UNCHANGED <<src, man, head, phase, mode, changed, payload, blocked, backup, cleanStart, report,
                 faults, runFaults, edits, runs>>

\* Mutant: the source itself is read again when the file is written.
MutReadAtWrite ==
  /\ phase = "write" /\ ~Done /\ Here \in changed
  /\ pub' = [pub EXCEPT ![Here] = ToPublic(Here, src[Here])]
  /\ memory' = [memory EXCEPT ![Here] = payload[Here]]
  /\ Wrote(Here)
  /\ next' = next + 1
  /\ UNCHANGED <<src, man, head, phase, mode, changed, payload, blocked, backup, cleanStart, report,
                 faults, runFaults, edits, runs>>

WriteFile ==
  /\ phase = "write" /\ ~Done /\ Here \in changed
  /\ pub' = [pub EXCEPT ![Here] = payload[Here].pub]
  /\ memory' = [memory EXCEPT ![Here] = payload[Here]]
  /\ Wrote(Here)
  /\ next' = next + 1
  /\ UNCHANGED <<src, man, head, phase, mode, changed, payload, blocked, backup, cleanStart, report,
                 faults, runFaults, edits, runs>>

WriteManifest ==
  /\ phase = "write" /\ Done
  /\ man' = memory
  /\ Wrote(Manifest)
  /\ phase' = "verify"
  /\ UNCHANGED <<src, pub, head, job, report, faults, runFaults, edits, runs>>

\* Mutant: only the files written in full are restored.
MutRestoreWritten ==
  /\ phase = "write"
  /\ Writing
  /\ Raised(Target)
  /\ phase' = "rollback" /\ next' = 1
  /\ changed' = changed \ {Target}
  /\ UNCHANGED <<src, head, mode, memory, payload, blocked, backup, cleanStart, report, edits, runs>>

\* Mutant: only a failure of the verifier is rolled back.
MutWriteErrorEscapes ==
  /\ phase = "write"
  /\ Writing
  /\ Raised(Target)
  /\ phase' = "idle" /\ report' = "RAISED"
  /\ UNCHANGED <<src, head, job, edits, runs>>

\* A write of the apply raised: roll back from the first change.
WriteFails ==
  /\ phase = "write"
  /\ Writing
  /\ Raised(Target)
  /\ phase' = "rollback" /\ next' = 1
  /\ UNCHANGED <<src, head, mode, memory, changed, payload, blocked, backup, cleanStart, report, edits, runs>>

VerifierPasses ==
  /\ phase = "verify"
  /\ report' = "APPLIED" /\ phase' = "idle"
  /\ UNCHANGED <<src, tree, head, job, faults, runFaults, edits, runs>>

VerifierFails ==
  /\ phase = "verify" /\ faults < MaxFaults
  /\ faults' = faults + 1 /\ runFaults' = runFaults + 1
  /\ phase' = "rollback" /\ next' = 1
  /\ UNCHANGED <<src, tree, head, mode, memory, changed, payload, blocked, backup, cleanStart, report,
                 edits, runs>>

RestoreFile ==
  /\ phase = "rollback" /\ ~Done /\ Here \in changed
  /\ pub' = [pub EXCEPT ![Here] = backup.pub[Here]]
  /\ Wrote(Here)
  /\ next' = next + 1
  /\ UNCHANGED <<src, man, head, phase, mode, memory, changed, payload, blocked, backup, cleanStart,
                 report, faults, runFaults, edits, runs>>

\* The last write of the rollback, then git diff --exit-code, which says
\* nothing of untracked files.
RestoreManifest ==
  /\ phase = "rollback" /\ Done
  /\ man' = backup.man
  /\ Wrote(Manifest)
  /\ report' = IF pub = head.pub /\ man' = head.man
                 THEN "ROLLED_BACK" ELSE "ROLLED_BACK_DIRTY"
  /\ phase' = "idle"
  /\ UNCHANGED <<src, pub, head, job, faults, runFaults, edits, runs>>

\* A write of the rollback itself raised: nothing catches it.
RollbackFails ==
  /\ phase = "rollback"
  /\ Writing
  /\ Raised(Target)
  /\ report' = "RAISED" /\ phase' = "idle"
  /\ UNCHANGED <<src, head, job, edits, runs>>

\* The process is killed, possibly with a .tmp file just written.
Killed ==
  /\ phase # "idle" /\ faults < MaxFaults
  /\ faults' = faults + 1 /\ runFaults' = runFaults + 1
  /\ litter' \in {litter} \cup
       (IF phase \in {"write", "rollback"} /\ Writing
          THEN {litter \cup {Target}} ELSE {})
  /\ report' = "KILLED" /\ phase' = "idle"
  /\ UNCHANGED <<src, pub, man, head, job, edits, runs>>

-----------------------------------------------------------------------------

ScanEntry == ScanDrift \/ ScanUnchanged \/ ScanSensitive \/ ScanChange
Helper ==
  \/ ScanEntry \/ Conclude \/ Refuse \/ Accept
  \/ SkipFile \/ WriteFile \/ WriteManifest \/ VerifierPasses
  \/ RestoreFile \/ RestoreManifest
Fault == AcceptUnseen \/ WriteFails \/ VerifierFails \/ RollbackFails \/ Killed
Around == (\E f \in Mapped : EditSource(f)) \/ Commit \/ Restore

Next == (\E m \in {"check", "apply"} : Start(m)) \/ Helper \/ Fault \/ Around

Spec == Init /\ [][Next]_vars

\* A started helper runs; nothing is asked of the maintainer or the editor.
FairSpec == Spec /\ WF_vars(Helper)

-----------------------------------------------------------------------------
(* Properties.                                                             *)

Trees == [pub : [Mapped -> Bytes], man : [Mapped -> Entries]]

\* The values of the variables.
TypeOK ==
  /\ src \in [Mapped -> Bytes]
  /\ pub \in [Mapped -> Bytes]
  /\ man \in [Mapped -> Entries] /\ memory \in [Mapped -> Entries]
  /\ head \in Trees /\ backup \in Trees
  /\ litter \subseteq Mapped \cup {Manifest}
  /\ phase \in {"idle", "scan", "write", "verify", "rollback"}
  /\ next \in 1 .. Len(File) + 1
  /\ mode \in {"check", "apply"}
  /\ changed \subseteq Mapped /\ payload \in [Mapped -> Entries]
  /\ blocked \in BOOLEAN /\ cleanStart \in BOOLEAN
  /\ report \in {"STALE", "BLOCKED", "PENDING", "NONE", "REFUSED", "APPLIED",
                 "ROLLED_BACK", "ROLLED_BACK_DIRTY", "RAISED", "KILLED"}
  /\ faults \in Nat /\ runFaults \in Nat /\ edits \in Nat /\ runs \in Nat

\* A file whose bytes have the hash the manifest records is the published form
\* of the source the manifest records next to it: whatever is edited, written,
\* rolled back, killed or committed, the two hashes of an entry never describe
\* different versions of the file.
Provenance ==
  \A f \in Mapped : man[f].pub = pub[f] => pub[f] = ToPublic(f, man[f].src)

\* No content that scan_candidate would have stopped is ever in the public
\* tree, although the source may change after the scan.
NothingSensitive == \A f \in Mapped : pub[f] \notin Sensitive

\* What the helper reports as current, pending, applied or rolled back is a
\* tree in which every file has its recorded hash: one left torn by a kill or
\* a failed rollback is reported as blocked until it is repaired.
NeverTorn ==
  report \in {"NONE", "PENDING", "APPLIED", "ROLLED_BACK"} =>
    \A f \in Mapped : pub[f] = man[f].pub

\* A rollback that ends is complete: the tracked files are those of the commit
\* and no .tmp file is left behind, whichever write failed, unless the apply
\* itself started from a tree that was not clean.
RollbackComplete ==
  report \in {"ROLLED_BACK", "ROLLED_BACK_DIRTY"} /\ cleanStart => Clean

\* "roll back completely on failure": one failure in a run never leaves the
\* tree half written; that takes a second one, during the rollback, or a kill.
OneFailureIsUndone ==
  phase = "idle" /\ runFaults < 2 /\ report # "KILLED" =>
    \/ report \in {"STALE", "BLOCKED"}
    \/ \A f \in Mapped : pub[f] = man[f].pub

\* A started run ends.
RunEnds == phase # "idle" ~> phase = "idle"

=============================================================================
