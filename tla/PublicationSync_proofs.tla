------------------------ MODULE PublicationSync_proofs ------------------------
(***************************************************************************)
(* What prepare_publication_sync guarantees for any number of files, any    *)
(* contents and any number of edits, runs and faults.                       *)
(***************************************************************************)
EXTENDS PublicationSync, TLAPS

AllNext ==
  \/ \E m \in {"check", "apply"} : Start(m)
  \/ ScanDrift \/ ScanUnchanged \/ ScanSensitive \/ ScanChange
  \/ Conclude \/ Refuse \/ Accept \/ AcceptUnseen
  \/ SkipFile \/ WriteFile \/ WriteManifest \/ WriteFails
  \/ VerifierPasses \/ VerifierFails
  \/ RestoreFile \/ RestoreManifest \/ RollbackFails \/ Killed
  \/ \E f \in Mapped : EditSource(f)
  \/ Commit \/ Restore

\* The next-state relation is the disjunction of the handlers' steps.
LEMMA NextIsAllNext == Next <=> AllNext
  BY DEF Next, AllNext, Helper, Fault, Around, ScanEntry

\* The entry at hand is a mapped file.
LEMMA HereMapped ==
  ASSUME TypeOK, ~Done
  PROVE  next \in DOMAIN File /\ Here \in Mapped
  <1>1. Len(File) \in Nat /\ DOMAIN File = 1 .. Len(File)
    BY FileAssumption
  <1> QED BY <1>1 DEF TypeOK, Done, Here, Mapped

\* Publishing a content gives a content.
LEMMA ToPublicType == \A f \in Mapped, b \in Bytes : ToPublic(f, b) \in Bytes
  BY BytesAssumption DEF ToPublic

-----------------------------------------------------------------------------
(* Types.                                                                  *)

\* TypeOK but for the Boolean variables, which the solvers want apart.
DataOK ==
  /\ src \in [Mapped -> Bytes]
  /\ pub \in [Mapped -> Bytes]
  /\ man \in [Mapped -> Entries] /\ memory \in [Mapped -> Entries]
  /\ head \in Trees /\ backup \in Trees
  /\ litter \subseteq Mapped \cup {Manifest}
  /\ phase \in {"idle", "scan", "write", "verify", "rollback"}
  /\ next \in 1 .. Len(File) + 1
  /\ mode \in {"check", "apply"}
  /\ changed \subseteq Mapped /\ payload \in [Mapped -> Entries]
  /\ report \in {"STALE", "BLOCKED", "PENDING", "NONE", "REFUSED", "APPLIED",
                 "ROLLED_BACK", "ROLLED_BACK_DIRTY", "RAISED", "KILLED"}
  /\ faults \in Nat /\ runFaults \in Nat /\ edits \in Nat /\ runs \in Nat

LEMMA TypeParts == TypeOK <=> DataOK /\ blocked \in BOOLEAN /\ cleanStart \in BOOLEAN
  BY DEF TypeOK, DataOK

LEMMA InitTypeOK == Init => TypeOK
  <1> SUFFICES ASSUME Init PROVE TypeOK OBVIOUS
  <1>1. Len(File) \in Nat BY FileAssumption
  <1>2. Original \in Bytes BY BytesAssumption
  <1>3. src \in [Mapped -> Bytes] /\ pub \in [Mapped -> Bytes]
    BY <1>2, ToPublicType DEF Init
  <1>4. man \in [Mapped -> Entries]
    BY <1>2, ToPublicType DEF Init, Entries
  <1>5. head \in Trees BY <1>3, <1>4 DEF Init, Trees
  <1>6. DataOK BY <1>1, <1>3, <1>4, <1>5 DEF Init, DataOK
  <1>7. blocked \in BOOLEAN /\ cleanStart \in BOOLEAN BY DEF Init
  <1> QED BY <1>6, <1>7, TypeParts

LEMMA NextTypeOK == TypeOK /\ [Next]_vars => TypeOK'
  <1> SUFFICES ASSUME TypeOK, [Next]_vars PROVE TypeOK' OBVIOUS
  <1> USE DEF tree, job
  <1>0. CASE UNCHANGED vars BY <1>0 DEF TypeOK, vars
  <1>1. ASSUME NEW m \in {"check", "apply"}, Start(m) PROVE TypeOK'
    <2>1. 1 \in 1 .. Len(File) + 1 BY FileAssumption
    <2>2. DataOK' BY <1>1, <2>1 DEF TypeOK, DataOK, Start
    <2>3. blocked' \in BOOLEAN /\ cleanStart' \in BOOLEAN BY <1>1 DEF Start, TypeOK
    <2> QED BY <2>2, <2>3 DEF TypeOK, DataOK
  <1>2. CASE ScanDrift
    <2>1. next' \in 1 .. Len(File) + 1
      BY <1>2, HereMapped, FileAssumption DEF ScanDrift, ScanStep, TypeOK, Done
    <2> QED BY <1>2, <2>1 DEF TypeOK, ScanDrift, ScanStep
  <1>3. CASE ScanUnchanged
    <2>1. next' \in 1 .. Len(File) + 1
      BY <1>3, FileAssumption DEF ScanUnchanged, ScanStep, TypeOK, Done
    <2> QED BY <1>3, <2>1 DEF TypeOK, ScanUnchanged, ScanStep
  <1>4. CASE ScanSensitive
    <2>1. next' \in 1 .. Len(File) + 1
      BY <1>4, FileAssumption DEF ScanSensitive, ScanStep, TypeOK, Done
    <2> QED BY <1>4, <2>1 DEF TypeOK, ScanSensitive, ScanStep
  <1>5. CASE ScanChange
    <2>1. next' \in 1 .. Len(File) + 1
      BY <1>5, FileAssumption DEF ScanChange, ScanStep, TypeOK, Done
    <2>2. Here \in Mapped BY <1>5, HereMapped DEF ScanChange, ScanStep
    <2>3. payload' \in [Mapped -> Entries]
      BY <1>5, <2>2, ToPublicType DEF ScanChange, TypeOK, Entries
    <2> QED BY <1>5, <2>1, <2>2, <2>3 DEF TypeOK, ScanChange, ScanStep
  <1>6. CASE Conclude BY <1>6 DEF TypeOK, Conclude, State
  <1>7. CASE Refuse BY <1>7 DEF TypeOK, Refuse
  <1>8. CASE Accept \/ AcceptUnseen
    <2>1. 1 \in 1 .. Len(File) + 1 BY FileAssumption
    <2>2. Proceed BY <1>8 DEF Accept, AcceptUnseen
    <2>3. faults' \in Nat /\ runFaults' \in Nat
      BY <1>8 DEF Accept, AcceptUnseen, TypeOK
    <2>4. DataOK' BY <2>1, <2>2, <2>3 DEF TypeOK, DataOK, Proceed, Trees
    <2>5. cleanStart' \in BOOLEAN BY <2>2 DEF Proceed, Clean
    <2>6. blocked' \in BOOLEAN BY <2>2 DEF Proceed, TypeOK
    <2> QED BY <2>4, <2>5, <2>6 DEF TypeOK, DataOK
  <1>9. CASE SkipFile
    <2>1. next' \in 1 .. Len(File) + 1
      BY <1>9, FileAssumption DEF SkipFile, TypeOK, Done
    <2> QED BY <1>9, <2>1 DEF TypeOK, SkipFile
  <1>10. CASE WriteFile
    <2>1. next' \in 1 .. Len(File) + 1
      BY <1>10, FileAssumption DEF WriteFile, TypeOK, Done
    <2>2. Here \in Mapped BY <1>10, HereMapped DEF WriteFile
    <2>3. payload[Here].pub \in Bytes /\ payload[Here] \in Entries
      BY <2>2 DEF TypeOK, Entries
    <2>4. pub' \in [Mapped -> Bytes] /\ memory' \in [Mapped -> Entries]
      BY <1>10, <2>2, <2>3 DEF WriteFile, TypeOK
    <2> QED BY <1>10, <2>1, <2>4 DEF TypeOK, WriteFile, Wrote
  <1>11. CASE WriteManifest BY <1>11 DEF TypeOK, WriteManifest, Wrote
  <1>12. CASE WriteFails
    <2>1. 1 \in 1 .. Len(File) + 1 BY FileAssumption
    <2>2. Target \in Mapped \cup {Manifest} BY HereMapped DEF Target
    <2> QED BY <1>12, <2>1, <2>2 DEF TypeOK, WriteFails, Raised
  <1>13. CASE VerifierPasses BY <1>13 DEF TypeOK, VerifierPasses
  <1>14. CASE VerifierFails
    <2>1. 1 \in 1 .. Len(File) + 1 BY FileAssumption
    <2> QED BY <1>14, <2>1 DEF TypeOK, VerifierFails
  <1>15. CASE RestoreFile
    <2>1. next' \in 1 .. Len(File) + 1
      BY <1>15, FileAssumption DEF RestoreFile, TypeOK, Done
    <2>2. Here \in Mapped BY <1>15, HereMapped DEF RestoreFile
    <2>3. pub' \in [Mapped -> Bytes]
      BY <1>15, <2>2 DEF RestoreFile, TypeOK, Trees
    <2> QED BY <1>15, <2>1, <2>3 DEF TypeOK, RestoreFile, Wrote
  <1>16. CASE RestoreManifest BY <1>16 DEF TypeOK, RestoreManifest, Wrote, Trees
  <1>17. CASE RollbackFails
    <2>2. Target \in Mapped \cup {Manifest} BY HereMapped DEF Target
    <2> QED BY <1>17, <2>2 DEF TypeOK, RollbackFails, Raised
  <1>18. CASE Killed
    <2>2. Target \in Mapped \cup {Manifest} BY HereMapped DEF Target
    <2> QED BY <1>18, <2>2 DEF TypeOK, Killed
  <1>19. ASSUME NEW f \in Mapped, EditSource(f) PROVE TypeOK'
    <2>1. src' \in [Mapped -> Bytes] BY <1>19 DEF EditSource, TypeOK
    <2> QED BY <1>19, <2>1 DEF TypeOK, EditSource
  <1>20. CASE Commit BY <1>20 DEF TypeOK, Commit, Trees
  <1>21. CASE Restore BY <1>21 DEF TypeOK, Restore, Trees
  <1> QED
    BY <1>0, <1>1, <1>2, <1>3, <1>4, <1>5, <1>6, <1>7, <1>8, <1>9, <1>10, <1>11,
       <1>12, <1>13, <1>14, <1>15, <1>16, <1>17, <1>18, <1>19, <1>20, <1>21,
       NextIsAllNext DEF AllNext

\* The variables of the helper have their types in every reachable state.
THEOREM TypeCorrect == Spec => []TypeOK
  <1> QED BY InitTypeOK, NextTypeOK, PTL DEF Spec

-----------------------------------------------------------------------------
(* The two hashes of an entry.                                             *)

Honest(m) == \A f \in Mapped : m[f].pub = ToPublic(f, m[f].src)

\* Provenance made inductive: the manifests that can still come to lie on disk
\* are honest as well.
Honesty ==
  /\ Honest(man) /\ Honest(memory) /\ Honest(payload)
  /\ Honest(head.man) /\ Honest(backup.man)

\* The steps that write no manifest and change none in memory.
LEMMA HonestyKept ==
  ASSUME Honesty, man' = man, memory' = memory, payload' = payload,
         head' = head, backup' = backup
  PROVE  Honesty'
  BY DEF Honesty, Honest

LEMMA InitHonesty == Init => Honesty
  BY BytesAssumption DEF Init, Honesty, Honest, ToPublic

LEMMA NextHonesty == TypeOK /\ Honesty /\ [Next]_vars => Honesty'
  <1> SUFFICES ASSUME TypeOK, Honesty, [Next]_vars PROVE Honesty' OBVIOUS
  <1> USE DEF tree, job
  <1>0. CASE UNCHANGED vars BY <1>0, HonestyKept DEF vars
  <1>1. ASSUME NEW m \in {"check", "apply"}, Start(m) PROVE Honesty'
    BY <1>1 DEF Start, Honesty, Honest
  <1>2. CASE ScanChange
    <2>1. Here \in Mapped BY <1>2, HereMapped DEF ScanChange, ScanStep
    <2>2. payload' = [payload EXCEPT ![Here] =
                        [src |-> src[Here], pub |-> ToPublic(Here, src[Here])]]
      BY <1>2 DEF ScanChange
    <2>3. Honest(payload)' BY <2>1, <2>2 DEF Honest, Honesty, TypeOK
    <2> QED BY <1>2, <2>3 DEF ScanChange, ScanStep, Honesty, Honest
  <1>3. CASE Accept \/ AcceptUnseen
    BY <1>3 DEF Accept, AcceptUnseen, Proceed, Honesty, Honest
  <1>4. CASE WriteFile
    <2>1. Here \in Mapped BY <1>4, HereMapped DEF WriteFile
    <2>2. Honest(memory)' BY <1>4, <2>1 DEF WriteFile, Honesty, Honest, TypeOK
    <2> QED BY <1>4, <2>2 DEF WriteFile, Honesty, Honest
  <1>5. CASE WriteManifest BY <1>5 DEF WriteManifest, Honesty, Honest
  <1>6. CASE RestoreManifest BY <1>6 DEF RestoreManifest, Honesty, Honest
  <1>7. CASE Commit BY <1>7 DEF Commit, Honesty, Honest
  <1>8. CASE Restore BY <1>8 DEF Restore, Honesty, Honest
  <1>9. CASE ScanDrift \/ ScanUnchanged \/ ScanSensitive
    BY <1>9, HonestyKept DEF ScanDrift, ScanUnchanged, ScanSensitive, ScanStep
  <1>10. CASE Conclude \/ Refuse \/ SkipFile \/ VerifierPasses \/ VerifierFails
    BY <1>10, HonestyKept DEF Conclude, Refuse, SkipFile, VerifierPasses, VerifierFails
  <1>11. CASE WriteFails \/ RestoreFile \/ RollbackFails \/ Killed
    BY <1>11, HonestyKept DEF WriteFails, RestoreFile, RollbackFails, Killed, Raised
  <1>12. ASSUME NEW f \in Mapped, EditSource(f) PROVE Honesty'
    BY <1>12, HonestyKept DEF EditSource
  <1> QED
    BY <1>0, <1>1, <1>2, <1>3, <1>4, <1>5, <1>6, <1>7, <1>8, <1>9, <1>10, <1>11,
       <1>12, NextIsAllNext DEF AllNext

\* The hashes of an entry describe one version of the file, whatever is
\* edited, written, rolled back, killed or committed.
THEOREM ProvenanceCorrect == Spec => []Provenance
  <1>1. Honesty => Provenance BY DEF Honesty, Honest, Provenance
  <1> QED
    BY <1>1, InitTypeOK, NextTypeOK, InitHonesty, NextHonesty, PTL DEF Spec

-----------------------------------------------------------------------------
(* What scan_candidate stops.                                              *)

Harmless ==
  \A f \in Mapped :
    /\ pub[f] \notin Sensitive
    /\ head.pub[f] \notin Sensitive /\ backup.pub[f] \notin Sensitive
    /\ f \in changed => payload[f].pub \notin Sensitive

LEMMA HarmlessKept ==
  ASSUME Harmless, pub' = pub, head' = head, backup' = backup, changed' = changed,
         payload' = payload
  PROVE  Harmless'
  BY DEF Harmless

LEMMA InitHarmless == Init => Harmless
  BY BytesAssumption DEF Init, Harmless, ToPublic

LEMMA NextHarmless == TypeOK /\ Harmless /\ [Next]_vars => Harmless'
  <1> SUFFICES ASSUME TypeOK, Harmless, [Next]_vars PROVE Harmless' OBVIOUS
  <1> USE DEF tree, job
  <1>0. CASE UNCHANGED vars BY <1>0, HarmlessKept DEF vars
  <1>1. ASSUME NEW m \in {"check", "apply"}, Start(m) PROVE Harmless'
    BY <1>1 DEF Start, Harmless
  <1>2. CASE ScanChange
    <2>1. Here \in Mapped BY <1>2, HereMapped DEF ScanChange, ScanStep
    <2>2. \A f \in changed' : payload'[f].pub \notin Sensitive
      BY <1>2, <2>1 DEF ScanChange, Harmless, TypeOK
    <2> QED BY <1>2, <2>2 DEF ScanChange, ScanStep, Harmless
  <1>3. CASE Accept \/ AcceptUnseen
    BY <1>3 DEF Accept, AcceptUnseen, Proceed, Harmless
  <1>4. CASE WriteFile
    <2>1. Here \in Mapped BY <1>4, HereMapped DEF WriteFile
    <2> QED BY <1>4, <2>1 DEF WriteFile, Harmless, TypeOK
  <1>5. CASE RestoreFile
    <2>1. Here \in Mapped BY <1>5, HereMapped DEF RestoreFile
    <2> QED BY <1>5, <2>1 DEF RestoreFile, Harmless, TypeOK
  <1>6. CASE Commit BY <1>6 DEF Commit, Harmless
  <1>7. CASE Restore BY <1>7 DEF Restore, Harmless
  <1>8. CASE ScanDrift \/ ScanUnchanged \/ ScanSensitive
    BY <1>8, HarmlessKept DEF ScanDrift, ScanUnchanged, ScanSensitive, ScanStep
  <1>9. CASE Conclude \/ Refuse \/ SkipFile \/ VerifierPasses \/ VerifierFails
    BY <1>9, HarmlessKept DEF Conclude, Refuse, SkipFile, VerifierPasses, VerifierFails
  <1>10. CASE WriteManifest \/ WriteFails \/ RestoreManifest \/ RollbackFails \/ Killed
    BY <1>10, HarmlessKept
    DEF WriteManifest, WriteFails, RestoreManifest, RollbackFails, Killed, Raised
  <1>11. ASSUME NEW f \in Mapped, EditSource(f) PROVE Harmless'
    BY <1>11, HarmlessKept DEF EditSource
  <1> QED
    BY <1>0, <1>1, <1>2, <1>3, <1>4, <1>5, <1>6, <1>7, <1>8, <1>9, <1>10, <1>11,
       NextIsAllNext DEF AllNext

\* Nothing that scan_candidate stops reaches the public tree, although the
\* source may change between the scan and the write.
THEOREM NothingSensitiveCorrect == Spec => []NothingSensitive
  <1>1. Harmless => NothingSensitive BY DEF Harmless, NothingSensitive
  <1> QED
    BY <1>1, InitTypeOK, NextTypeOK, InitHarmless, NextHarmless, PTL DEF Spec

-----------------------------------------------------------------------------
(* Torn trees and rollbacks.                                               *)

Consistent(p, m) == \A f \in Mapped : p[f] = m[f].pub
Applying == {"write", "verify", "rollback"}
Settled == {"NONE", "PENDING", "APPLIED", "REFUSED", "ROLLED_BACK", "ROLLED_BACK_DIRTY"}

\* How far a run has come, entry by entry.
Course ==
  /\ phase # "idle" => report = "STALE"
  /\ phase = "scan" => memory = man
  /\ phase = "scan" /\ ~blocked => \A i \in 1 .. next - 1 : pub[File[i]] = man[File[i]].pub
  /\ phase = "write" => Consistent(pub, memory)
  /\ phase = "verify" => Consistent(pub, man)
  /\ phase \in Applying => Consistent(backup.pub, backup.man)
  /\ phase \in Applying => \A f \in Mapped \ changed : pub[f] = backup.pub[f]
  /\ phase = "rollback" => \A i \in 1 .. next - 1 : pub[File[i]] = backup.pub[File[i]]
  /\ phase = "rollback" => runFaults >= 1
  /\ report = "RAISED" => runFaults >= 2
  /\ report \in Settled => Consistent(pub, man)

LEMMA InitCourse == Init => Course
  BY DEF Init, Course, Consistent, Applying, Settled

\* Every file is passed by the time the index is past the end.
LEMMA PassedAll ==
  ASSUME TypeOK, Done, NEW f \in Mapped
  PROVE  \E i \in 1 .. next - 1 : f = File[i]
  <1>1. PICK i \in DOMAIN File : f = File[i] BY DEF Mapped
  <1>2. Len(File) \in Nat /\ DOMAIN File = 1 .. Len(File) BY FileAssumption
  <1> QED BY <1>1, <1>2 DEF Done, TypeOK

\* Two places of the manifest hold two files.
LEMMA PassedIsNotHere ==
  ASSUME TypeOK, ~Done, NEW i \in 1 .. next - 1
  PROVE  File[i] # Here /\ File[i] \in Mapped
  <1>1. next \in DOMAIN File BY HereMapped
  <1>2. DOMAIN File = 1 .. Len(File) /\ Len(File) \in Nat BY FileAssumption
  <1>3. i \in DOMAIN File /\ i # next BY <1>1, <1>2 DEF TypeOK
  <1> QED BY <1>1, <1>3, FileAssumption DEF Here, Mapped

LEMMA NextCourse == TypeOK /\ Course /\ [Next]_vars => Course'
  <1> SUFFICES ASSUME TypeOK, Course, [Next]_vars PROVE Course' OBVIOUS
  <1> USE DEF tree, job, Applying, Settled
  <1>0. CASE UNCHANGED vars BY <1>0 DEF vars, Course, Consistent
  <1>1. ASSUME NEW m \in {"check", "apply"}, Start(m) PROVE Course'
    <2>1. 1 .. next' - 1 = {} BY <1>1 DEF Start
    <2> QED BY <1>1, <2>1 DEF Start, Course
  <1>2. CASE ScanDrift
    BY <1>2 DEF ScanDrift, ScanStep, Course
  <1>3. CASE ScanSensitive
    BY <1>3 DEF ScanSensitive, ScanStep, Course
  <1>4. CASE ScanUnchanged \/ ScanChange
    <2>1. ScanStep /\ pub[Here] = man[Here].pub /\ blocked' = blocked
      BY <1>4 DEF ScanUnchanged, ScanChange, ScanStep, Course
    <2>2. \A i \in 1 .. next' - 1 : i \in 1 .. next - 1 \/ i = next
      BY <2>1 DEF ScanStep, TypeOK
    <2>3. ~blocked' => \A i \in 1 .. next' - 1 : pub'[File[i]] = man'[File[i]].pub
      BY <2>1, <2>2 DEF ScanStep, Course, Here
    <2> QED BY <2>1, <2>3 DEF ScanStep, Course, Consistent
  <1>5. CASE Conclude
    <2>1. ~blocked => Consistent(pub, man)
      BY <1>5, PassedAll DEF Conclude, Course, Consistent
    <2>2. report' \in Settled => ~blocked
      <3>1. CASE blocked BY <1>5, <3>1 DEF Conclude, State
      <3>2. CASE ~blocked BY <3>2
      <3> QED BY <3>1, <3>2
    <2>3. report' # "RAISED" BY <1>5 DEF Conclude, State
    <2>4. phase' = "idle" /\ pub' = pub /\ man' = man BY <1>5 DEF Conclude
    <2> QED BY <2>1, <2>2, <2>3, <2>4 DEF Course, Consistent
  <1>6. CASE Refuse
    <2>1. Consistent(pub, man)
      BY <1>6, PassedAll DEF Refuse, Course, Consistent
    <2> QED BY <1>6, <2>1 DEF Refuse, Course, Consistent
  <1>7. CASE Accept \/ AcceptUnseen
    <2>1. Proceed BY <1>7 DEF Accept, AcceptUnseen
    <2>2. Consistent(pub, man) /\ memory = man
      BY <2>1, PassedAll DEF Proceed, Course, Consistent
    <2> QED BY <2>1, <2>2 DEF Proceed, Course, Consistent
  <1>8. CASE SkipFile
    <2>1. phase = "rollback" => pub[File[next]] = backup.pub[File[next]]
      BY <1>8, HereMapped DEF SkipFile, Course, Here
    <2>2. \A i \in 1 .. next' - 1 : i \in 1 .. next - 1 \/ i = next
      BY <1>8 DEF SkipFile, TypeOK
    <2>3. phase' = "rollback" =>
            \A i \in 1 .. next' - 1 : pub'[File[i]] = backup'.pub[File[i]]
      BY <1>8, <2>1, <2>2 DEF SkipFile, Course
    <2> QED BY <1>8, <2>3 DEF SkipFile, Course, Consistent
  <1>9. CASE WriteFile
    <2>1. Here \in Mapped BY <1>9, HereMapped DEF WriteFile
    <2>2. Consistent(pub, memory)'
      BY <1>9, <2>1 DEF WriteFile, Course, Consistent, TypeOK
    <2>3. \A f \in Mapped \ changed' : pub'[f] = backup'.pub[f]
      BY <1>9, <2>1 DEF WriteFile, Course, TypeOK
    <2> QED BY <1>9, <2>2, <2>3 DEF WriteFile, Course, Consistent
  <1>10. CASE WriteManifest
    BY <1>10 DEF WriteManifest, Course, Consistent
  <1>11. CASE WriteFails
    <2>1. 1 .. next' - 1 = {} /\ runFaults' >= 1
      BY <1>11 DEF WriteFails, Raised, TypeOK
    <2> QED BY <1>11, <2>1 DEF WriteFails, Raised, Course, Consistent
  <1>12. CASE VerifierPasses
    BY <1>12 DEF VerifierPasses, Course, Consistent
  <1>13. CASE VerifierFails
    <2>1. 1 .. next' - 1 = {} /\ runFaults' >= 1
      BY <1>13 DEF VerifierFails, TypeOK
    <2> QED BY <1>13, <2>1 DEF VerifierFails, Course, Consistent
  <1>14. CASE RestoreFile
    <2>1. Here \in Mapped BY <1>14, HereMapped DEF RestoreFile
    <2>2. pub' = [pub EXCEPT ![Here] = backup.pub[Here]] /\ backup' = backup
          /\ changed' = changed /\ next' = next + 1
      BY <1>14 DEF RestoreFile
    <2>3. \A f \in Mapped : pub[f] = backup.pub[f] => pub'[f] = backup'.pub[f]
      BY <2>1, <2>2 DEF TypeOK
    <2>4. pub'[Here] = backup'.pub[Here] BY <2>1, <2>2 DEF TypeOK
    <2>5. \A i \in 1 .. next' - 1 : i \in 1 .. next - 1 \/ i = next
      BY <2>2 DEF TypeOK
    <2>6. \A i \in 1 .. next' - 1 : pub'[File[i]] = backup'.pub[File[i]]
      BY <1>14, <2>3, <2>4, <2>5, PassedIsNotHere DEF RestoreFile, Course, Here
    <2>7. \A f \in Mapped \ changed' : pub'[f] = backup'.pub[f]
      BY <1>14, <2>2, <2>3 DEF RestoreFile, Course
    <2> QED BY <1>14, <2>6, <2>7 DEF RestoreFile, Course, Consistent
  <1>15. CASE RestoreManifest
    <2>1. \A f \in Mapped : pub[f] = backup.pub[f]
      BY <1>15, PassedAll DEF RestoreManifest, Course
    <2>2. Consistent(pub, man)'
      BY <1>15, <2>1 DEF RestoreManifest, Course, Consistent
    <2> QED BY <1>15, <2>2 DEF RestoreManifest, Course
  <1>16. CASE RollbackFails
    <2>1. runFaults' >= 2 BY <1>16 DEF RollbackFails, Raised, Course, TypeOK
    <2> QED BY <1>16, <2>1 DEF RollbackFails, Course
  <1>17. CASE Killed BY <1>17 DEF Killed, Course
  <1>18. ASSUME NEW f \in Mapped, EditSource(f) PROVE Course'
    BY <1>18 DEF EditSource, Course, Consistent
  <1>19. CASE Commit BY <1>19 DEF Commit, Course, Consistent
  <1>20. CASE Restore BY <1>20 DEF Restore, Course
  <1> QED
    BY <1>0, <1>1, <1>2, <1>3, <1>4, <1>5, <1>6, <1>7, <1>8, <1>9, <1>10, <1>11,
       <1>12, <1>13, <1>14, <1>15, <1>16, <1>17, <1>18, <1>19, <1>20, NextIsAllNext
    DEF AllNext

\* A tree reported as current, pending, applied or rolled back has in every file
\* the bytes the manifest records.
THEOREM NeverTornCorrect == Spec => []NeverTorn
  <1>1. Course => NeverTorn BY DEF Course, NeverTorn, Settled, Consistent
  <1> QED
    BY <1>1, InitTypeOK, NextTypeOK, InitCourse, NextCourse, PTL DEF Spec

\* One failure in a run, whichever it is, leaves no half-written tree.
THEOREM OneFailureIsUndoneCorrect == Spec => []OneFailureIsUndone
  <1>1. TypeOK /\ Course => OneFailureIsUndone
    BY DEF TypeOK, Course, OneFailureIsUndone, Settled, Consistent
  <1> QED
    BY <1>1, InitTypeOK, NextTypeOK, InitCourse, NextCourse, PTL DEF Spec

-----------------------------------------------------------------------------
(* Complete rollbacks.                                                     *)

\* What an apply that started from a clean tree may have left so far.
CleanCourse ==
  /\ cleanStart =>
       /\ phase \in Applying => backup = head
       /\ phase \in {"write", "verify"} => litter = {}
       /\ phase = "rollback" => litter \subseteq changed \cup {Manifest}
       /\ phase = "rollback" => \A i \in 1 .. next - 1 : File[i] \notin litter
  /\ RollbackComplete

LEMMA InitCleanCourse == Init => CleanCourse
  BY DEF Init, CleanCourse, Applying, RollbackComplete

LEMMA NextCleanCourse ==
  ASSUME TypeOK, Course, CleanCourse, [Next]_vars
  PROVE  CleanCourse'
  <1> SUFFICES ASSUME cleanStart' PROVE CleanCourse'
    BY DEF CleanCourse, RollbackComplete
  <1> USE DEF tree, job, Applying
  <1>0. CASE UNCHANGED vars BY <1>0 DEF vars, CleanCourse, RollbackComplete, Clean
  <1>1. ASSUME NEW m \in {"check", "apply"}, Start(m) PROVE CleanCourse'
    BY <1>1 DEF Start, CleanCourse, RollbackComplete
  <1>2. CASE ScanDrift \/ ScanUnchanged \/ ScanSensitive \/ ScanChange
    <2>1. phase' = "scan" /\ report' = "STALE"
      BY <1>2 DEF ScanDrift, ScanUnchanged, ScanSensitive, ScanChange, ScanStep, Course
    <2> QED BY <2>1 DEF CleanCourse, RollbackComplete
  <1>3. CASE Conclude
    <2>1. phase' = "idle" BY <1>3 DEF Conclude
    <2>2. report' \notin {"ROLLED_BACK", "ROLLED_BACK_DIRTY"} BY <1>3 DEF Conclude, State
    <2> QED BY <2>1, <2>2 DEF CleanCourse, RollbackComplete
  <1>4. CASE Refuse BY <1>4 DEF Refuse, CleanCourse, RollbackComplete
  <1>5. CASE Accept \/ AcceptUnseen
    <2>1. Proceed BY <1>5 DEF Accept, AcceptUnseen
    <2>2. CASE Clean
      <3>1. head = [pub |-> head.pub, man |-> head.man] BY DEF TypeOK, Trees
      <3>2. backup' = head BY <2>1, <2>2, <3>1 DEF Proceed, Clean
      <3>3. phase' = "write" /\ head' = head /\ report' = report /\ litter' = litter
        BY <2>1 DEF Proceed
      <3>4. report = "STALE" BY <2>1 DEF Proceed, Course
      <3>5. litter = {} BY <2>2 DEF Clean
      <3> QED BY <3>2, <3>3, <3>4, <3>5 DEF CleanCourse, RollbackComplete
    <2>3. CASE ~Clean
      <3>1. ~cleanStart' BY <2>1, <2>3 DEF Proceed
      <3> QED BY <3>1 DEF CleanCourse, RollbackComplete
    <2> QED BY <2>2, <2>3
  <1>7. CASE SkipFile
    <2>1. \A i \in 1 .. next' - 1 : i \in 1 .. next - 1 \/ i = next
      BY <1>7 DEF SkipFile, TypeOK
    <2>2. phase = "rollback" => File[next] \notin litter
      BY <1>7, HereMapped, FileAssumption DEF SkipFile, CleanCourse, Here
    <2>3. phase' = "rollback" => \A i \in 1 .. next' - 1 : File[i] \notin litter'
      BY <1>7, <2>1, <2>2 DEF SkipFile, CleanCourse
    <2>4. report' = "STALE" BY <1>7 DEF SkipFile, Course
    <2> QED BY <1>7, <2>3, <2>4 DEF SkipFile, CleanCourse, RollbackComplete
  <1>8. CASE WriteFile
    BY <1>8 DEF WriteFile, Wrote, CleanCourse, RollbackComplete, Course
  <1>9. CASE WriteManifest
    BY <1>9 DEF WriteManifest, Wrote, CleanCourse, RollbackComplete, Course
  <1>10. CASE WriteFails
    <2>1. Target \in changed \cup {Manifest} BY <1>10 DEF WriteFails, Writing
    <2>2. 1 .. next' - 1 = {} BY <1>10 DEF WriteFails
    <2> QED
      BY <1>10, <2>1, <2>2 DEF WriteFails, Raised, CleanCourse, RollbackComplete, Course
  <1>11. CASE VerifierPasses
    BY <1>11 DEF VerifierPasses, CleanCourse, RollbackComplete
  <1>12. CASE VerifierFails
    <2>1. 1 .. next' - 1 = {} BY <1>12 DEF VerifierFails
    <2> QED
      BY <1>12, <2>1 DEF VerifierFails, CleanCourse, RollbackComplete, Course
  <1>13. CASE RestoreFile
    <2>1. \A i \in 1 .. next' - 1 : i \in 1 .. next - 1 \/ i = next
      BY <1>13 DEF RestoreFile, TypeOK
    <2>2. litter' = litter \ {File[next]} BY <1>13 DEF RestoreFile, Wrote, Here
    <2>3. \A i \in 1 .. next' - 1 : File[i] \notin litter'
      BY <1>13, <2>1, <2>2 DEF RestoreFile, CleanCourse
    <2> QED
      BY <1>13, <2>2, <2>3 DEF RestoreFile, CleanCourse, RollbackComplete, Course
  <1>14. CASE RestoreManifest
    <2>1. \A f \in Mapped : pub[f] = head.pub[f] /\ f \notin litter
      BY <1>14, PassedAll DEF RestoreManifest, Course, CleanCourse
    <2>2. pub = head.pub BY <2>1 DEF TypeOK, Trees
    <2>3. litter' = {} BY <1>14, <2>1 DEF RestoreManifest, Wrote, TypeOK
    <2>4. man' = head.man BY <1>14 DEF RestoreManifest, CleanCourse
    <2>5. Clean' BY <1>14, <2>2, <2>3, <2>4 DEF RestoreManifest, Clean
    <2> QED BY <1>14, <2>5 DEF RestoreManifest, CleanCourse, RollbackComplete
  <1>15. CASE RollbackFails
    BY <1>15 DEF RollbackFails, CleanCourse, RollbackComplete
  <1>16. CASE Killed BY <1>16 DEF Killed, CleanCourse, RollbackComplete
  <1>17. ASSUME NEW f \in Mapped, EditSource(f) PROVE CleanCourse'
    BY <1>17 DEF EditSource, CleanCourse, RollbackComplete, Clean
  <1>18. CASE Commit BY <1>18 DEF Commit, CleanCourse, RollbackComplete
  <1>19. CASE Restore BY <1>19 DEF Restore, CleanCourse, RollbackComplete
  <1> QED
    BY <1>0, <1>1, <1>2, <1>3, <1>4, <1>5, <1>7, <1>8, <1>9, <1>10, <1>11,
       <1>12, <1>13, <1>14, <1>15, <1>16, <1>17, <1>18, <1>19, NextIsAllNext
    DEF AllNext

\* A rollback that ends, of an apply that began with a clean tree, leaves the
\* tracked files of the commit and no .tmp file.
THEOREM RollbackCompleteCorrect == Spec => []RollbackComplete
  <1>1. CleanCourse => RollbackComplete BY DEF CleanCourse
  <1>2. TypeOK /\ Course /\ CleanCourse /\ [Next]_vars => CleanCourse'
    BY NextCleanCourse
  <1> QED
    BY <1>1, <1>2, InitTypeOK, NextTypeOK, InitCourse, NextCourse, InitCleanCourse, PTL
    DEF Spec

=============================================================================
