------------------------- MODULE PatchBinaryProofs --------------------------
(***************************************************************************)
(* Proofs about PatchBinary for any packages, builds and backup limit.     *)
(* They assume that commands do not overlap: with two at a time the run    *)
(* PatchBinary_concurrent refutes what is proved here.                     *)
(***************************************************************************)
EXTENDS PatchBinary, TLAPS

OneCommandAtATime == \A p, q \in Process : p = q

\* The backup unpatch restores from never holds anything but the original.
FirstBackupInv == \A k \in Package : backup[k][0] \in {Absent, Official}

\* What a command has established about the files of its package so far.
EstablishedBy(p) ==
  /\ pc[p] = "patch" => slot[p] = 0
  /\ pc[p] \in {"probe", "rename"} /\ slot[p] # 0 => backup[pkg[p]][0] # Absent
  /\ pc[p] = "rename" => backup[pkg[p]][slot[p]] = Absent
  /\ pc[p] \in {"copy", "chmod", "checkTarget", "discard", "restore"} =>
       backup[pkg[p]][0] = Official
  /\ pc[p] \in {"copy", "restore"} => target[pkg[p]] = Absent
  /\ pc[p] = "chmod" => target[pkg[p]] = [binary |-> binary[p], whole |-> FALSE]

CommandInv == \A p \in Process : EstablishedBy(p)

IInv == TypeOK /\ OriginalKept /\ FirstBackupInv /\ CommandInv

-----------------------------------------------------------------------------
LEMMA SlotZero == 0 \in Slot /\ Slot \subseteq Nat
BY MaxBackupType DEF Slot

\* The original, a copy and no file are told apart.
LEMMA Contents ==
  /\ Official \in Content /\ Absent \notin Content /\ Official # Absent
  /\ \A b \in Ours, w \in BOOLEAN :
       /\ [binary |-> b, whole |-> w] \in Content
       /\ [binary |-> b, whole |-> w] # Official
  /\ \A c \in Content : c.binary \in Binary
  /\ \A b \in Binary : [binary |-> b, whole |-> TRUE] \in Content
BY DEF Official, Absent, Content, Binary, Ours

LEMMA EndsType ==
  ASSUME TypeOK, NEW p \in Process, NEW command \in {"patch", "unpatch", "any"},
         NEW result, Ends(p, command, result)
  PROVE  /\ pc' \in [Process -> {"idle"} \cup PatchPoints \cup UnpatchPoints]
         /\ outcome'.command \in {"none", "patch", "unpatch", "any"}
BY DEF TypeOK, Ends

LEMMA GoesType ==
  ASSUME TypeOK, NEW p \in Process, NEW to \in PatchPoints \cup UnpatchPoints, Goes(p, to)
  PROVE  /\ pc' \in [Process -> {"idle"} \cup PatchPoints \cup UnpatchPoints]
         /\ outcome'.command \in {"none", "patch", "unpatch", "any"}
BY DEF TypeOK, Goes

LEMMA Points ==
  /\ "patch" \in PatchPoints /\ "probe" \in PatchPoints /\ "rename" \in PatchPoints
  /\ "copy" \in PatchPoints /\ "chmod" \in PatchPoints /\ "unpatch" \in UnpatchPoints
  /\ "checkTarget" \in UnpatchPoints /\ "discard" \in UnpatchPoints
  /\ "restore" \in UnpatchPoints
BY DEF PatchPoints, UnpatchPoints

(***************************************************************************)
(* Commands and installations keep the types, however commands overlap.    *)
(***************************************************************************)
LEMMA TypeInit == Init => TypeOK
BY SlotZero, Contents DEF Init, TypeOK, NoOutcome

LEMMA StepType == ASSUME TypeOK, NEW p \in Process, Step(p) PROVE TypeOK'
<1> USE SlotZero, Contents, Points DEF files, locals
<1>k. pkg[p] \in Package /\ binary[p] \in Ours /\ slot[p] \in Slot
  BY DEF TypeOK
<1>1. CASE PatchChecksTarget(p)
  BY <1>1, EndsType, GoesType DEF PatchChecksTarget, TypeOK
<1>2. CASE ProbeTaken(p)
  <2>1. CASE slot[p] = MaxBackup
    BY <1>2, <2>1, EndsType DEF ProbeTaken, TypeOK
  <2>2. CASE slot[p] # MaxBackup
    <3>1. slot[p] + 1 \in Slot
      BY <1>k, <2>2, MaxBackupType DEF Slot
    <3> QED BY <1>2, <2>2, <3>1, GoesType DEF ProbeTaken, TypeOK
  <2> QED BY <2>1, <2>2
<1>3. CASE ProbeFree(p)
  BY <1>3, GoesType DEF ProbeFree, TypeOK
<1>4. CASE RenameToBackup(p)
  BY <1>4, <1>k, GoesType DEF RenameToBackup, TypeOK
<1>5. CASE CallFails(p)
  <2>1. (IF pc[p] \in PatchPoints THEN "patch" ELSE "unpatch") \in {"patch", "unpatch", "any"}
    OBVIOUS
  <2> QED BY <1>5, <2>1, EndsType DEF CallFails, TypeOK
<1>6. CASE CopyBinary(p)
  BY <1>6, <1>k, GoesType DEF CopyBinary, TypeOK
<1>7. CASE CopyBinaryFails(p)
  <2>1. target' = [target EXCEPT ![pkg[p]] = [binary |-> binary[p], whole |-> FALSE]] \/ target' = target
    BY <1>7 DEF CopyBinaryFails
  <2>2. target' \in [Package -> Content \cup {Absent}]
    BY <2>1, <1>k DEF TypeOK
  <2> QED BY <1>7, <2>2, EndsType DEF CopyBinaryFails, TypeOK
<1>8. CASE ChmodAndVerify(p)
  <2>1. [binary |-> target[pkg[p]].binary, whole |-> TRUE] \in Content
    BY <1>k, <1>8 DEF ChmodAndVerify, TypeOK
  <2> QED BY <1>8, <2>1, EndsType DEF ChmodAndVerify, TypeOK
<1>9. CASE UnpatchChecksBackup(p)
  BY <1>9, EndsType, GoesType DEF UnpatchChecksBackup, TypeOK
<1>10. CASE UnpatchChecksTarget(p)
  BY <1>10, GoesType DEF UnpatchChecksTarget, TypeOK
<1>11. CASE DiscardPatched(p)
  <2>1. discarded[pkg[p]] \cup {target[pkg[p]]} \in SUBSET Content
    BY <1>k, <1>11 DEF DiscardPatched, TypeOK
  <2>2. discarded' \in [Package -> SUBSET Content]
    BY <1>11, <2>1 DEF DiscardPatched, TypeOK
  <2>3. Goes(p, "restore") /\ target' = [target EXCEPT ![pkg[p]] = Absent]
    BY <1>11 DEF DiscardPatched
  <2>4. target' \in [Package -> Content \cup {Absent}]
    BY <2>3 DEF TypeOK
  <2> QED BY <1>11, <2>2, <2>3, <2>4, GoesType DEF DiscardPatched, TypeOK
<1>12. CASE RestoreBackup(p)
  <2>1. backup[pkg[p]][0] \in Content \cup {Absent}
    BY <1>k DEF TypeOK
  <2>2. target' \in [Package -> Content \cup {Absent}]
    BY <1>12, <2>1 DEF RestoreBackup, TypeOK
  <2>3. backup' = [backup EXCEPT ![pkg[p]] = [backup[pkg[p]] EXCEPT ![0] = Absent]]
    BY <1>12 DEF RestoreBackup
  <2>4. [backup[pkg[p]] EXCEPT ![0] = Absent] \in [Slot -> Content \cup {Absent}]
    BY <1>k DEF TypeOK
  <2>5. backup' \in [Package -> [Slot -> Content \cup {Absent}]]
    BY <2>3, <2>4 DEF TypeOK
  <2> QED BY <1>12, <2>2, <2>5, EndsType DEF RestoreBackup, TypeOK
<1> QED BY <1>1, <1>2, <1>3, <1>4, <1>5, <1>6, <1>7, <1>8, <1>9, <1>10, <1>11,
           <1>12 DEF Step

LEMMA TypeNext == TypeOK /\ [Next]_vars => TypeOK'
<1> SUFFICES ASSUME TypeOK, [Next]_vars PROVE TypeOK'
  OBVIOUS
<1> USE DEF files, locals
<1>1. ASSUME NEW p \in Process, NEW n \in Preferences, NEW force \in BOOLEAN,
             StartPatch(p, n, force)
      PROVE  TypeOK'
  <2>1. PICK k \in Package, b \in Ours : /\ pkg' = [pkg EXCEPT ![p] = k]
                                         /\ binary' = [binary EXCEPT ![p] = b]
    BY <1>1 DEF StartPatch, Resolved, PackagedBinary
  <2> QED BY <1>1, <2>1, SlotZero, Points DEF StartPatch, TypeOK, NoOutcome
<1>2. ASSUME NEW p \in Process, StartUnpatch(p) PROVE TypeOK'
  <2>1. PICK k \in Package : pkg' = [pkg EXCEPT ![p] = k]
    BY <1>2 DEF StartUnpatch, Resolved
  <2> QED BY <1>2, <2>1, Points DEF StartUnpatch, TypeOK, NoOutcome
<1>3. ASSUME NEW p \in Process, Crash(p) PROVE TypeOK'
  BY <1>3, EndsType DEF Crash, TypeOK
<1>4. ASSUME NEW k \in Package, NEW h \in GitHead \cup {NoHead, NotInstalled},
             Reinstall(k, h)
      PROVE  TypeOK'
  BY <1>4, Contents DEF Reinstall, TypeOK, NoOutcome
<1>5. CASE UNCHANGED vars
  BY <1>5 DEF vars, TypeOK
<1> QED BY <1>1, <1>2, <1>3, <1>4, <1>5, StepType DEF Next

(***************************************************************************)
(* The files and the commands' variables keep their types (PatchBinary.tla,*)
(* TypeOK).                                                                *)
(***************************************************************************)
THEOREM TypeCorrect == Spec => []TypeOK
BY TypeInit, TypeNext, PTL DEF Spec

-----------------------------------------------------------------------------
(***************************************************************************)
(* Without overlap, what a step of the only command establishes is all     *)
(* there is to establish about commands.                                   *)
(***************************************************************************)
LEMMA Alone ==
  ASSUME OneCommandAtATime, NEW p \in Process, EstablishedBy(p)'
  PROVE  CommandInv'
BY DEF OneCommandAtATime, CommandInv

LEMMA SafetyInit == Init => IInv
BY TypeInit, SlotZero DEF Init, IInv, OriginalKept, FirstBackupInv, CommandInv, EstablishedBy

LEMMA PatchStepSafe ==
  ASSUME OneCommandAtATime, IInv, NEW p \in Process, TypeOK',
         \/ PatchChecksTarget(p) \/ ProbeTaken(p) \/ ProbeFree(p)
         \/ RenameToBackup(p) \/ CopyBinary(p) \/ CopyBinaryFails(p)
         \/ ChmodAndVerify(p) \/ CallFails(p)
  PROVE  OriginalKept' /\ FirstBackupInv' /\ CommandInv'
<1> DEFINE Goal == OriginalKept' /\ FirstBackupInv' /\ EstablishedBy(p)'
<1> SUFFICES Goal
  BY Alone
<1> USE SlotZero, Contents DEF files, locals, Ends, Goes
<1>k. /\ pkg[p] \in Package /\ binary[p] \in Ours /\ slot[p] \in Slot /\ slot[p] \in Nat
      /\ EstablishedBy(p) /\ OriginalKept /\ FirstBackupInv /\ TypeOK
  BY DEF IInv, TypeOK, CommandInv
<1> HIDE DEF Goal
<1>1. CASE PatchChecksTarget(p) \/ ProbeFree(p) \/ CallFails(p)
  <2>1. UNCHANGED <<files, locals>>
    BY <1>1 DEF PatchChecksTarget, ProbeFree, CallFails
  <2>2. OriginalKept' /\ FirstBackupInv'
    BY <2>1, <1>k DEF OriginalKept, FirstBackupInv
  <2>3. \/ pc'[p] = "idle"
        \/ pc[p] = "patch" /\ pc'[p] = "probe"
        \/ pc[p] = "probe" /\ pc'[p] = "rename" /\ backup[pkg[p]][slot[p]] = Absent
    <3>0. \A to \in {"idle", "probe", "rename"} :
             pc' = [pc EXCEPT ![p] = to] => pc'[p] = to
      BY <1>k DEF TypeOK
    <3>1. CASE PatchChecksTarget(p)  BY <3>0, <3>1 DEF PatchChecksTarget
    <3>2. CASE ProbeFree(p)  BY <3>0, <3>2 DEF ProbeFree
    <3>3. CASE CallFails(p)  BY <3>0, <3>3 DEF CallFails
    <3> QED BY <1>1, <3>1, <3>2, <3>3
  <2>4. EstablishedBy(p)'
    BY <1>k, <2>1, <2>3 DEF EstablishedBy
  <2> QED BY <2>2, <2>4 DEF Goal
<1>2. CASE ProbeTaken(p)
  <2>1. UNCHANGED <<files, pkg>> /\ pc'[p] \in {"probe", "idle"}
    BY <1>2, <1>k DEF ProbeTaken, TypeOK
  <2>2. OriginalKept' /\ FirstBackupInv'
    BY <2>1, <1>k DEF OriginalKept, FirstBackupInv
  <2>3. backup[pkg[p]][0] # Absent
    BY <1>2, <1>k DEF ProbeTaken, EstablishedBy
  <2>4. EstablishedBy(p)'
    BY <2>1, <2>3 DEF EstablishedBy
  <2> QED BY <2>2, <2>4 DEF Goal
<1>3. CASE RenameToBackup(p)
  <2>1. /\ target' = [target EXCEPT ![pkg[p]] = Absent]
        /\ backup' = [backup EXCEPT ![pkg[p]] =
                        [backup[pkg[p]] EXCEPT ![slot[p]] = target[pkg[p]]]]
        /\ pc'[p] = "copy" /\ pkg' = pkg
    BY <1>3, <1>k DEF RenameToBackup, TypeOK
  <2>2. backup'[pkg[p]][0] = Official /\ target'[pkg[p]] = Absent
    <3>1. CASE slot[p] = 0
      <4>1. target[pkg[p]] = Official
        BY <1>3, <3>1, <1>k DEF RenameToBackup, EstablishedBy, OriginalKept
      <4> QED BY <2>1, <3>1, <4>1, <1>k DEF TypeOK
    <3>2. CASE slot[p] # 0
      <4>1. backup[pkg[p]][0] = Official
        BY <1>3, <3>2, <1>k DEF RenameToBackup, EstablishedBy, FirstBackupInv
      <4> QED BY <2>1, <3>2, <4>1, <1>k DEF TypeOK
    <3> QED BY <3>1, <3>2
  <2>3. \A k \in Package : k # pkg[p] => backup'[k] = backup[k] /\ target'[k] = target[k]
    BY <2>1, <1>k DEF TypeOK
  <2>4. OriginalKept' /\ FirstBackupInv'
    BY <2>2, <2>3, <1>k DEF OriginalKept, FirstBackupInv
  <2>5. EstablishedBy(p)'
    BY <2>1, <2>2 DEF EstablishedBy
  <2> QED BY <2>4, <2>5 DEF Goal
<1>4. CASE CopyBinary(p) \/ CopyBinaryFails(p) \/ ChmodAndVerify(p)
  <2>1. backup' = backup /\ pkg' = pkg /\ binary' = binary /\ backup[pkg[p]][0] = Official
    BY <1>4, <1>k DEF CopyBinary, CopyBinaryFails, ChmodAndVerify, EstablishedBy
  <2>2. \A k \in Package : k # pkg[p] => target'[k] = target[k]
    BY <1>4, <1>k DEF CopyBinary, CopyBinaryFails, ChmodAndVerify, TypeOK
  <2>3. OriginalKept' /\ FirstBackupInv'
    BY <2>1, <2>2, <1>k DEF OriginalKept, FirstBackupInv
  <2>4. \/ pc'[p] = "idle"
        \/ pc'[p] = "chmod" /\ target'[pkg[p]] = [binary |-> binary[p], whole |-> FALSE]
    BY <1>4, <1>k DEF CopyBinary, CopyBinaryFails, ChmodAndVerify, TypeOK
  <2>5. EstablishedBy(p)'
    BY <2>1, <2>4 DEF EstablishedBy
  <2> QED BY <2>3, <2>5 DEF Goal
<1> QED BY <1>1, <1>2, <1>3, <1>4

LEMMA UnpatchStepSafe ==
  ASSUME OneCommandAtATime, IInv, NEW p \in Process, TypeOK',
         \/ UnpatchChecksBackup(p) \/ UnpatchChecksTarget(p)
         \/ DiscardPatched(p) \/ RestoreBackup(p)
  PROVE  OriginalKept' /\ FirstBackupInv' /\ CommandInv'
<1> DEFINE Goal == OriginalKept' /\ FirstBackupInv' /\ EstablishedBy(p)'
<1> SUFFICES Goal
  BY Alone
<1> USE SlotZero, Contents DEF files, locals, Ends, Goes
<1>k. /\ pkg[p] \in Package /\ EstablishedBy(p) /\ OriginalKept /\ FirstBackupInv /\ TypeOK
  BY DEF IInv, TypeOK, CommandInv
<1> HIDE DEF Goal
<1>1. CASE UnpatchChecksBackup(p) \/ UnpatchChecksTarget(p)
  <2>1. UNCHANGED <<files, locals>>
    BY <1>1 DEF UnpatchChecksBackup, UnpatchChecksTarget
  <2>2. OriginalKept' /\ FirstBackupInv'
    BY <2>1, <1>k DEF OriginalKept, FirstBackupInv
  <2>3. \/ pc'[p] = "idle"
        \/ pc'[p] \in {"checkTarget", "discard"} /\ backup[pkg[p]][0] = Official
        \/ pc'[p] = "restore" /\ backup[pkg[p]][0] = Official /\ target[pkg[p]] = Absent
    BY <1>1, <1>k
    DEF UnpatchChecksBackup, UnpatchChecksTarget, EstablishedBy, FirstBackupInv, TypeOK
  <2>4. EstablishedBy(p)'
    BY <2>1, <2>3 DEF EstablishedBy
  <2> QED BY <2>2, <2>4 DEF Goal
<1>2. CASE DiscardPatched(p)
  <2>1. backup' = backup /\ pkg' = pkg /\ backup[pkg[p]][0] = Official
    BY <1>2, <1>k DEF DiscardPatched, EstablishedBy
  <2>2. \A k \in Package : k # pkg[p] => target'[k] = target[k]
    BY <1>2, <1>k DEF DiscardPatched, TypeOK
  <2>3. OriginalKept' /\ FirstBackupInv'
    BY <2>1, <2>2, <1>k DEF OriginalKept, FirstBackupInv
  <2>4. \/ pc'[p] = "idle"
        \/ pc'[p] = "restore" /\ target'[pkg[p]] = Absent
    BY <1>2, <1>k DEF DiscardPatched, TypeOK
  <2>5. EstablishedBy(p)'
    BY <2>1, <2>4 DEF EstablishedBy
  <2> QED BY <2>3, <2>5 DEF Goal
<1>3. CASE RestoreBackup(p)
  <2>1. backup[pkg[p]][0] = Official /\ pc'[p] = "idle"
    BY <1>3, <1>k DEF RestoreBackup, EstablishedBy, TypeOK
  <2>2. /\ target' = [target EXCEPT ![pkg[p]] = Official]
        /\ backup' = [backup EXCEPT ![pkg[p]] = [backup[pkg[p]] EXCEPT ![0] = Absent]]
    BY <1>3, <2>1 DEF RestoreBackup
  <2>3. target'[pkg[p]] = Official /\ backup'[pkg[p]][0] = Absent
    BY <2>2, <1>k DEF TypeOK
  <2>4. \A k \in Package : k # pkg[p] => backup'[k] = backup[k] /\ target'[k] = target[k]
    BY <2>2, <1>k DEF TypeOK
  <2>5. OriginalKept' /\ FirstBackupInv'
    BY <2>3, <2>4, <1>k DEF OriginalKept, FirstBackupInv
  <2>6. EstablishedBy(p)'
    BY <2>1 DEF EstablishedBy
  <2> QED BY <2>5, <2>6 DEF Goal
<1> QED BY <1>1, <1>2, <1>3

LEMMA SafetyNext ==
  ASSUME OneCommandAtATime
  PROVE  IInv /\ [Next]_vars => IInv'
<1> SUFFICES ASSUME IInv, [Next]_vars PROVE IInv'
  OBVIOUS
<1>t. TypeOK /\ TypeOK'
  BY TypeNext DEF IInv
<1>1. ASSUME NEW p \in Process, \/ Crash(p) \/ StartUnpatch(p)
             \/ \E n \in Preferences, force \in BOOLEAN : StartPatch(p, n, force)
      PROVE  IInv'
  <2>1. /\ UNCHANGED files
        /\ \/ pc'[p] \in {"idle", "unpatch"}
           \/ pc'[p] = "patch" /\ slot'[p] = 0
    <3>0. \A to \in {"idle", "unpatch"} : pc' = [pc EXCEPT ![p] = to] => pc'[p] = to
      BY <1>t DEF TypeOK
    <3>1. CASE Crash(p)  BY <3>0, <3>1 DEF Crash, Ends, files
    <3>2. CASE StartUnpatch(p)  BY <3>0, <3>2 DEF StartUnpatch, files
    <3>3. CASE \E n \in Preferences, force \in BOOLEAN : StartPatch(p, n, force)
      <4>1. UNCHANGED files /\ pc' = [pc EXCEPT ![p] = "patch"] /\ slot' = [slot EXCEPT ![p] = 0]
        BY <3>3 DEF StartPatch
      <4> QED BY <4>1, <1>t DEF TypeOK
    <3> QED BY <1>1, <3>1, <3>2, <3>3
  <2>2. EstablishedBy(p)'
    BY <2>1 DEF EstablishedBy
  <2>3. OriginalKept' /\ FirstBackupInv'
    BY <2>1 DEF IInv, OriginalKept, FirstBackupInv, files
  <2> QED BY <2>2, <2>3, <1>t, Alone DEF IInv
<1>2. ASSUME NEW p \in Process, Step(p) PROVE IInv'
  BY <1>2, <1>t, PatchStepSafe, UnpatchStepSafe DEF Step, IInv
<1>3. ASSUME NEW k \in Package, NEW h \in GitHead \cup {NoHead, NotInstalled},
             Reinstall(k, h)
      PROVE  IInv'
  <2>1. \A p \in Process : pc'[p] = "idle"
    BY <1>3 DEF Reinstall
  <2>2. CommandInv'
    BY <2>1 DEF CommandInv, EstablishedBy
  <2>3. OriginalKept' /\ FirstBackupInv'
    BY <1>3, <1>t, SlotZero DEF Reinstall, IInv, OriginalKept, FirstBackupInv, TypeOK
  <2> QED BY <2>2, <2>3, <1>t DEF IInv
<1>4. CASE UNCHANGED vars
  BY <1>4, <1>t
  DEF vars, IInv, OriginalKept, FirstBackupInv, CommandInv, EstablishedBy, files, locals
<1> QED BY <1>1, <1>2, <1>3, <1>4 DEF Next

(***************************************************************************)
(* Whatever kills or fails a command, and however often commands are       *)
(* repeated, the official binary is not lost (PatchBinary.tla,             *)
(* OriginalKept).                                                          *)
(***************************************************************************)
THEOREM OriginalIsKept ==
  ASSUME OneCommandAtATime
  PROVE  Spec => []OriginalKept
<1>1. IInv => OriginalKept
  BY DEF IInv
<1> QED BY <1>1, SafetyInit, SafetyNext, PTL DEF Spec

(***************************************************************************)
(* A command that reports a result has ended by a step of its own.         *)
(***************************************************************************)
LEMMA EndsByStep ==
  ASSUME OneCommandAtATime, Next, NEW p \in Process, NEW points, NEW results,
         EndsWell(p, points, results), "idle" \notin points, "killed" \notin results
  PROVE  Step(p)
<1>1. \A q \in Process : q = p
  BY DEF OneCommandAtATime
<1>2. pc[p] # "idle"
  BY DEF EndsWell
<1>3. ASSUME NEW q \in Process PROVE ~ Crash(q)
  BY DEF EndsWell, Crash, Ends
<1>4. ASSUME NEW q \in Process
      PROVE  /\ ~ StartUnpatch(q)
             /\ ~ \E n \in Preferences, force \in BOOLEAN : StartPatch(q, n, force)
  BY <1>1, <1>2 DEF StartPatch, StartUnpatch
<1>5. ASSUME NEW k \in Package, NEW h \in GitHead \cup {NoHead, NotInstalled}
      PROVE  ~ Reinstall(k, h)
  BY <1>2 DEF Reinstall
<1> QED BY <1>1, <1>3, <1>4, <1>5 DEF Next

(***************************************************************************)
(* An unpatch that ends well has restored the original, or found it in     *)
(* place (PatchBinary.tla, UnpatchRestoresOriginal).                       *)
(***************************************************************************)
THEOREM UnpatchRestores ==
  ASSUME OneCommandAtATime
  PROVE  Spec => UnpatchRestoresOriginal
<1> DEFINE Restores == \A p \in Process :
             EndsWell(p, UnpatchPoints, {"ok", "nothing"}) => target'[pkg[p]] = Official
<1>1. IInv /\ [Next]_vars => [Restores]_vars
  <2> SUFFICES ASSUME IInv, Next, NEW p \in Process,
                      EndsWell(p, UnpatchPoints, {"ok", "nothing"})
               PROVE  target'[pkg[p]] = Official
    OBVIOUS
  <2>k. /\ pkg[p] \in Package /\ EstablishedBy(p) /\ OriginalKept /\ TypeOK
        /\ pc[p] \in UnpatchPoints /\ pc'[p] = "idle" /\ outcome'.result \in {"ok", "nothing"}
    BY DEF IInv, TypeOK, CommandInv, EndsWell
  <2>1. Step(p)
    BY EndsByStep DEF UnpatchPoints
  <2>2. UnpatchChecksBackup(p) \/ RestoreBackup(p)
    BY <2>1, <2>k DEF Step, UnpatchPoints, PatchChecksTarget, ProbeTaken, ProbeFree,
      RenameToBackup, CallFails, CopyBinary, CopyBinaryFails, ChmodAndVerify,
      UnpatchChecksTarget, DiscardPatched, Goes, Ends, TypeOK
  <2>3. CASE UnpatchChecksBackup(p)
    <3>1. backup[pkg[p]][0] = Absent /\ target' = target
      BY <2>3, <2>k DEF UnpatchChecksBackup, Goes, TypeOK, files
    <3> QED BY <3>1, <2>k, Contents DEF OriginalKept
  <2>4. CASE RestoreBackup(p)
    <3>1. backup[pkg[p]][0] = Official
      BY <2>4, <2>k DEF RestoreBackup, EstablishedBy
    <3> QED BY <2>4, <3>1, <2>k, Contents DEF RestoreBackup, TypeOK
  <2> QED BY <2>2, <2>3, <2>4
<1> QED BY <1>1, SafetyInit, SafetyNext, PTL DEF Spec, UnpatchRestoresOriginal, Restores

(***************************************************************************)
(* A patch that succeeds leaves its binary at the target and the original  *)
(* where unpatch looks for it (PatchBinary.tla, PatchInstallsBinary).      *)
(***************************************************************************)
THEOREM PatchInstalls ==
  ASSUME OneCommandAtATime
  PROVE  Spec => PatchInstallsBinary
<1> DEFINE Installs == \A p \in Process : EndsWell(p, PatchPoints, {"ok"}) =>
             /\ target'[pkg[p]] = [binary |-> binary[p], whole |-> TRUE]
             /\ backup'[pkg[p]][0] = Official
<1>1. IInv /\ [Next]_vars => [Installs]_vars
  <2> SUFFICES ASSUME IInv, Next, NEW p \in Process, EndsWell(p, PatchPoints, {"ok"})
               PROVE  /\ target'[pkg[p]] = [binary |-> binary[p], whole |-> TRUE]
                      /\ backup'[pkg[p]][0] = Official
    OBVIOUS
  <2>k. /\ pkg[p] \in Package /\ binary[p] \in Ours /\ EstablishedBy(p) /\ TypeOK
        /\ pc[p] \in PatchPoints /\ pc'[p] = "idle" /\ outcome'.result = "ok"
    BY DEF IInv, TypeOK, CommandInv, EndsWell
  <2>1. Step(p)
    BY EndsByStep DEF PatchPoints
  <2>2. ChmodAndVerify(p)
    BY <2>1, <2>k DEF Step, PatchPoints, PatchChecksTarget, ProbeTaken, ProbeFree,
      RenameToBackup, CallFails, CopyBinary, CopyBinaryFails, UnpatchChecksBackup,
      UnpatchChecksTarget, DiscardPatched, RestoreBackup, Goes, Ends, TypeOK
  <2>3. /\ target[pkg[p]] = [binary |-> binary[p], whole |-> FALSE]
        /\ backup[pkg[p]][0] = Official
    BY <2>2, <2>k DEF ChmodAndVerify, EstablishedBy
  <2>4. /\ target' = [target EXCEPT ![pkg[p]] = [binary |-> binary[p], whole |-> TRUE]]
        /\ backup' = backup
    BY <2>2, <2>k, <2>3 DEF ChmodAndVerify, Ends
  <2> QED BY <2>3, <2>4, <2>k DEF TypeOK
<1> QED BY <1>1, SafetyInit, SafetyNext, PTL DEF Spec, PatchInstallsBinary, Installs

-----------------------------------------------------------------------------
(***************************************************************************)
(* Refinement.  running and saved are the abstract installation's view of  *)
(* the files.                                                              *)
(***************************************************************************)
running == [k \in Package |-> IF target[k] = Official THEN "official"
                              ELSE IF target[k] = Absent THEN "none" ELSE "effect"]
saved == { k \in Package : backup[k][0] = Official }

LEMMA AbstractInit == Init => Abstract!Init
BY SlotZero, Contents DEF Init, Abstract!Init

LEMMA AbstractStutter ==
  ASSUME UNCHANGED <<target, backup>> PROVE UNCHANGED Abstract!vars
BY DEF Abstract!vars

\* A step that leaves the backup alone and changes the target of a package
\* whose original is set aside.
LEMMA AbstractReplace ==
  ASSUME TypeOK, NEW k \in Package, NEW c, c # Official,
         backup[k][0] = Official, target' = [target EXCEPT ![k] = c],
         \A j \in Package : backup'[j][0] = backup[j][0]
  PROVE  Abstract!Replace(k)
<1> DEFINE b == IF c = Absent THEN "none" ELSE "effect"
<1>1. running' = [running EXCEPT ![k] = b] /\ b \in {"effect", "none"}
  BY DEF running, TypeOK
<1>2. saved' = saved /\ k \in saved
  BY DEF saved
<1> QED BY <1>1, <1>2 DEF Abstract!Replace, running, saved

LEMMA AbstractStep ==
  ASSUME OneCommandAtATime, IInv, NEW p \in Process, Step(p)
  PROVE  [Abstract!Next]_(Abstract!vars)
<1> USE SlotZero, Contents
<1>k. /\ pkg[p] \in Package /\ binary[p] \in Ours /\ slot[p] \in Slot
      /\ EstablishedBy(p) /\ OriginalKept /\ FirstBackupInv /\ TypeOK
  BY DEF IInv, TypeOK, CommandInv
<1>c. PICK k \in Package : k = pkg[p]
  BY <1>k
<1>n. Abstract!Replace(k) \/ Abstract!SetAside(k) \/ Abstract!Restore(k) => Abstract!Next
  BY DEF Abstract!Next
<1>1. CASE PatchChecksTarget(p) \/ ProbeTaken(p) \/ ProbeFree(p) \/ CallFails(p)
             \/ UnpatchChecksBackup(p) \/ UnpatchChecksTarget(p)
  <2>1. UNCHANGED <<target, backup>>
    BY <1>1 DEF PatchChecksTarget, ProbeTaken, ProbeFree, CallFails,
      UnpatchChecksBackup, UnpatchChecksTarget, files
  <2> QED BY <2>1, AbstractStutter
<1>2. CASE RenameToBackup(p)
  <2>1. /\ target' = [target EXCEPT ![pkg[p]] = Absent]
        /\ backup' = [backup EXCEPT ![pkg[p]] =
                        [backup[pkg[p]] EXCEPT ![slot[p]] = target[pkg[p]]]]
    BY <1>2 DEF RenameToBackup
  <2>2. CASE slot[p] = 0
    <3>1. target[pkg[p]] = Official /\ backup[pkg[p]][0] = Absent
      BY <1>2, <2>2, <1>k DEF RenameToBackup, EstablishedBy, OriginalKept
    <3>2. running' = [running EXCEPT ![pkg[p]] = "none"] /\ running[pkg[p]] = "official"
      BY <2>1, <3>1, <1>k DEF running, TypeOK
    <3>3. saved' = saved \cup {pkg[p]} /\ pkg[p] \notin saved
      BY <2>1, <2>2, <3>1, <1>k DEF saved, TypeOK
    <3>4. Abstract!SetAside(k)
      BY <3>2, <3>3, <1>c DEF Abstract!SetAside, running, saved
    <3> QED BY <3>4, <1>n
  <2>3. CASE slot[p] # 0
    <3>1. backup[pkg[p]][0] = Official
      BY <1>2, <2>3, <1>k DEF RenameToBackup, EstablishedBy, FirstBackupInv
    <3>2. \A j \in Package : backup'[j][0] = backup[j][0]
      BY <2>1, <2>3, <1>k DEF TypeOK
    <3> QED BY <2>1, <3>1, <3>2, <1>k, <1>c, <1>n, AbstractReplace
  <2> QED BY <2>2, <2>3
<1>3. CASE CopyBinary(p) \/ CopyBinaryFails(p)
  <2>1. backup' = backup /\ backup[pkg[p]][0] = Official
    BY <1>3, <1>k DEF CopyBinary, CopyBinaryFails, EstablishedBy
  <2>2. CASE target' = target
    BY <2>1, <2>2, AbstractStutter
  <2>3. CASE target' = [target EXCEPT ![pkg[p]] = [binary |-> binary[p], whole |-> FALSE]]
    BY <2>1, <2>3, <1>k, <1>c, <1>n, AbstractReplace
  <2> QED BY <1>3, <2>2, <2>3 DEF CopyBinary, CopyBinaryFails
<1>4. CASE ChmodAndVerify(p)
  <2>1. /\ backup' = backup /\ backup[pkg[p]][0] = Official
        /\ target[pkg[p]] = [binary |-> binary[p], whole |-> FALSE]
    BY <1>4, <1>k DEF ChmodAndVerify, EstablishedBy
  <2>2. CASE target' = target
    BY <2>1, <2>2, AbstractStutter
  <2>3. CASE target' = [target EXCEPT ![pkg[p]] = [binary |-> binary[p], whole |-> TRUE]]
    BY <2>1, <2>3, <1>k, <1>c, <1>n, AbstractReplace
  <2> QED BY <1>4, <2>1, <2>2, <2>3 DEF ChmodAndVerify
<1>5. CASE DiscardPatched(p)
  <2>1. backup' = backup /\ backup[pkg[p]][0] = Official
    BY <1>5, <1>k DEF DiscardPatched, EstablishedBy, files
  <2>2. CASE target' = target
    BY <2>1, <2>2, AbstractStutter
  <2>3. CASE target' = [target EXCEPT ![pkg[p]] = Absent]
    BY <2>1, <2>3, <1>k, <1>c, <1>n, AbstractReplace
  <2> QED BY <1>5, <2>2, <2>3 DEF DiscardPatched, files
<1>6. CASE RestoreBackup(p)
  <2>1. backup[pkg[p]][0] = Official /\ target[pkg[p]] = Absent
    BY <1>6, <1>k DEF RestoreBackup, EstablishedBy
  <2>2. /\ target' = [target EXCEPT ![pkg[p]] = Official]
        /\ backup' = [backup EXCEPT ![pkg[p]] = [backup[pkg[p]] EXCEPT ![0] = Absent]]
    BY <1>6, <2>1 DEF RestoreBackup
  <2>3. running' = [running EXCEPT ![pkg[p]] = "official"] /\ running[pkg[p]] = "none"
    BY <2>1, <2>2, <1>k DEF running, TypeOK
  <2>4. saved' = saved \ {pkg[p]} /\ pkg[p] \in saved
    BY <2>1, <2>2, <1>k DEF saved, TypeOK
  <2>5. Abstract!Restore(k)
    BY <2>3, <2>4, <1>c DEF Abstract!Restore, running, saved
  <2> QED BY <2>5, <1>n
<1> QED BY <1>1, <1>2, <1>3, <1>4, <1>5, <1>6 DEF Step

LEMMA AbstractNext ==
  ASSUME OneCommandAtATime
  PROVE  IInv /\ [Next]_vars => [Abstract!Next]_(Abstract!vars)
<1> SUFFICES ASSUME IInv, [Next]_vars PROVE [Abstract!Next]_(Abstract!vars)
  OBVIOUS
<1>1. ASSUME NEW p \in Process, \/ Crash(p) \/ StartUnpatch(p)
             \/ \E n \in Preferences, force \in BOOLEAN : StartPatch(p, n, force)
      PROVE  [Abstract!Next]_(Abstract!vars)
  <2>1. UNCHANGED <<target, backup>>
    BY <1>1 DEF Crash, StartUnpatch, StartPatch, files
  <2> QED BY <2>1, AbstractStutter
<1>2. ASSUME NEW k \in Package, NEW h \in GitHead \cup {NoHead, NotInstalled},
             Reinstall(k, h)
      PROVE  [Abstract!Next]_(Abstract!vars)
  <2>1. running' = [running EXCEPT ![k] = "official"]
    BY <1>2 DEF Reinstall, IInv, TypeOK, running
  <2>2. saved' = saved \ {k}
    BY <1>2, SlotZero, Contents DEF Reinstall, IInv, TypeOK, saved
  <2>3. Abstract!Reinstall(k)
    BY <2>1, <2>2 DEF Abstract!Reinstall, running, saved
  <2> QED BY <2>3 DEF Abstract!Next
<1>3. CASE UNCHANGED vars
  BY <1>3, AbstractStutter DEF vars
<1> QED BY <1>1, <1>2, <1>3, AbstractStep DEF Next

(***************************************************************************)
(* The files under patch and unpatch implement the abstract installation   *)
(* (PatchBinary.tla, ImplementsInstallation).                              *)
(***************************************************************************)
THEOREM PatchRefinesInstallation ==
  ASSUME OneCommandAtATime
  PROVE  Spec => ImplementsInstallation
BY AbstractInit, AbstractNext, SafetyInit, SafetyNext, PTL
DEF Spec, ImplementsInstallation, Abstract!Spec

=============================================================================
