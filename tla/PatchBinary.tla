---------------------------- MODULE PatchBinary -----------------------------
(***************************************************************************)
(* The commands "effect-tsgo patch" and "effect-tsgo unpatch"              *)
(* (_packages/tsgo/src/cli.ts) on the files of the installed native        *)
(* TypeScript packages.  A command is a process; each of its file-system   *)
(* calls is a step, and it may be killed between any two.  Commands        *)
(* overlap when Process has more than one member: a workspace whose        *)
(* packages share node_modules runs one "prepare" script per package.      *)
(***************************************************************************)
EXTENDS Integers, Sequences

CONSTANTS
  Process, Package,
  Default,        \* defaultTypescriptPackageNames, a sequence of packages
  GitHead,           \* git heads TypeScript was built from
  NoHead,         \* package.json without gitHead
  NotInstalled,   \* package not resolvable, or older than version 7
  Packaged,       \* head of each binary in the platform package, or NotPackaged
  NotPackaged,    \* binary not shipped
  MaxBackup       \* last backup that is tried: ".original.100" in the code

ASSUME DefaultType   == Default \in Seq(Package)
ASSUME MaxBackupType == MaxBackup \in Nat
ASSUME HeadsDistinct == NoHead \notin GitHead /\ NotInstalled \notin GitHead \cup {NoHead}
                        /\ NotPackaged \notin GitHead \cup {NoHead}
ASSUME PackagedType  == Packaged \in [{"tsc", "tsc-next"} -> GitHead \cup {NoHead, NotPackaged}]

Ours    == {"tsc", "tsc-next"}
Binary  == Ours \cup {"official"}
\* whole: completely written and executable
Content == [binary : Binary, whole : BOOLEAN]
Absent  == [binary |-> "absent", whole |-> FALSE]
Official == [binary |-> "official", whole |-> TRUE]
Slot    == 0 .. MaxBackup       \* 0 is ".original", i is ".original.i"

VARIABLES
  head,       \* of the installed TypeScript, by package
  target,     \* the file at the target path, by package
  backup,     \* the backup files, by package and slot
  discarded,  \* what lies in "<uuid>.patched" files, by package
  pc, pkg, binary, slot,    \* each command's position and local variables
  outcome     \* how the last command ended, until the next one starts

vars  == <<head, target, backup, discarded, pc, pkg, binary, slot, outcome>>
files == <<target, backup, discarded>>
locals == <<pkg, binary, slot>>

NoOutcome == [command |-> "none", pkg |-> "none", result |-> "none"]

-----------------------------------------------------------------------------
(***************************************************************************)
(* Resolution: the first package of the list that is installed and native; *)
(* then the packaged binary built from the same head, or, forced, tsc-next *)
(* before tsc whatever its head.                                           *)
(***************************************************************************)
PackageNamesWithPreferred(preferred) ==
  preferred \o SelectSeq(Default, LAMBDA k : <<k>> # preferred)

Resolved(names) ==
  { k \in Package : \E i \in DOMAIN names :
      /\ names[i] = k /\ head[k] # NotInstalled
      /\ \A j \in 1 .. (i - 1) : head[names[j]] = NotInstalled }

Exists(b) == Packaged[b] # NotPackaged

\* "tsc" is looked at first.
PackagedBinary(h, force) ==
  LET exact == { b \in Ours : Packaged[b] = h } IN
  IF exact # {} THEN { b \in exact : b = "tsc" \/ "tsc" \notin exact }
  ELSE IF force THEN { b \in Ours : Exists(b) /\ (b = "tsc-next" \/ ~ Exists("tsc-next")) }
  ELSE {}

-----------------------------------------------------------------------------
PatchPoints   == {"patch", "probe", "rename", "copy", "chmod"}
UnpatchPoints == {"unpatch", "checkTarget", "discard", "restore"}

Ends(p, command, result) ==
  /\ pc' = [pc EXCEPT ![p] = "idle"]
  /\ outcome' = [command |-> command, pkg |-> pkg[p], result |-> result]

Goes(p, to) ==
  /\ pc' = [pc EXCEPT ![p] = to]
  /\ UNCHANGED outcome

\* A patch that resolves no package, or no binary for it, fails before it
\* touches a file and is not followed further.
StartPatch(p, preferred, force) ==
  /\ pc[p] = "idle"
  /\ \E k \in Resolved(PackageNamesWithPreferred(preferred)) :
       /\ head[k] \in GitHead
       /\ \E b \in PackagedBinary(head[k], force) :
            /\ pkg' = [pkg EXCEPT ![p] = k]
            /\ binary' = [binary EXCEPT ![p] = b]
  /\ slot' = [slot EXCEPT ![p] = 0]
  /\ pc' = [pc EXCEPT ![p] = "patch"]
  /\ outcome' = NoOutcome
  /\ UNCHANGED <<head, files>>

PatchChecksTarget(p) ==
  /\ pc[p] = "patch"
  /\ IF target[pkg[p]] = Absent THEN Ends(p, "patch", "failed") ELSE Goes(p, "probe")
  /\ UNCHANGED <<head, files, locals>>

\* Mutations of ProbeTaken: no last name; the names are tried over again.
ProbeTaken_NoLimit(p) ==
  /\ pc[p] = "probe" /\ backup[pkg[p]][slot[p]] # Absent
  /\ Goes(p, "probe") /\ slot' = [slot EXCEPT ![p] = @ + 1]
  /\ UNCHANGED <<head, files, pkg, binary>>

ProbeTaken_StartsOver(p) ==
  /\ pc[p] = "probe" /\ backup[pkg[p]][slot[p]] # Absent
  /\ Goes(p, "probe") /\ slot' = [slot EXCEPT ![p] = IF @ = MaxBackup THEN 0 ELSE @ + 1]
  /\ UNCHANGED <<head, files, pkg, binary>>

\* Look for the first free backup name.
ProbeTaken(p) ==
  /\ pc[p] = "probe" /\ backup[pkg[p]][slot[p]] # Absent
  /\ IF slot[p] = MaxBackup
     THEN Ends(p, "patch", "failed") /\ UNCHANGED slot
     ELSE Goes(p, "probe") /\ slot' = [slot EXCEPT ![p] = @ + 1]
  /\ UNCHANGED <<head, files, pkg, binary>>

\* Mutation of ProbeFree: the name is not probed.
ProbeFree_Blindly(p) ==
  /\ pc[p] = "probe"
  /\ Goes(p, "rename")
  /\ UNCHANGED <<head, files, locals>>

ProbeFree(p) ==
  /\ pc[p] = "probe" /\ backup[pkg[p]][slot[p]] = Absent
  /\ Goes(p, "rename")
  /\ UNCHANGED <<head, files, locals>>

\* rename replaces a file that has appeared under the new name meanwhile.
RenameToBackup(p) ==
  /\ pc[p] = "rename" /\ target[pkg[p]] # Absent
  /\ backup' = [backup EXCEPT ![pkg[p]][slot[p]] = target[pkg[p]]]
  /\ target' = [target EXCEPT ![pkg[p]] = Absent]
  /\ Goes(p, "copy")
  /\ UNCHANGED <<head, discarded, locals>>

\* Mutation of CopyBinary: no chmod follows.
CopyBinary_NoChmod(p) ==
  /\ pc[p] = "copy"
  /\ target' = [target EXCEPT ![pkg[p]] = [binary |-> binary[p], whole |-> FALSE]]
  /\ Ends(p, "patch", "ok")
  /\ UNCHANGED <<head, backup, discarded, locals>>

CopyBinary(p) ==
  /\ pc[p] = "copy"
  /\ target' = [target EXCEPT ![pkg[p]] = [binary |-> binary[p], whole |-> FALSE]]
  /\ Goes(p, "chmod")
  /\ UNCHANGED <<head, backup, discarded, locals>>

\* The copy fails (a full disk) and may leave a part of the file.
CopyBinaryFails(p) ==
  /\ pc[p] = "copy"
  /\ \/ target' = [target EXCEPT ![pkg[p]] = [binary |-> binary[p], whole |-> FALSE]]
     \/ UNCHANGED target
  /\ Ends(p, "patch", "failed")
  /\ UNCHANGED <<head, backup, discarded, locals>>

\* The verification that follows only warns.
ChmodAndVerify(p) ==
  /\ pc[p] = "chmod" /\ target[pkg[p]] # Absent
  /\ target' = [target EXCEPT ![pkg[p]] = [binary |-> @.binary, whole |-> TRUE]]
  /\ Ends(p, "patch", "ok")
  /\ UNCHANGED <<head, backup, discarded, locals>>

-----------------------------------------------------------------------------
StartUnpatch(p) ==
  /\ pc[p] = "idle"
  /\ \E k \in Resolved(Default) : head[k] \in GitHead /\ pkg' = [pkg EXCEPT ![p] = k]
  /\ pc' = [pc EXCEPT ![p] = "unpatch"]
  /\ outcome' = NoOutcome
  /\ UNCHANGED <<head, files, binary, slot>>

\* Without a backup the command says so and succeeds.
UnpatchChecksBackup(p) ==
  /\ pc[p] = "unpatch"
  /\ IF backup[pkg[p]][0] = Absent
     THEN Ends(p, "unpatch", "nothing") ELSE Goes(p, "checkTarget")
  /\ UNCHANGED <<head, files, locals>>

\* Mutation of UnpatchChecksTarget: without a target there is nothing to do.
UnpatchChecksTarget_EarlyReturn(p) ==
  /\ pc[p] = "checkTarget"
  /\ IF target[pkg[p]] = Absent THEN Ends(p, "unpatch", "nothing") ELSE Goes(p, "discard")
  /\ UNCHANGED <<head, files, locals>>

UnpatchChecksTarget(p) ==
  /\ pc[p] = "checkTarget"
  /\ Goes(p, IF target[pkg[p]] = Absent THEN "restore" ELSE "discard")
  /\ UNCHANGED <<head, files, locals>>

DiscardPatched(p) ==
  /\ pc[p] = "discard" /\ target[pkg[p]] # Absent
  /\ discarded' = [discarded EXCEPT ![pkg[p]] = @ \cup {target[pkg[p]]}]
  /\ target' = [target EXCEPT ![pkg[p]] = Absent]
  /\ Goes(p, "restore")
  /\ UNCHANGED <<head, backup, locals>>

\* Mutation of RestoreBackup: the backup is copied, not renamed.
RestoreBackup_Copies(p) ==
  /\ pc[p] = "restore" /\ backup[pkg[p]][0] # Absent
  /\ target' = [target EXCEPT ![pkg[p]] = backup[pkg[p]][0]]
  /\ Ends(p, "unpatch", "ok")
  /\ UNCHANGED <<head, backup, discarded, locals>>

RestoreBackup(p) ==
  /\ pc[p] = "restore" /\ backup[pkg[p]][0] # Absent
  /\ target' = [target EXCEPT ![pkg[p]] = backup[pkg[p]][0]]
  /\ backup' = [backup EXCEPT ![pkg[p]][0] = Absent]
  /\ Ends(p, "unpatch", "ok")
  /\ UNCHANGED <<head, discarded, locals>>

\* Any other call may fail, whatever it finds: it changes nothing and ends the
\* command.  A rename or chmod of a file that is gone always does.
CallFails(p) ==
  /\ pc[p] \notin {"idle", "copy"}
  /\ Ends(p, IF pc[p] \in PatchPoints THEN "patch" ELSE "unpatch", "failed")
  /\ UNCHANGED <<head, files, locals>>

-----------------------------------------------------------------------------
Crash(p) ==
  /\ pc[p] # "idle"
  /\ Ends(p, "any", "killed")
  /\ UNCHANGED <<head, files, locals>>

\* The package manager replaces the package's directory by a fresh one.
Reinstall(k, h) ==
  /\ \A p \in Process : pc[p] = "idle"
  /\ head' = [head EXCEPT ![k] = h]
  /\ target' = [target EXCEPT ![k] = Official]
  /\ backup' = [backup EXCEPT ![k] = [s \in Slot |-> Absent]]
  /\ discarded' = [discarded EXCEPT ![k] = {}]
  /\ outcome' = NoOutcome
  /\ UNCHANGED <<pc, locals>>

Step(p) ==
  \/ PatchChecksTarget(p) \/ ProbeTaken(p) \/ ProbeFree(p)
  \/ RenameToBackup(p) \/ CopyBinary(p) \/ CopyBinaryFails(p) \/ ChmodAndVerify(p)
  \/ UnpatchChecksBackup(p) \/ UnpatchChecksTarget(p)
  \/ DiscardPatched(p) \/ RestoreBackup(p) \/ CallFails(p)

Preferences == { << >> } \cup { <<k>> : k \in Package }

Init ==
  /\ head \in [Package -> GitHead \cup {NoHead, NotInstalled}]
  /\ target = [k \in Package |-> Official]
  /\ backup = [k \in Package |-> [s \in Slot |-> Absent]]
  /\ discarded = [k \in Package |-> {}]
  /\ pc = [p \in Process |-> "idle"]
  /\ pkg \in [Process -> Package] /\ binary \in [Process -> Ours]
  /\ slot = [p \in Process |-> 0]
  /\ outcome = NoOutcome

Next ==
  \/ \E p \in Process :
       \/ \E n \in Preferences, force \in BOOLEAN : StartPatch(p, n, force)
       \/ StartUnpatch(p) \/ Step(p) \/ Crash(p)
  \/ \E k \in Package, h \in GitHead \cup {NoHead, NotInstalled} : Reinstall(k, h)

Spec == Init /\ [][Next]_vars

\* A started command that is not killed keeps making its next call.
FairSpec == Spec /\ \A p \in Process : WF_vars(Step(p))

-----------------------------------------------------------------------------
TypeOK ==
  /\ head \in [Package -> GitHead \cup {NoHead, NotInstalled}]
  /\ target \in [Package -> Content \cup {Absent}]
  /\ backup \in [Package -> [Slot -> Content \cup {Absent}]]
  /\ discarded \in [Package -> SUBSET Content]
  /\ pc \in [Process -> {"idle"} \cup PatchPoints \cup UnpatchPoints]
  /\ pkg \in [Process -> Package] /\ binary \in [Process -> Ours]
  /\ slot \in [Process -> Slot]
  /\ outcome.command \in {"none", "patch", "unpatch", "any"}

\* However commands are killed, fail or are repeated, the official binary is
\* at the target path or at ".original", where unpatch looks for it
\* (cli.ts:440, cli.ts:500).
OriginalKept ==
  \A k \in Package : target[k] = Official \/ backup[k][0] = Official

EndsWell(p, points, results) ==
  pc[p] \in points /\ pc'[p] = "idle" /\ outcome'.result \in results

\* "Unpatch and restore the original TypeScript-Go binary" (cli.ts:552): an
\* unpatch that reports success, or that there is nothing to restore, leaves
\* the official binary at the target path.
UnpatchRestoresOriginal ==
  [][ \A p \in Process :
        EndsWell(p, UnpatchPoints, {"ok", "nothing"}) => target'[pkg[p]] = Official ]_vars

\* A patch that reports success leaves a whole Effect binary at the target
\* and the official one where unpatch restores it from.
PatchInstallsBinary ==
  [][ \A p \in Process :
        EndsWell(p, PatchPoints, {"ok"}) =>
          /\ target'[pkg[p]] = [binary |-> binary[p], whole |-> TRUE]
          /\ backup'[pkg[p]][0] = Official ]_vars

\* Every command ends, though the search for a free backup name loops
\* (cli.ts:455) and other commands may take the names it finds.
CommandsEnd == \A p \in Process : pc[p] # "idle" ~> pc[p] = "idle"

\* The files implement the abstract installation.
Abstract == INSTANCE Installation WITH
  running <- [k \in Package |-> IF target[k] = Official THEN "official"
                                ELSE IF target[k] = Absent THEN "none" ELSE "effect"],
  saved   <- { k \in Package : backup[k][0] = Official }

ImplementsInstallation == Abstract!Spec
=============================================================================
