------------------------ MODULE JarActivation_proofs ------------------------
(***************************************************************************)
(* For any number of activations, lost calls and dead processes: the path  *)
(* the Mapepire server is started from never holds an unverified file, an  *)
(* activation leaves nothing behind, and the server that is started runs   *)
(* the pinned JAR.                                                         *)
(***************************************************************************)
EXTENDS JarActivation, FiniteSetTheorems, TLAPS

\* What may be at the fixed path.
Kept == {"None", "Good", initial}

\* The upload has been hashed and is still under its own name.
Uploaded == {"backup", "copyBackup", "checkBackup", "removePrior", "rename"}

\* The file that was there is being replaced, and its copy may be put back.
Replacing == {"removePrior", "rename", "verify", "removeBad", "restore"}

\* What activation a, in state r, relies on when the files are f.
Relies(f, a, r) ==
    /\ r.prior \in Kept
    /\ r.pc \in Uploaded => f[Temp(a)] = "Good"
    /\ r.pc \in Replacing /\ r.prior # "None" => f[Backup(a)] \in Kept

\* A failure of the replacement may put the copy back.
CopySafe(f, a, r) ==
    r.pc \in {"rename", "verify", "removeBad"} /\ r.prior # "None" => f[Backup(a)] \in Kept

\* The inductive strengthening of OnlyVerified.
VerifiedInv ==
    /\ files[Jar] \in Kept
    /\ \A a \in Activation : Relies(files, a, run[a])

Activations == [pc : Steps, prior : Content, ownTemp : BOOLEAN, ownBackup : BOOLEAN,
                stage : ArtifactStage \cup {""}, up : BOOLEAN, hit : BOOLEAN,
                verified : BOOLEAN, alone : BOOLEAN, ran : Content]

----------------------------------------------------------------------------

\* The fixed path and each activation's own two paths are all different.
LEMMA PathsDiffer ==
    ASSUME NEW a, NEW b
    PROVE  /\ Temp(a) # Jar /\ Backup(a) # Jar /\ Temp(a) # Backup(b)
           /\ a # b => Temp(a) # Temp(b) /\ Backup(a) # Backup(b)
BY DEF Temp, Backup, Jar

LEMMA PathsExist ==
    ASSUME NEW a \in Activation
    PROVE  Jar \in Path /\ Temp(a) \in Path /\ Backup(a) \in Path
BY DEF Path

\* A failure leads to a step, and to no later use of the upload or of the copy
\* than the failed step's own.
LEMMA FailureSteps ==
    ASSUME NEW s \in Steps
    PROVE  /\ OnFailure[s] \in Steps
           /\ OnFailure[s] \notin Uploaded
           /\ OnFailure[s] \in Replacing => s \in Replacing
           /\ StageOf[s] \in ArtifactStage \cup {""}
<1>1. OnFailure[s] \in {"restore", "removeBad", "undoBackup", "cleanTemp", "failed", "cleanBackup"}
  BY DEF OnFailure
<1>2. OnFailure[s] = "restore" => s \in {"rename", "removeBad"}
  BY DEF OnFailure
<1>3. OnFailure[s] = "removeBad" => s = "verify"
  BY DEF OnFailure
<1>4. StageOf[s] \in ArtifactStage \cup {""}
  BY DEF StageOf, ArtifactStage
<1>5. QED
  BY <1>1, <1>2, <1>3, <1>4 DEF Uploaded, Replacing, Steps

\* What a failure makes of an activation.
LEMMA FailedType ==
    ASSUME NEW r \in Activations
    PROVE  /\ Failed(r) \in Activations
           /\ Failed(r).pc = OnFailure[r.pc] /\ Failed(r).prior = r.prior
<1>1. r.pc \in Steps
  BY DEF Activations
<1>2. OnFailure[r.pc] \in Steps /\ StageOf[r.pc] \in ArtifactStage \cup {""}
  BY <1>1, FailureSteps
<1>3. (r.ownBackup /\ r.pc # "restore") \in BOOLEAN
  OBVIOUS
<1>4. (IF r.stage = "" THEN StageOf[r.pc] ELSE r.stage) \in ArtifactStage \cup {""}
  BY <1>2 DEF Activations
<1>5. QED
  BY <1>2, <1>3, <1>4 DEF Failed, Activations

\* A remote call keeps the types if its effect does.
LEMMA CallType ==
    ASSUME JarTypeOK, NEW a \in Activation, NEW s, NEW able \in BOOLEAN,
           NEW after \in [Path -> Content], NEW next \in Activations,
           Call(a, s, able, after, next)
    PROVE  JarTypeOK'
<1>1. run \in [Activation -> Activations] /\ run[a] \in Activations
  BY DEF JarTypeOK, Activations
<1>2. Failed(run[a]) \in Activations
  BY <1>1, FailedType
<1>3. [Failed(run[a]) EXCEPT !.hit = TRUE] \in Activations
  BY <1>2 DEF Activations
<1>4. [Failed(run[a]) EXCEPT !.hit = TRUE, !.up = FALSE] \in Activations
  BY <1>2 DEF Activations
<1>5. initial' = initial /\ local' = local /\ crashes' = crashes
  BY DEF Call
<1>6. files' \in [Path -> Content]
  BY DEF Call, JarTypeOK
<1>7. run' \in [Activation -> Activations]
  BY <1>1, <1>2, <1>3, <1>4 DEF Call, Set
<1>8. faults' \in 0..MaxFaults
  <2>1. faults' = faults \/ (faults < MaxFaults /\ faults' = faults + 1)
    BY DEF Call
  <2>2. MaxFaults \in Nat /\ faults \in 0..MaxFaults
    BY JarAssumption DEF JarTypeOK
  <2>3. QED
    BY <2>1, <2>2
<1>9. QED
  BY <1>5, <1>6, <1>7, <1>8 DEF JarTypeOK, Activations

\* A remote call keeps the invariant if what it does to the files suits the
\* activation's next state and its failure alike.
LEMMA CallKeeps ==
    ASSUME JarTypeOK, VerifiedInv, NEW a \in Activation, NEW s, NEW able \in BOOLEAN,
           NEW after \in [Path -> Content], NEW next \in Activations,
           Call(a, s, able, after, next),
           able => /\ after[Jar] \in Kept
                   /\ Relies(after, a, next)
                   /\ CopySafe(after, a, run[a])
                   /\ \A p \in Path \ {Jar, Temp(a), Backup(a)} : after[p] = files[p]
    PROVE  JarTypeOK' /\ VerifiedInv'
<1>1. run \in [Activation -> Activations] /\ run[a] \in Activations /\ run[a].pc \in Steps
  BY DEF JarTypeOK, Activations
<1>2. run[a].pc = s /\ initial' = initial
  BY DEF Call
<1> DEFINE Lost == Failed(run[a])
<1>3. /\ Lost \in Activations /\ Lost.pc = OnFailure[run[a].pc] /\ Lost.prior = run[a].prior
  BY <1>1, FailedType
<1>4. /\ Lost.pc \notin Uploaded
      /\ Lost.pc \in Replacing => s \in {"rename", "verify", "removeBad"}
  <2>1. OnFailure[s] \notin Uploaded
    BY <1>1, <1>2, FailureSteps
  <2>2. OnFailure[s] \in Replacing => s \in {"rename", "verify", "removeBad"}
    BY <1>1, <1>2 DEF OnFailure, Replacing
  <2>3. QED
    BY <2>1, <2>2, <1>2, <1>3
<1>5. Relies(files, a, run[a]) /\ files[Jar] \in Kept
  BY DEF VerifiedInv
<1>6. Relies(files, a, Lost)
  BY <1>2, <1>3, <1>4, <1>5 DEF Relies, Replacing
<1>7. able => Relies(after, a, Lost)
  BY <1>2, <1>3, <1>4, <1>5 DEF Relies, CopySafe
<1>8. \A r \in Activations :
        /\ r.pc = Lost.pc /\ r.prior = Lost.prior
        => Relies(files, a, r) /\ (able => Relies(after, a, r))
  BY <1>6, <1>7 DEF Relies
<1>9. PICK r \in Activations :
        /\ run' = [run EXCEPT ![a] = r]
        /\ \/ able /\ files' = after /\ r = next
           \/ (files' = files \/ (able /\ files' = after)) /\ r.pc = Lost.pc /\ r.prior = Lost.prior
  <2>1. CASE able /\ files' = after /\ Set(a, next)
    BY <2>1 DEF Set
  <2>2. CASE files' = files /\ Set(a, Lost)
    BY <2>2, <1>3 DEF Set
  <2>3. CASE files' = files /\ Set(a, [Lost EXCEPT !.hit = TRUE])
    <3>1. [Lost EXCEPT !.hit = TRUE] \in Activations
      BY <1>3 DEF Activations
    <3>2. [Lost EXCEPT !.hit = TRUE].pc = Lost.pc /\ [Lost EXCEPT !.hit = TRUE].prior = Lost.prior
      BY <1>3 DEF Activations
    <3>3. QED
      BY <2>3, <3>1, <3>2 DEF Set
  <2>4. CASE files' \in {files, IF able THEN after ELSE files}
             /\ Set(a, [Lost EXCEPT !.hit = TRUE, !.up = FALSE])
    <3>1. [Lost EXCEPT !.hit = TRUE, !.up = FALSE] \in Activations
      BY <1>3 DEF Activations
    <3>2. /\ [Lost EXCEPT !.hit = TRUE, !.up = FALSE].pc = Lost.pc
          /\ [Lost EXCEPT !.hit = TRUE, !.up = FALSE].prior = Lost.prior
      BY <1>3 DEF Activations
    <3>3. QED
      BY <2>4, <3>1, <3>2 DEF Set
  <2>5. QED
    BY <2>1, <2>2, <2>3, <2>4 DEF Call
<1>10. files'[Jar] \in Kept'
  BY <1>2, <1>5, <1>9 DEF Kept
<1>11. Relies(files', a, r)
  BY <1>8, <1>9
<1>12. \A b \in Activation : Relies(files', b, run'[b])
  <2> SUFFICES ASSUME NEW b \in Activation
               PROVE  Relies(files', b, run'[b])
    OBVIOUS
  <2>1. CASE b = a
    BY <2>1, <1>1, <1>9, <1>11
  <2>2. CASE b # a
    <3>1. run'[b] = run[b] /\ Relies(files, b, run[b])
      BY <2>2, <1>1, <1>9 DEF VerifiedInv
    <3>2. /\ Temp(b) \in Path \ {Jar, Temp(a), Backup(a)}
          /\ Backup(b) \in Path \ {Jar, Temp(a), Backup(a)}
      BY <2>2, PathsDiffer, PathsExist
    <3>3. files'[Temp(b)] = files[Temp(b)] /\ files'[Backup(b)] = files[Backup(b)]
      BY <3>2, <1>9
    <3>4. QED
      BY <3>1, <3>3 DEF Relies
  <2>3. QED
    BY <2>1, <2>2
<1>13. VerifiedInv'
  BY <1>2, <1>10, <1>12 DEF VerifiedInv, Relies, Kept
<1>14. QED
  BY <1>13, CallType

\* A step that makes no remote call keeps it if it gives up the upload and the
\* copy.
LEMMA QuietKeeps ==
    ASSUME JarTypeOK, VerifiedInv, NEW a \in Activation, NEW next \in Activations,
           run' = [run EXCEPT ![a] = next], next.prior = run[a].prior,
           next.pc \notin Uploaded \cup Replacing,
           files' = files, initial' = initial, local' \in {"Good", "Bad"},
           faults' = faults, crashes' \in 0..MaxCrashes
    PROVE  JarTypeOK' /\ VerifiedInv'
<1>1. JarTypeOK'
  BY DEF JarTypeOK, Activations
<1>2. run \in [Activation -> Activations]
  BY DEF JarTypeOK, Activations
<1>3. \A b \in Activation : Relies(files, b, run'[b])
  BY <1>2 DEF VerifiedInv, Relies
<1>4. QED
  BY <1>1, <1>3 DEF VerifiedInv, Relies, Kept

----------------------------------------------------------------------------

\* Every step of an activation keeps the invariant: the effect of each remote
\* call, one by one.
LEMMA ActivatingKeeps ==
    ASSUME JarTypeOK, VerifiedInv, NEW a \in Activation, Activating(a)
    PROVE  JarTypeOK' /\ VerifiedInv'
<1> DEFINE r == run[a]
<1>1. /\ run \in [Activation -> Activations] /\ r \in Activations
      /\ files \in [Path -> Content] /\ initial \in Content /\ local \in Content
      /\ Jar \in Path /\ Temp(a) \in Path /\ Backup(a) \in Path
  BY PathsExist DEF JarTypeOK, Activations, Content
<1>2. files[Jar] \in Kept /\ Relies(files, a, r)
  BY DEF VerifiedInv
<1>3. Temp(a) # Jar /\ Backup(a) # Jar /\ Temp(a) # Backup(a)
  BY PathsDiffer
<1>4. \A s \in Steps :
        Goto(a, s) \in Activations /\ Goto(a, s).pc = s /\ Goto(a, s).prior = r.prior
  BY <1>1 DEF Goto, Activations
<1>5. CASE Begin(a)
  <2>1. PICK next \in Activations :
           /\ run' = [run EXCEPT ![a] = next]
           /\ next.pc \in {"prepare", "failed"} /\ next.prior = r.prior
    BY <1>5, <1>4 DEF Begin, Set, Steps
  <2>2. /\ UNCHANGED <<files, initial, local, faults, crashes>>
        /\ local \in {"Good", "Bad"} /\ crashes \in 0..MaxCrashes
        /\ next.pc \notin Uploaded \cup Replacing
    BY <1>5, <2>1 DEF Begin, JarTypeOK, Uploaded, Replacing
  <2>3. QED
    BY <1>1, <2>1, <2>2, QuietKeeps
<1>6. CASE Prepare(a)
  <2> DEFINE next == Goto(a, "inspect")
  <2>1. next \in Activations /\ next.pc \in {"inspect"} /\ next.prior = r.prior
    BY <1>4 DEF Steps
  <2>2. Call(a, "prepare", TRUE, files, next)
    BY <1>6 DEF Prepare
  <2>3. r.pc = "prepare"
    BY <2>2 DEF Call
  <2>4. Relies(files, a, next)
    BY <1>2, <2>1, <2>3 DEF Relies, Uploaded, Replacing, Kept
  <2>5. CopySafe(files, a, r)
    BY <1>2 DEF Relies, Replacing, CopySafe
  <2>6. QED
    BY <1>1, <1>2, <2>1, <2>2, <2>4, <2>5, CallKeeps
<1>7. CASE Inspect(a)
  <2> DEFINE next == IF files[Jar] = "Good"
                     THEN [Goto(a, "done") EXCEPT !.prior = "Good", !.verified = TRUE]
                     ELSE [Goto(a, "create") EXCEPT !.prior = files[Jar]]
  <2>1. next \in Activations /\ next.pc \in {"done", "create"} /\ next.prior = files[Jar]
    <3>1. Goto(a, "done") \in Activations /\ Goto(a, "done").pc = "done"
      BY <1>4 DEF Steps
    <3>2. Goto(a, "create") \in Activations /\ Goto(a, "create").pc = "create"
      BY <1>4 DEF Steps
    <3>3. files[Jar] \in Content
      BY <1>1
    <3>4. QED
      BY <3>1, <3>2, <3>3 DEF Activations, Content
  <2>2. /\ Call(a, "inspect", files[Jar] # "Odd", files, next)
        /\ (files[Jar] # "Odd") \in BOOLEAN
    BY <1>7 DEF Inspect, Exists
  <2>3. r.pc = "inspect"
    BY <2>2 DEF Call
  <2>4. files[Jar] # "Odd" => Relies(files, a, next)
    BY <1>2, <2>1, <2>3 DEF Relies, Uploaded, Replacing, Kept
  <2>5. CopySafe(files, a, r)
    BY <1>2 DEF Relies, Replacing, CopySafe
  <2>6. QED
    BY <1>1, <1>2, <2>1, <2>2, <2>4, <2>5, CallKeeps
<1>8. CASE CreateTemporary(a)
  <2> DEFINE next == [Goto(a, "transfer") EXCEPT !.ownTemp = TRUE]
             after == [files EXCEPT ![Temp(a)] = "Bad"]
  <2>1. next \in Activations /\ next.pc \in {"transfer"} /\ next.prior = r.prior
    <3>1. /\ Goto(a, "transfer") \in Activations /\ Goto(a, "transfer").pc = "transfer"
          /\ Goto(a, "transfer").prior = r.prior
      BY <1>4 DEF Steps
    <3>2. QED
      BY <3>1 DEF Activations
  <2>2. Call(a, "create", TRUE, after, next)
    BY <1>8 DEF CreateTemporary
  <2>3. r.pc = "create"
    BY <2>2 DEF Call
  <2>4. /\ after \in [Path -> Content]
        /\ \A q \in Path \ {Temp(a)} : after[q] = files[q]
    BY <1>1, <1>3 DEF Moved, Without, Content
  <2>5. after[Jar] \in Kept /\ Relies(after, a, next) /\ CopySafe(after, a, r)
    BY <1>1, <1>2, <1>3, <1>8, <2>1, <2>3, <2>4 DEF Relies, CopySafe, Uploaded, Replacing, Kept
  <2>6. QED
    BY <1>1, <2>1, <2>2, <2>4, <2>5, CallKeeps
<1>9. CASE Transfer(a)
  <2> DEFINE next == Goto(a, "verifyTemp")
             after == [files EXCEPT ![Temp(a)] = local]
  <2>1. next \in Activations /\ next.pc \in {"verifyTemp"} /\ next.prior = r.prior
    BY <1>4 DEF Steps
  <2>2. Call(a, "transfer", TRUE, after, next)
    BY <1>9 DEF Transfer
  <2>3. r.pc = "transfer"
    BY <2>2 DEF Call
  <2>4. /\ after \in [Path -> Content]
        /\ \A q \in Path \ {Temp(a)} : after[q] = files[q]
    BY <1>1, <1>3 DEF Moved, Without, Content
  <2>5. after[Jar] \in Kept /\ Relies(after, a, next) /\ CopySafe(after, a, r)
    BY <1>1, <1>2, <1>3, <1>9, <2>1, <2>3, <2>4 DEF Relies, CopySafe, Uploaded, Replacing, Kept
  <2>6. QED
    BY <1>1, <2>1, <2>2, <2>4, <2>5, CallKeeps
<1>10. CASE VerifyTemporary(a)
  <2> DEFINE next == Goto(a, IF run[a].prior = "None" THEN "rename" ELSE "backup")
  <2>1. /\ next \in Activations /\ next.prior = r.prior
        /\ next.pc = IF r.prior = "None" THEN "rename" ELSE "backup"
    BY <1>4 DEF Steps
  <2>2. /\ Call(a, "verifyTemp", files[Temp(a)] = "Good", files, next)
        /\ (files[Temp(a)] = "Good") \in BOOLEAN
    BY <1>10 DEF VerifyTemporary, Exists
  <2>3. r.pc = "verifyTemp"
    BY <2>2 DEF Call
  <2>4. files[Temp(a)] = "Good" => Relies(files, a, next)
    BY <1>2, <2>1, <2>3 DEF Relies, Uploaded, Replacing, Kept
  <2>5. CopySafe(files, a, r)
    BY <1>2 DEF Relies, Replacing, CopySafe
  <2>6. QED
    BY <1>1, <1>2, <2>1, <2>2, <2>4, <2>5, CallKeeps
<1>11. CASE CreateBackup(a)
  <2> DEFINE next == Goto(a, "copyBackup")
             after == [files EXCEPT ![Backup(a)] = "Bad"]
  <2>1. next \in Activations /\ next.pc \in {"copyBackup"} /\ next.prior = r.prior
    BY <1>4 DEF Steps
  <2>2. /\ Call(a, "backup", files[Jar] \notin {"None", "Odd"}, after, next)
        /\ (files[Jar] \notin {"None", "Odd"}) \in BOOLEAN
    BY <1>11 DEF CreateBackup, Exists
  <2>3. r.pc = "backup"
    BY <2>2 DEF Call
  <2>4. /\ after \in [Path -> Content]
        /\ \A q \in Path \ {Backup(a)} : after[q] = files[q]
    BY <1>1, <1>3 DEF Moved, Without, Content
  <2>5. files[Jar] \notin {"None", "Odd"}
          => after[Jar] \in Kept /\ Relies(after, a, next) /\ CopySafe(after, a, r)
    BY <1>1, <1>2, <1>3, <1>11, <2>1, <2>3, <2>4 DEF Relies, CopySafe, Uploaded, Replacing, Kept
  <2>6. QED
    BY <1>1, <2>1, <2>2, <2>4, <2>5, CallKeeps
<1>12. CASE CopyBackup(a)
  <2> DEFINE next == Goto(a, "checkBackup")
             after == [files EXCEPT ![Backup(a)] = files[Jar]]
  <2>1. next \in Activations /\ next.pc \in {"checkBackup"} /\ next.prior = r.prior
    BY <1>4 DEF Steps
  <2>2. /\ Call(a, "copyBackup", files[Jar] \notin {"None", "Odd"}, after, next)
        /\ (files[Jar] \notin {"None", "Odd"}) \in BOOLEAN
    BY <1>12 DEF CopyBackup, Exists
  <2>3. r.pc = "copyBackup"
    BY <2>2 DEF Call
  <2>4. /\ after \in [Path -> Content]
        /\ \A q \in Path \ {Backup(a)} : after[q] = files[q]
    BY <1>1, <1>3 DEF Moved, Without, Content
  <2>5. files[Jar] \notin {"None", "Odd"}
          => after[Jar] \in Kept /\ Relies(after, a, next) /\ CopySafe(after, a, r)
    BY <1>1, <1>2, <1>3, <1>12, <2>1, <2>3, <2>4 DEF Relies, CopySafe, Uploaded, Replacing, Kept
  <2>6. QED
    BY <1>1, <2>1, <2>2, <2>4, <2>5, CallKeeps
<1>13. CASE CheckBackup(a)
  <2> DEFINE next == [Goto(a, "removePrior") EXCEPT !.ownBackup = TRUE]
  <2>1. next \in Activations /\ next.pc \in {"removePrior"} /\ next.prior = r.prior
    <3>1. /\ Goto(a, "removePrior") \in Activations /\ Goto(a, "removePrior").pc = "removePrior"
          /\ Goto(a, "removePrior").prior = r.prior
      BY <1>4 DEF Steps
    <3>2. QED
      BY <3>1 DEF Activations
  <2>2. /\ Call(a, "checkBackup", files[Backup(a)] = run[a].prior, files, next)
        /\ (files[Backup(a)] = run[a].prior) \in BOOLEAN
    BY <1>13 DEF CheckBackup, Exists
  <2>3. r.pc = "checkBackup"
    BY <2>2 DEF Call
  <2>4. files[Backup(a)] = run[a].prior => Relies(files, a, next)
    BY <1>2, <2>1, <2>3 DEF Relies, Uploaded, Replacing, Kept
  <2>5. CopySafe(files, a, r)
    BY <1>2 DEF Relies, Replacing, CopySafe
  <2>6. QED
    BY <1>1, <1>2, <2>1, <2>2, <2>4, <2>5, CallKeeps
<1>14. CASE UndoBackup(a)
  <2> DEFINE next == Goto(a, "cleanBackup")
             after == Without(Backup(a))
  <2>1. next \in Activations /\ next.pc \in {"cleanBackup"} /\ next.prior = r.prior
    BY <1>4 DEF Steps
  <2>2. /\ Call(a, "undoBackup", Exists(Backup(a)), after, next)
        /\ (Exists(Backup(a))) \in BOOLEAN
    BY <1>14 DEF UndoBackup, Exists
  <2>3. r.pc = "undoBackup"
    BY <2>2 DEF Call
  <2>4. /\ after \in [Path -> Content]
        /\ \A q \in Path \ {Backup(a)} : after[q] = files[q]
    BY <1>1, <1>3 DEF Moved, Without, Content
  <2>5. Exists(Backup(a))
          => after[Jar] \in Kept /\ Relies(after, a, next) /\ CopySafe(after, a, r)
    BY <1>1, <1>2, <1>3, <1>14, <2>1, <2>3, <2>4 DEF Relies, CopySafe, Uploaded, Replacing, Kept
  <2>6. QED
    BY <1>1, <2>1, <2>2, <2>4, <2>5, CallKeeps
<1>15. CASE RemovePrior(a)
  <2> DEFINE next == Goto(a, "rename")
             after == Without(Jar)
  <2>1. next \in Activations /\ next.pc \in {"rename"} /\ next.prior = r.prior
    BY <1>4 DEF Steps
  <2>2. /\ Call(a, "removePrior", Exists(Jar), after, next)
        /\ (Exists(Jar)) \in BOOLEAN
    BY <1>15 DEF RemovePrior, Exists
  <2>3. r.pc = "removePrior"
    BY <2>2 DEF Call
  <2>4. /\ after \in [Path -> Content]
        /\ after[Jar] = "None" /\ \A q \in Path \ {Jar} : after[q] = files[q]
    BY <1>1, <1>3 DEF Moved, Without, Content
  <2>5. Exists(Jar)
          => after[Jar] \in Kept /\ Relies(after, a, next) /\ CopySafe(after, a, r)
    BY <1>1, <1>2, <1>3, <1>15, <2>1, <2>3, <2>4 DEF Relies, CopySafe, Uploaded, Replacing, Kept
  <2>6. QED
    BY <1>1, <2>1, <2>2, <2>4, <2>5, CallKeeps
<1>16. CASE Activate(a)
  <2> DEFINE next == [Goto(a, "verify") EXCEPT !.ownTemp = FALSE]
             after == Moved(Temp(a), Jar)
  <2>1. next \in Activations /\ next.pc \in {"verify"} /\ next.prior = r.prior
    <3>1. /\ Goto(a, "verify") \in Activations /\ Goto(a, "verify").pc = "verify"
          /\ Goto(a, "verify").prior = r.prior
      BY <1>4 DEF Steps
    <3>2. QED
      BY <3>1 DEF Activations
  <2>2. /\ Call(a, "rename", Exists(Temp(a)) /\ ~Exists(Jar), after, next)
        /\ (Exists(Temp(a)) /\ ~Exists(Jar)) \in BOOLEAN
    BY <1>16 DEF Activate, Exists
  <2>3. r.pc = "rename"
    BY <2>2 DEF Call
  <2>4. /\ after \in [Path -> Content]
        /\ after[Jar] = files[Temp(a)] /\ \A q \in Path \ {Jar, Temp(a)} : after[q] = files[q]
    BY <1>1, <1>3 DEF Moved, Without, Content
  <2>5. Exists(Temp(a)) /\ ~Exists(Jar)
          => after[Jar] \in Kept /\ Relies(after, a, next) /\ CopySafe(after, a, r)
    BY <1>1, <1>2, <1>3, <1>16, <2>1, <2>3, <2>4 DEF Relies, CopySafe, Uploaded, Replacing, Kept
  <2>6. QED
    BY <1>1, <2>1, <2>2, <2>4, <2>5, CallKeeps
<1>17. CASE VerifyActivated(a)
  <2> DEFINE next == [Goto(a, IF run[a].ownBackup THEN "dropBackup" ELSE "done")
                        EXCEPT !.verified = TRUE]
  <2>1. next \in Activations /\ next.pc \in {"dropBackup", "done"} /\ next.prior = r.prior
    <3> DEFINE then == Goto(a, IF run[a].ownBackup THEN "dropBackup" ELSE "done")
    <3>1. (IF run[a].ownBackup THEN "dropBackup" ELSE "done") \in Steps \cap {"dropBackup", "done"}
      BY DEF Steps
    <3>2. then \in Activations /\ then.pc \in {"dropBackup", "done"} /\ then.prior = r.prior
      BY <3>1, <1>4
    <3>3. QED
      BY <3>2 DEF Activations
  <2>2. /\ Call(a, "verify", files[Jar] = "Good", files, next)
        /\ (files[Jar] = "Good") \in BOOLEAN
    BY <1>17 DEF VerifyActivated, Exists
  <2>3. r.pc = "verify"
    BY <2>2 DEF Call
  <2>4. files[Jar] = "Good" => Relies(files, a, next)
    BY <1>2, <2>1, <2>3 DEF Relies, Uploaded, Replacing, Kept
  <2>5. CopySafe(files, a, r)
    BY <1>2 DEF Relies, Replacing, CopySafe
  <2>6. QED
    BY <1>1, <1>2, <2>1, <2>2, <2>4, <2>5, CallKeeps
<1>18. CASE RemoveBad(a)
  <2> DEFINE next == Goto(a, "restore")
             after == Without(Jar)
  <2>1. next \in Activations /\ next.pc \in {"restore"} /\ next.prior = r.prior
    BY <1>4 DEF Steps
  <2>2. /\ Call(a, "removeBad", Exists(Jar), after, next)
        /\ (Exists(Jar)) \in BOOLEAN
    BY <1>18 DEF RemoveBad, Exists
  <2>3. r.pc = "removeBad"
    BY <2>2 DEF Call
  <2>4. /\ after \in [Path -> Content]
        /\ after[Jar] = "None" /\ \A q \in Path \ {Jar} : after[q] = files[q]
    BY <1>1, <1>3 DEF Moved, Without, Content
  <2>5. Exists(Jar)
          => after[Jar] \in Kept /\ Relies(after, a, next) /\ CopySafe(after, a, r)
    BY <1>1, <1>2, <1>3, <1>18, <2>1, <2>3, <2>4 DEF Relies, CopySafe, Uploaded, Replacing, Kept
  <2>6. QED
    BY <1>1, <2>1, <2>2, <2>4, <2>5, CallKeeps
<1>19. CASE Restore(a) /\ r.prior = "None"
  <2>1. PICK next \in Activations :
           /\ run' = [run EXCEPT ![a] = next]
           /\ next.pc \in {"cleanTemp"} /\ next.prior = r.prior
    <3> DEFINE given == [Goto(a, "cleanTemp") EXCEPT !.ownBackup = FALSE]
    <3>1. /\ Goto(a, "cleanTemp") \in Activations /\ Goto(a, "cleanTemp").pc = "cleanTemp"
          /\ Goto(a, "cleanTemp").prior = r.prior
      BY <1>4 DEF Steps
    <3>2. given \in Activations /\ given.pc = "cleanTemp" /\ given.prior = r.prior
      BY <3>1 DEF Activations
    <3>3. run' = [run EXCEPT ![a] = given]
      BY <1>19 DEF Restore, Set
    <3>4. QED
      BY <3>2, <3>3
  <2>2. /\ UNCHANGED <<files, initial, local, faults, crashes>>
        /\ local \in {"Good", "Bad"} /\ crashes \in 0..MaxCrashes
        /\ next.pc \notin Uploaded \cup Replacing
    BY <1>19, <2>1 DEF Restore, JarTypeOK, Uploaded, Replacing
  <2>3. QED
    BY <1>1, <2>1, <2>2, QuietKeeps
<1>20. CASE Restore(a) /\ r.prior # "None"
  <2> DEFINE next == [Goto(a, "cleanTemp") EXCEPT !.ownBackup = FALSE]
             after == Moved(Backup(a), Jar)
  <2>1. next \in Activations /\ next.pc \in {"cleanTemp"} /\ next.prior = r.prior
    <3>1. /\ Goto(a, "cleanTemp") \in Activations /\ Goto(a, "cleanTemp").pc = "cleanTemp"
          /\ Goto(a, "cleanTemp").prior = r.prior
      BY <1>4 DEF Steps
    <3>2. QED
      BY <3>1 DEF Activations
  <2>2. /\ Call(a, "restore", Exists(Backup(a)) /\ ~Exists(Jar), after, next)
        /\ (Exists(Backup(a)) /\ ~Exists(Jar)) \in BOOLEAN
    BY <1>20 DEF Restore, Exists
  <2>3. r.pc = "restore"
    BY <2>2 DEF Call
  <2>4. /\ after \in [Path -> Content]
        /\ after[Jar] = files[Backup(a)] /\ \A q \in Path \ {Jar, Backup(a)} : after[q] = files[q]
    BY <1>1, <1>3 DEF Moved, Without, Content
  <2>5. Exists(Backup(a)) /\ ~Exists(Jar)
          => after[Jar] \in Kept /\ Relies(after, a, next) /\ CopySafe(after, a, r)
    BY <1>1, <1>2, <1>3, <1>20, <2>1, <2>3, <2>4 DEF Relies, CopySafe, Uploaded, Replacing, Kept
  <2>6. QED
    BY <1>1, <2>1, <2>2, <2>4, <2>5, CallKeeps
<1>21. CASE DropBackup(a)
  <2> DEFINE next == [Goto(a, "done") EXCEPT !.ownBackup = FALSE]
             after == Without(Backup(a))
  <2>1. next \in Activations /\ next.pc \in {"done"} /\ next.prior = r.prior
    <3>1. /\ Goto(a, "done") \in Activations /\ Goto(a, "done").pc = "done"
          /\ Goto(a, "done").prior = r.prior
      BY <1>4 DEF Steps
    <3>2. QED
      BY <3>1 DEF Activations
  <2>2. /\ Call(a, "dropBackup", Exists(Backup(a)), after, next)
        /\ (Exists(Backup(a))) \in BOOLEAN
    BY <1>21 DEF DropBackup, Exists
  <2>3. r.pc = "dropBackup"
    BY <2>2 DEF Call
  <2>4. /\ after \in [Path -> Content]
        /\ \A q \in Path \ {Backup(a)} : after[q] = files[q]
    BY <1>1, <1>3 DEF Moved, Without, Content
  <2>5. Exists(Backup(a))
          => after[Jar] \in Kept /\ Relies(after, a, next) /\ CopySafe(after, a, r)
    BY <1>1, <1>2, <1>3, <1>21, <2>1, <2>3, <2>4 DEF Relies, CopySafe, Uploaded, Replacing, Kept
  <2>6. QED
    BY <1>1, <2>1, <2>2, <2>4, <2>5, CallKeeps
<1>22. CASE CleanBackup(a) /\ ~(r.ownBackup /\ Exists(Backup(a)))
  <2>1. PICK next \in Activations :
           /\ run' = [run EXCEPT ![a] = next]
           /\ next.pc \in {"cleanTemp"} /\ next.prior = r.prior
    BY <1>22, <1>4 DEF CleanBackup, Set, Steps
  <2>2. /\ UNCHANGED <<files, initial, local, faults, crashes>>
        /\ local \in {"Good", "Bad"} /\ crashes \in 0..MaxCrashes
        /\ next.pc \notin Uploaded \cup Replacing
    BY <1>22, <2>1 DEF CleanBackup, JarTypeOK, Uploaded, Replacing
  <2>3. QED
    BY <1>1, <2>1, <2>2, QuietKeeps
<1>23. CASE CleanBackup(a) /\ r.ownBackup /\ Exists(Backup(a))
  <2> DEFINE next == Goto(a, "cleanTemp")
             after == Without(Backup(a))
  <2>1. next \in Activations /\ next.pc \in {"cleanTemp"} /\ next.prior = r.prior
    BY <1>4 DEF Steps
  <2>2. Call(a, "cleanBackup", TRUE, after, next)
    BY <1>23 DEF CleanBackup
  <2>3. r.pc = "cleanBackup"
    BY <2>2 DEF Call
  <2>4. /\ after \in [Path -> Content]
        /\ \A q \in Path \ {Backup(a)} : after[q] = files[q]
    BY <1>1, <1>3 DEF Moved, Without, Content
  <2>5. after[Jar] \in Kept /\ Relies(after, a, next) /\ CopySafe(after, a, r)
    BY <1>1, <1>2, <1>3, <1>23, <2>1, <2>3, <2>4 DEF Relies, CopySafe, Uploaded, Replacing, Kept
  <2>6. QED
    BY <1>1, <2>1, <2>2, <2>4, <2>5, CallKeeps
<1>24. CASE CleanTemp(a) /\ ~(r.ownTemp /\ Exists(Temp(a)))
  <2>1. PICK next \in Activations :
           /\ run' = [run EXCEPT ![a] = next]
           /\ next.pc \in {"failed"} /\ next.prior = r.prior
    BY <1>24, <1>4 DEF CleanTemp, Set, Steps
  <2>2. /\ UNCHANGED <<files, initial, local, faults, crashes>>
        /\ local \in {"Good", "Bad"} /\ crashes \in 0..MaxCrashes
        /\ next.pc \notin Uploaded \cup Replacing
    BY <1>24, <2>1 DEF CleanTemp, JarTypeOK, Uploaded, Replacing
  <2>3. QED
    BY <1>1, <2>1, <2>2, QuietKeeps
<1>25. CASE CleanTemp(a) /\ r.ownTemp /\ Exists(Temp(a))
  <2> DEFINE next == Goto(a, "failed")
             after == Without(Temp(a))
  <2>1. next \in Activations /\ next.pc \in {"failed"} /\ next.prior = r.prior
    BY <1>4 DEF Steps
  <2>2. Call(a, "cleanTemp", TRUE, after, next)
    BY <1>25 DEF CleanTemp
  <2>3. r.pc = "cleanTemp"
    BY <2>2 DEF Call
  <2>4. /\ after \in [Path -> Content]
        /\ \A q \in Path \ {Temp(a)} : after[q] = files[q]
    BY <1>1, <1>3 DEF Moved, Without, Content
  <2>5. after[Jar] \in Kept /\ Relies(after, a, next) /\ CopySafe(after, a, r)
    BY <1>1, <1>2, <1>3, <1>25, <2>1, <2>3, <2>4 DEF Relies, CopySafe, Uploaded, Replacing, Kept
  <2>6. QED
    BY <1>1, <2>1, <2>2, <2>4, <2>5, CallKeeps
<1>26. CASE Reverify(a)
  <2> DEFINE next == [Goto(a, "admitted") EXCEPT !.alone = Alone(a)]
  <2>1. next \in Activations /\ next.pc \in {"admitted"} /\ next.prior = r.prior
    <3>1. /\ Goto(a, "admitted") \in Activations /\ Goto(a, "admitted").pc = "admitted"
          /\ Goto(a, "admitted").prior = r.prior
      BY <1>4 DEF Steps
    <3>3. Alone(a) \in BOOLEAN
      BY Zenon DEF Alone
    <3>2. QED
      BY <3>1, <3>3 DEF Activations
  <2>2. /\ Call(a, "done", files[Jar] = "Good", files, next)
        /\ (files[Jar] = "Good") \in BOOLEAN
    BY <1>26 DEF Reverify, Exists
  <2>3. r.pc = "done"
    BY <2>2 DEF Call
  <2>4. files[Jar] = "Good" => Relies(files, a, next)
    BY <1>2, <2>1, <2>3 DEF Relies, Uploaded, Replacing, Kept
  <2>5. CopySafe(files, a, r)
    BY <1>2 DEF Relies, Replacing, CopySafe
  <2>6. QED
    BY <1>1, <1>2, <2>1, <2>2, <2>4, <2>5, CallKeeps
<1>27. CASE StartServer(a)
  <2> DEFINE next == [Goto(a, "started") EXCEPT !.ran = files[Jar]]
  <2>1. next \in Activations /\ next.pc \in {"started"} /\ next.prior = r.prior
    <3>1. /\ Goto(a, "started") \in Activations /\ Goto(a, "started").pc = "started"
          /\ Goto(a, "started").prior = r.prior
      BY <1>4 DEF Steps
    <3>2. QED
      BY <3>1, <1>1 DEF Activations
  <2>2. Call(a, "admitted", TRUE, files, next)
    BY <1>27 DEF StartServer
  <2>3. r.pc = "admitted"
    BY <2>2 DEF Call
  <2>4. Relies(files, a, next)
    BY <1>2, <2>1, <2>3 DEF Relies, Uploaded, Replacing, Kept
  <2>5. CopySafe(files, a, r)
    BY <1>2 DEF Relies, Replacing, CopySafe
  <2>6. QED
    BY <1>1, <1>2, <2>1, <2>2, <2>4, <2>5, CallKeeps
<1>28. QED
  BY <1>5, <1>6, <1>7, <1>8, <1>9, <1>10, <1>11, <1>12, <1>13, <1>14, <1>15, <1>16, <1>17,
     <1>18, <1>19, <1>20, <1>21, <1>22, <1>23, <1>24, <1>25, <1>26, <1>27 DEF Activating

----------------------------------------------------------------------------

LEMMA VerifiedInit == JarInit => JarTypeOK /\ VerifiedInv
<1> SUFFICES ASSUME JarInit
             PROVE  JarTypeOK /\ VerifiedInv
  OBVIOUS
<1>1. Idle \in Activations
  BY DEF Idle, Activations, Steps, Content
<1>2. JarTypeOK
  <2>1. 0 \in 0..MaxFaults /\ 0 \in 0..MaxCrashes
    BY JarAssumption
  <2>2. run \in [Activation -> Activations]
    BY <1>1 DEF JarInit
  <2>3. files \in [Path -> Content] /\ initial \in Content
    BY DEF JarInit, Content
  <2>4. QED
    BY <2>1, <2>2, <2>3 DEF JarInit, JarTypeOK, Activations
<1>3. \A a \in Activation : run[a].prior = "None" /\ run[a].pc = "idle"
  BY DEF JarInit, Idle
<1>4. files[Jar] = initial
  BY DEF JarInit, Path
<1>5. VerifiedInv
  BY <1>3, <1>4 DEF VerifiedInv, Relies, Uploaded, Replacing, Kept
<1>6. QED
  BY <1>2, <1>5

LEMMA VerifiedStep == JarTypeOK /\ VerifiedInv /\ [JarNext]_jarVars => (JarTypeOK /\ VerifiedInv)'
<1> SUFFICES ASSUME JarTypeOK, VerifiedInv, [JarNext]_jarVars
             PROVE  JarTypeOK' /\ VerifiedInv'
  OBVIOUS
<1>1. CASE EditLocal
  BY <1>1 DEF EditLocal, JarTypeOK, VerifiedInv, Relies, Kept
<1>2. CASE \E a \in Activation : Activating(a)
  BY <1>2, ActivatingKeeps
<1>3. ASSUME NEW a \in Activation, Die(a)
      PROVE  JarTypeOK' /\ VerifiedInv'
  <2> DEFINE next == Goto(a, "dead")
  <2>1. run[a] \in Activations
    BY DEF JarTypeOK, Activations
  <2>2. next \in Activations /\ next.pc = "dead" /\ next.prior = run[a].prior
    BY <2>1 DEF Goto, Activations, Steps
  <2>3. crashes' \in 0..MaxCrashes
    <3>1. crashes < MaxCrashes /\ crashes' = crashes + 1 /\ crashes \in 0..MaxCrashes
      BY <1>3 DEF Die, JarTypeOK
    <3>2. MaxCrashes \in Nat
      BY JarAssumption
    <3>3. QED
      BY <3>1, <3>2
  <2>4. /\ run' = [run EXCEPT ![a] = next] /\ UNCHANGED <<files, initial, local, faults>>
        /\ local \in {"Good", "Bad"}
    BY <1>3 DEF Die, Set, JarTypeOK
  <2>5. "dead" \notin Uploaded \cup Replacing
    BY DEF Uploaded, Replacing
  <2>6. QED
    BY <2>2, <2>3, <2>4, <2>5, QuietKeeps
<1>4. CASE UNCHANGED jarVars
  BY <1>4 DEF jarVars, JarTypeOK, VerifiedInv, Relies, Kept
<1>5. QED
  BY <1>1, <1>2, <1>3, <1>4 DEF JarNext

\* Nothing that was not hashed to the pinned value is ever put at the path the
\* server is started from: for every number of concurrent activations, of refused
\* and lost calls and of processes that die half-way (ensureServerJARWith).
THEOREM NothingUnverified == JarSpec => []OnlyVerified
<1>1. JarTypeOK /\ VerifiedInv => OnlyVerified
  BY DEF VerifiedInv, Kept, OnlyVerified
<1>2. QED
  BY <1>1, VerifiedInit, VerifiedStep, PTL DEF JarSpec

----------------------------------------------------------------------------
(* What an activation owns, and what it leaves behind.                      *)

TempGone == {"idle", "prepare", "inspect", "create", "verify", "removeBad", "dropBackup",
             "done", "failed", "admitted", "started"}

Before == {"prepare", "inspect", "create", "transfer", "verifyTemp", "backup"}
Forward == Before \cup {"copyBackup", "checkBackup", "removePrior", "rename", "verify"}

NoCopy == Before \cup {"idle", "done", "admitted", "started"}
Copying == {"copyBackup", "checkBackup", "undoBackup"}
Owned == {"removePrior", "rename", "verify", "dropBackup", "removeBad", "restore"}
HasPrior == Copying \cup {"backup", "removePrior"}

\* The stages after which a copy may have to stay where it is.
LateStage == {"activate", "verify_activated"}

\* The files of activation a, in state r, when none of its calls has gone astray:
\* an upload that exists is owned, and so is a copy, except while it is being made
\* and after it could not be put back.
Shape(f, a, r) ==
    /\ r.pc \in TempGone => f[Temp(a)] = "None"
    /\ f[Temp(a)] # "None" => r.ownTemp
    /\ r.pc \in NoCopy => f[Backup(a)] = "None" /\ ~r.ownBackup
    /\ r.pc \in Copying => f[Backup(a)] # "None" /\ ~r.ownBackup
    /\ r.pc \in Owned => (f[Backup(a)] # "None" <=> r.ownBackup)
    /\ r.pc = "cleanBackup" /\ f[Backup(a)] # "None" => r.ownBackup \/ r.stage \in LateStage
    /\ r.pc \in {"cleanTemp", "failed"} /\ f[Backup(a)] # "None" => r.stage \in LateStage
    /\ r.pc \in {"removeBad", "restore"} => r.stage \in LateStage
    /\ r.pc \in Forward \cup {"idle"} => r.stage = ""
    /\ r.prior = "None" => f[Backup(a)] = "None"
    /\ r.pc \in HasPrior => r.prior # "None"
    /\ r.pc = "transfer" => f[Temp(a)] # "None"

Tidy(f, a, r) == r.hit \/ r.pc = "dead" \/ (r.up /\ Shape(f, a, r))

\* The inductive strengthening of NoLitter.
TidyInv == \A a \in Activation : Tidy(files, a, run[a])

Ended == {"done", "failed", "dead", "admitted", "started"}

\* The steps from which an activation does not touch the fixed path while the
\* pinned file is there.
Harmless == Ended \cup {"idle", "prepare", "inspect", "undoBackup", "cleanBackup", "cleanTemp"}

\* Activation a, in state r, was admitted when no other one was replacing the
\* file: none can be, until the server has been started.
Pinned(f, a, r) ==
    /\ r.prior = "Good" => r.pc \in Ended
    /\ r.pc = "admitted" /\ r.alone => f[Jar] = "Good"
    /\ r.pc = "started" /\ r.alone => r.ran = "Good"

\* The inductive strengthening of RunsPinned.
PinnedInv ==
    /\ \A a \in Activation : Pinned(files, a, run[a])
    /\ \A a, b \in Activation :
          run[a].pc = "admitted" /\ run[a].alone /\ b # a => run[b].pc \in Harmless

\* What a step of activation a may do to the fixed path, whose content becomes
\* jar, and to the activation, whose state becomes q.
SafeMove(jar, a, q) ==
    /\ q.prior = "Good" => q.pc \in Ended
    /\ run[a].pc \in Harmless /\ files[Jar] = "Good" => q.pc \in Harmless /\ jar = "Good"
    /\ q.pc = "admitted" => files[Jar] = "Good" /\ jar = "Good" /\ (q.alone => Alone(a))
    /\ q.pc = "started" => run[a].pc = "admitted" /\ q.alone = run[a].alone /\ q.ran = files[Jar]

\* What a remote call makes of an activation: its effect, or a failure that is
\* either a refusal without effect or a call gone astray.
LEMMA CallOutcome ==
    ASSUME JarTypeOK, NEW a \in Activation, NEW s, NEW able \in BOOLEAN, NEW after, NEW next,
           Call(a, s, able, after, next)
    PROVE  \E q :
              /\ run' = [run EXCEPT ![a] = q]
              /\ \/ able /\ run[a].up /\ files' = after /\ q = next
                 \/ /\ q.pc = OnFailure[s] /\ q.prior = run[a].prior
                    /\ files' = files \/ (able /\ files' = after)
                    /\ \/ q.hit
                       \/ files' = files /\ q = Failed(run[a]) /\ (~run[a].up \/ ~able)
<1> DEFINE Lost == Failed(run[a])
<1>1. run[a] \in Activations /\ run[a].pc = s
  BY DEF JarTypeOK, Activations, Call
<1>2. Lost \in Activations /\ Lost.pc = OnFailure[s] /\ Lost.prior = run[a].prior
  BY <1>1, FailedType
<1>3. CASE run[a].up /\ able /\ files' = after /\ Set(a, next)
  BY <1>3 DEF Set
<1>4. CASE (~run[a].up \/ ~able) /\ files' = files /\ Set(a, Lost)
  BY <1>2, <1>4 DEF Set
<1>5. CASE files' = files /\ Set(a, [Lost EXCEPT !.hit = TRUE])
  <2> DEFINE q == [Lost EXCEPT !.hit = TRUE]
  <2>1. q.hit /\ q.pc = Lost.pc /\ q.prior = Lost.prior
    BY <1>2 DEF Activations
  <2>2. QED
    BY <1>2, <1>5, <2>1 DEF Set
<1>6. CASE files' \in {files, IF able THEN after ELSE files}
           /\ Set(a, [Lost EXCEPT !.hit = TRUE, !.up = FALSE])
  <2> DEFINE q == [Lost EXCEPT !.hit = TRUE, !.up = FALSE]
  <2>1. q.hit /\ q.pc = Lost.pc /\ q.prior = Lost.prior
    BY <1>2 DEF Activations
  <2>2. QED
    BY <1>2, <1>6, <2>1 DEF Set
<1>7. QED
  BY <1>3, <1>4, <1>5, <1>6 DEF Call

\* A refused call leaves the activation's files to the clean-up, unless the call
\* was the clean-up's own.
LEMMA FailureTidy ==
    ASSUME NEW f, NEW a, NEW r \in Activations, Shape(f, a, r),
           r.pc \in Forward \cup {"removeBad", "restore", "dropBackup", "done", "admitted"}
    PROVE  Shape(f, a, Failed(r))
<1> DEFINE q == Failed(r)
<1>1. /\ q.pc = OnFailure[r.pc] /\ q.prior = r.prior /\ q.ownTemp = r.ownTemp
      /\ q.ownBackup <=> r.ownBackup /\ r.pc # "restore"
      /\ q.stage = IF r.stage = "" THEN StageOf[r.pc] ELSE r.stage
  BY DEF Failed, Activations
<1> SUFFICES Shape(f, a, q)
  OBVIOUS
<1> HIDE DEF q
<1>2. CASE r.pc \in {"prepare", "inspect", "create", "transfer", "verifyTemp", "backup",
                     "removePrior", "dropBackup"}
  <2>1. q.pc = "cleanBackup" /\ (q.ownBackup <=> r.ownBackup)
    BY <1>1, <1>2 DEF OnFailure, Steps
  <2>2. f[Backup(a)] # "None" => r.ownBackup
    BY <1>2 DEF Shape, NoCopy, Before, Owned
  <2>3. QED
    BY <1>1, <2>1, <2>2 DEF Shape,
           TempGone, Before, Forward, NoCopy, Copying, Owned, HasPrior, LateStage
<1>3. CASE r.pc \in {"copyBackup", "checkBackup"}
  <2>1. q.pc = "undoBackup" /\ (q.ownBackup <=> r.ownBackup)
    BY <1>1, <1>3 DEF OnFailure, Steps
  <2>2. QED
    BY <1>1, <1>3, <2>1 DEF Shape,
           TempGone, Before, Forward, NoCopy, Copying, Owned, HasPrior, LateStage
<1>4. CASE r.pc \in {"rename", "verify", "removeBad"}
  <2>1. /\ q.pc = IF r.pc = "verify" THEN "removeBad" ELSE "restore"
        /\ (q.ownBackup <=> r.ownBackup)
    BY <1>1, <1>4 DEF OnFailure, Steps
  <2>2. q.stage \in LateStage
    <3>1. r.pc \in {"rename", "verify"} => StageOf[r.pc] \in LateStage
      BY DEF StageOf, Steps, LateStage
    <3>2. r.pc = "removeBad" => r.stage # ""
      BY DEF Shape, LateStage
    <3>3. r.pc \in {"rename", "verify"} => r.stage = ""
      BY DEF Shape, Forward
    <3>4. r.pc = "removeBad" => r.stage \in LateStage
      BY DEF Shape
    <3>5. QED
      BY <1>1, <1>4, <3>1, <3>2, <3>3, <3>4
  <2>3. QED
    BY <1>1, <1>4, <2>1, <2>2 DEF Shape,
           TempGone, Before, Forward, NoCopy, Copying, Owned, HasPrior, LateStage
<1>5. CASE r.pc = "restore"
  <2>1. q.pc = "cleanBackup" /\ ~q.ownBackup
    BY <1>1, <1>5 DEF OnFailure, Steps
  <2>2. q.stage \in LateStage
    BY <1>1, <1>5 DEF Shape, LateStage
  <2>3. QED
    BY <1>1, <1>5, <2>1, <2>2 DEF Shape,
           TempGone, Before, Forward, NoCopy, Copying, Owned, HasPrior, LateStage
<1>6. CASE r.pc \in {"done", "admitted"}
  <2>1. q.pc = "failed" /\ (q.ownBackup <=> r.ownBackup)
    BY <1>1, <1>6 DEF OnFailure, Steps
  <2>2. QED
    BY <1>1, <1>6, <2>1 DEF Shape,
           TempGone, Before, Forward, NoCopy, Copying, Owned, HasPrior, LateStage
<1>7. QED
  BY <1>2, <1>3, <1>4, <1>5, <1>6 DEF Forward, Before

\* A step of one activation keeps both invariants if it is tidy and a safe move.
LEMMA MoveSettles ==
    ASSUME JarTypeOK, TidyInv, PinnedInv, NEW a \in Activation, NEW q,
           run' = [run EXCEPT ![a] = q],
           \A p \in Path \ {Jar, Temp(a), Backup(a)} : files'[p] = files[p],
           Tidy(files', a, q), SafeMove(files'[Jar], a, q)
    PROVE  TidyInv' /\ PinnedInv'
<1>1. run \in [Activation -> Activations]
  BY DEF JarTypeOK, Activations
<1>2. run'[a] = q /\ \A b \in Activation \ {a} : run'[b] = run[b]
  BY <1>1
<1>3. \A b \in Activation : Tidy(files', b, run'[b])
  <2> SUFFICES ASSUME NEW b \in Activation, b # a
               PROVE  Tidy(files', b, run'[b])
    BY <1>2
  <2>1. /\ Temp(b) \in Path \ {Jar, Temp(a), Backup(a)}
        /\ Backup(b) \in Path \ {Jar, Temp(a), Backup(a)}
    BY PathsDiffer, PathsExist
  <2>2. files'[Temp(b)] = files[Temp(b)] /\ files'[Backup(b)] = files[Backup(b)]
    BY <2>1
  <2>3. Tidy(files, b, run[b]) /\ run'[b] = run[b]
    BY <1>2 DEF TidyInv
  <2>4. QED
    BY <2>2, <2>3 DEF Tidy, Shape
<1>4. \A b \in Activation : run[b].prior = "Good" => run[b].pc \in Ended
  BY DEF PinnedInv, Pinned
<1>5. run[a].pc = "admitted" => run[a].pc \in Harmless
  BY DEF Harmless, Ended
<1>6. Pinned(files', a, q)
  <2>1. q.pc = "started" /\ q.alone => files[Jar] = "Good"
    BY DEF SafeMove, PinnedInv, Pinned
  <2>2. QED
    BY <2>1 DEF SafeMove, Pinned
<1>7. ASSUME NEW b \in Activation, b # a, run[b].pc = "admitted", run[b].alone
      PROVE  files'[Jar] = "Good" /\ q.pc \in Harmless
  <2>1. run[a].pc \in Harmless /\ files[Jar] = "Good"
    BY <1>7 DEF PinnedInv, Pinned
  <2>2. QED
    BY <2>1 DEF SafeMove
<1>8. \A b \in Activation \ {a} : Pinned(files', b, run[b])
  BY <1>7 DEF PinnedInv, Pinned
<1>9. ASSUME q.pc = "admitted", q.alone, NEW b \in Activation, b # a
      PROVE  run[b].pc \in Harmless
  <2>1. Alone(a)
    BY <1>9 DEF SafeMove
  <2>2. QED
    BY <2>1, <1>4, <1>9 DEF Alone, Harmless, Ended
<1>10. \A b, c \in Activation :
          run'[b].pc = "admitted" /\ run'[b].alone /\ c # b => run'[c].pc \in Harmless
  BY <1>2, <1>7, <1>9 DEF PinnedInv
<1>11. \A b \in Activation : Pinned(files', b, run'[b])
  BY <1>2, <1>6, <1>8
<1>12. QED
  BY <1>3, <1>10, <1>11 DEF TidyInv, PinnedInv, Tidy, Shape, Pinned

\* A remote call keeps both invariants if its effect does, and if it is not a
\* clean-up that the server may refuse.
LEMMA CallSettles ==
    ASSUME JarTypeOK, TidyInv, PinnedInv, NEW a \in Activation, NEW s \in Steps,
           NEW able \in BOOLEAN, NEW after, NEW next, Call(a, s, able, after, next),
           s \notin {"idle", "failed", "dead", "started"},
           next.hit = run[a].hit /\ next.up = run[a].up,
           able => \A p \in Path \ {Jar, Temp(a), Backup(a)} : after[p] = files[p],
           able => SafeMove(after[Jar], a, next),
           able /\ Shape(files, a, run[a]) => Shape(after, a, next),
           s \in {"undoBackup", "cleanBackup", "cleanTemp"} /\ Shape(files, a, run[a]) => able
    PROVE  TidyInv' /\ PinnedInv'
<1> DEFINE r == run[a]
<1>1. r \in Activations /\ r.pc = s
  BY DEF JarTypeOK, Activations, Call
<1>2. PICK q : 
        /\ run' = [run EXCEPT ![a] = q]
        /\ \/ able /\ r.up /\ files' = after /\ q = next
           \/ /\ q.pc = OnFailure[s] /\ q.prior = r.prior
              /\ files' = files \/ (able /\ files' = after)
              /\ \/ q.hit
                 \/ files' = files /\ q = Failed(r) /\ (~r.up \/ ~able)
  BY CallOutcome
<1>3. Tidy(files, a, r) /\ r.pc # "dead"
  BY <1>1 DEF TidyInv
<1>4. Tidy(files', a, q)
  <2>1. CASE able /\ files' = after /\ q = next
    BY <1>3, <2>1 DEF Tidy
  <2>2. CASE q.hit
    BY <2>2 DEF Tidy
  <2>3. CASE files' = files /\ q = Failed(r) /\ (~r.up \/ ~able)
    <3>1. q.hit = r.hit /\ q.up = r.up
      BY <1>1, <2>3 DEF Failed, Activations
    <3>2. CASE r.hit
      BY <3>1, <3>2 DEF Tidy
    <3>3. CASE ~r.hit
      <4>1. r.up /\ Shape(files, a, r) /\ ~able
        BY <1>3, <2>3, <3>3 DEF Tidy
      <4>2. r.pc \in Forward \cup {"removeBad", "restore", "dropBackup", "done", "admitted"}
        BY <1>1, <4>1 DEF Steps, Forward, Before
      <4>3. Shape(files, a, q)
        BY <1>1, <2>3, <4>1, <4>2, FailureTidy
      <4>4. QED
        BY <2>3, <3>1, <4>1, <4>3 DEF Tidy
    <3>4. QED
      BY <3>2, <3>3
  <2>4. QED
    BY <1>2, <2>1, <2>2, <2>3
<1>5. SafeMove(files'[Jar], a, q)
  <2>1. CASE able /\ files' = after /\ q = next
    BY <2>1
  <2>2. CASE q.pc = OnFailure[s] /\ q.prior = r.prior /\ (files' = files \/ (able /\ files' = after))
    <3>1. OnFailure[s] \notin {"admitted", "started"}
      BY DEF OnFailure
    <3>2. s \in Ended => OnFailure[s] \in Ended
      BY DEF OnFailure, Ended
    <3>3. s \in Harmless => OnFailure[s] \in Harmless
      BY DEF OnFailure, Ended, Harmless
    <3>4. r.prior = "Good" => r.pc \in Ended
      BY DEF PinnedInv, Pinned
    <3>5. s \in Harmless /\ files[Jar] = "Good" => files'[Jar] = "Good"
      BY <1>1, <2>2 DEF SafeMove
    <3>6. QED
      BY <1>1, <2>2, <3>1, <3>2, <3>3, <3>4, <3>5 DEF SafeMove
  <2>3. QED
    BY <1>2, <2>1, <2>2
<1>6. \A p \in Path \ {Jar, Temp(a), Backup(a)} : files'[p] = files[p]
  BY <1>2
<1>7. QED
  BY <1>2, <1>4, <1>5, <1>6, MoveSettles

\* A step without a remote call keeps both invariants if it is tidy and a safe move.
LEMMA QuietSettles ==
    ASSUME JarTypeOK, TidyInv, PinnedInv, NEW a \in Activation, NEW next,
           run' = [run EXCEPT ![a] = next], files' = files,
           run[a].pc # "dead", next.hit = run[a].hit /\ next.up = run[a].up,
           Shape(files, a, run[a]) => next.pc = "dead" \/ Shape(files, a, next),
           SafeMove(files[Jar], a, next)
    PROVE  TidyInv' /\ PinnedInv'
<1>1. Tidy(files', a, next)
  BY DEF TidyInv, Tidy
<1>2. QED
  BY <1>1, MoveSettles

\* Every step of an activation keeps both invariants.
LEMMA ActivatingSettles ==
    ASSUME JarTypeOK, TidyInv, PinnedInv, NEW a \in Activation, Activating(a)
    PROVE  TidyInv' /\ PinnedInv'
<1> DEFINE r == run[a]
<1>1. /\ run \in [Activation -> Activations] /\ r \in Activations
      /\ files \in [Path -> Content] /\ local \in {"Good", "Bad"}
      /\ Jar \in Path /\ Temp(a) \in Path /\ Backup(a) \in Path
  BY PathsExist DEF JarTypeOK, Activations
<1>2. Temp(a) # Jar /\ Backup(a) # Jar /\ Temp(a) # Backup(a)
  BY PathsDiffer
<1>3. \A s \in Steps :
        LET q == Goto(a, s)
        IN  /\ q \in Activations /\ q.pc = s /\ q.prior = r.prior /\ q.ownTemp = r.ownTemp
            /\ q.ownBackup = r.ownBackup /\ q.stage = r.stage /\ q.hit = r.hit /\ q.up = r.up
  BY <1>1 DEF Goto, Activations
<1>4. r.prior = "Good" => r.pc \in Ended
  BY DEF PinnedInv, Pinned
<1>5. CASE Prepare(a)
  <2> DEFINE next == Goto(a, "inspect")
  <2>1. /\ next.pc = "inspect" /\ next.prior = r.prior
        /\ next.ownTemp = r.ownTemp /\ next.ownBackup = r.ownBackup /\ next.stage = r.stage
        /\ next.hit = r.hit /\ next.up = r.up
    BY <1>3 DEF Steps
  <2>2. Call(a, "prepare", TRUE, files, next) /\ r.pc = "prepare"
    BY <1>5 DEF Prepare, Call
  <2> HIDE DEF next
  <2>4. Shape(files, a, r) => Shape(files, a, next)
    BY <1>1, <2>1, <2>2 DEF Exists, Shape,
           TempGone, Before, Forward, NoCopy, Copying, Owned, HasPrior, LateStage
  <2>5. SafeMove(files[Jar], a, next)
    BY <1>4, <2>1, <2>2 DEF SafeMove, Harmless, Ended
  <2>7. "prepare" \in Steps
    BY DEF Steps
  <2>8. QED
    BY <2>1, <2>2, <2>4, <2>5, <2>7, CallSettles
<1>6. CASE Inspect(a)
  <2> DEFINE next == IF files[Jar] = "Good"
                     THEN [Goto(a, "done") EXCEPT !.prior = "Good", !.verified = TRUE]
                     ELSE [Goto(a, "create") EXCEPT !.prior = files[Jar]]
  <2>1. /\ next.pc = (IF files[Jar] = "Good" THEN "done" ELSE "create") /\ next.prior = files[Jar]
        /\ next.ownTemp = r.ownTemp /\ next.ownBackup = r.ownBackup /\ next.stage = r.stage
        /\ next.hit = r.hit /\ next.up = r.up
    <3>1. LET q == Goto(a, "done")
          IN  /\ q \in Activations /\ q.pc = "done" /\ q.prior = r.prior /\ q.ownTemp = r.ownTemp
              /\ q.ownBackup = r.ownBackup /\ q.stage = r.stage /\ q.hit = r.hit /\ q.up = r.up
      BY <1>3 DEF Steps
    <3>2. LET q == Goto(a, "create")
          IN  /\ q \in Activations /\ q.pc = "create" /\ q.prior = r.prior /\ q.ownTemp = r.ownTemp
              /\ q.ownBackup = r.ownBackup /\ q.stage = r.stage /\ q.hit = r.hit /\ q.up = r.up
      BY <1>3 DEF Steps
    <3>3. QED
      BY <3>1, <3>2 DEF Activations
  <2>2. Call(a, "inspect", files[Jar] # "Odd", files, next) /\ r.pc = "inspect"
    BY <1>6 DEF Inspect, Call
  <2> HIDE DEF next
  <2>4. files[Jar] # "Odd" /\ Shape(files, a, r) => Shape(files, a, next)
    BY <1>1, <2>1, <2>2 DEF Exists, Shape,
           TempGone, Before, Forward, NoCopy, Copying, Owned, HasPrior, LateStage
  <2>5. files[Jar] # "Odd" => SafeMove(files[Jar], a, next)
    BY <1>4, <2>1, <2>2 DEF SafeMove, Harmless, Ended
  <2>7. (files[Jar] # "Odd") \in BOOLEAN /\ "inspect" \in Steps
    BY DEF Steps
  <2>8. QED
    BY <2>1, <2>2, <2>4, <2>5, <2>7, CallSettles
<1>7. CASE CreateTemporary(a)
  <2> DEFINE next == [Goto(a, "transfer") EXCEPT !.ownTemp = TRUE]
             after == [files EXCEPT ![Temp(a)] = "Bad"]
  <2>1. /\ next.pc = "transfer" /\ next.prior = r.prior
        /\ next.ownTemp = TRUE /\ next.ownBackup = r.ownBackup /\ next.stage = r.stage
        /\ next.hit = r.hit /\ next.up = r.up
    <3>1. LET q == Goto(a, "transfer")
          IN  /\ q \in Activations /\ q.pc = "transfer" /\ q.prior = r.prior /\ q.ownTemp = r.ownTemp
              /\ q.ownBackup = r.ownBackup /\ q.stage = r.stage /\ q.hit = r.hit /\ q.up = r.up
      BY <1>3 DEF Steps
    <3>2. QED
      BY <3>1 DEF Activations
  <2>2. Call(a, "create", TRUE, after, next) /\ r.pc = "create"
    BY <1>7 DEF CreateTemporary, Call
  <2>3. /\ after[Temp(a)] = "Bad" /\ after[Backup(a)] = files[Backup(a)] /\ after[Jar] = files[Jar]
        /\ \A p \in Path \ {Jar, Temp(a), Backup(a)} : after[p] = files[p]
    BY <1>1, <1>2 DEF Moved, Without
  <2> HIDE DEF next, after
  <2>4. Shape(files, a, r) => Shape(after, a, next)
    BY <1>1, <2>1, <2>2, <2>3 DEF Exists, Shape,
           TempGone, Before, Forward, NoCopy, Copying, Owned, HasPrior, LateStage
  <2>5. SafeMove(after[Jar], a, next)
    BY <1>4, <2>1, <2>2, <2>3 DEF SafeMove, Harmless, Ended
  <2>7. "create" \in Steps
    BY DEF Steps
  <2>8. QED
    BY <2>1, <2>2, <2>3, <2>4, <2>5, <2>7, CallSettles
<1>8. CASE Transfer(a)
  <2> DEFINE next == Goto(a, "verifyTemp")
             after == [files EXCEPT ![Temp(a)] = local]
  <2>1. /\ next.pc = "verifyTemp" /\ next.prior = r.prior
        /\ next.ownTemp = r.ownTemp /\ next.ownBackup = r.ownBackup /\ next.stage = r.stage
        /\ next.hit = r.hit /\ next.up = r.up
    BY <1>3 DEF Steps
  <2>2. Call(a, "transfer", TRUE, after, next) /\ r.pc = "transfer"
    BY <1>8 DEF Transfer, Call
  <2>3. /\ after[Temp(a)] = local /\ after[Backup(a)] = files[Backup(a)] /\ after[Jar] = files[Jar]
        /\ \A p \in Path \ {Jar, Temp(a), Backup(a)} : after[p] = files[p]
    BY <1>1, <1>2 DEF Moved, Without
  <2> HIDE DEF next, after
  <2>4. Shape(files, a, r) => Shape(after, a, next)
    BY <1>1, <2>1, <2>2, <2>3 DEF Exists, Shape,
           TempGone, Before, Forward, NoCopy, Copying, Owned, HasPrior, LateStage
  <2>5. SafeMove(after[Jar], a, next)
    BY <1>4, <2>1, <2>2, <2>3 DEF SafeMove, Harmless, Ended
  <2>7. "transfer" \in Steps
    BY DEF Steps
  <2>8. QED
    BY <2>1, <2>2, <2>3, <2>4, <2>5, <2>7, CallSettles
<1>9. CASE VerifyTemporary(a)
  <2> DEFINE next == Goto(a, IF run[a].prior = "None" THEN "rename" ELSE "backup")
  <2>1. /\ next.pc = (IF r.prior = "None" THEN "rename" ELSE "backup") /\ next.prior = r.prior
        /\ next.ownTemp = r.ownTemp /\ next.ownBackup = r.ownBackup /\ next.stage = r.stage
        /\ next.hit = r.hit /\ next.up = r.up
    BY <1>3 DEF Steps
  <2>2. Call(a, "verifyTemp", files[Temp(a)] = "Good", files, next) /\ r.pc = "verifyTemp"
    BY <1>9 DEF VerifyTemporary, Call
  <2> HIDE DEF next
  <2>4. files[Temp(a)] = "Good" /\ Shape(files, a, r) => Shape(files, a, next)
    BY <1>1, <2>1, <2>2 DEF Exists, Shape,
           TempGone, Before, Forward, NoCopy, Copying, Owned, HasPrior, LateStage
  <2>5. files[Temp(a)] = "Good" => SafeMove(files[Jar], a, next)
    BY <1>4, <2>1, <2>2 DEF SafeMove, Harmless, Ended
  <2>7. (files[Temp(a)] = "Good") \in BOOLEAN /\ "verifyTemp" \in Steps
    BY DEF Steps
  <2>8. QED
    BY <2>1, <2>2, <2>4, <2>5, <2>7, CallSettles
<1>10. CASE CreateBackup(a)
  <2> DEFINE next == Goto(a, "copyBackup")
             after == [files EXCEPT ![Backup(a)] = "Bad"]
  <2>1. /\ next.pc = "copyBackup" /\ next.prior = r.prior
        /\ next.ownTemp = r.ownTemp /\ next.ownBackup = r.ownBackup /\ next.stage = r.stage
        /\ next.hit = r.hit /\ next.up = r.up
    BY <1>3 DEF Steps
  <2>2. Call(a, "backup", files[Jar] \notin {"None", "Odd"}, after, next) /\ r.pc = "backup"
    BY <1>10 DEF CreateBackup, Call
  <2>3. /\ after[Backup(a)] = "Bad" /\ after[Temp(a)] = files[Temp(a)] /\ after[Jar] = files[Jar]
        /\ \A p \in Path \ {Jar, Temp(a), Backup(a)} : after[p] = files[p]
    BY <1>1, <1>2 DEF Moved, Without
  <2> HIDE DEF next, after
  <2>4. files[Jar] \notin {"None", "Odd"} /\ Shape(files, a, r) => Shape(after, a, next)
    BY <1>1, <2>1, <2>2, <2>3 DEF Exists, Shape,
           TempGone, Before, Forward, NoCopy, Copying, Owned, HasPrior, LateStage
  <2>5. files[Jar] \notin {"None", "Odd"} => SafeMove(after[Jar], a, next)
    BY <1>4, <2>1, <2>2, <2>3 DEF SafeMove, Harmless, Ended
  <2>7. (files[Jar] \notin {"None", "Odd"}) \in BOOLEAN /\ "backup" \in Steps
    BY DEF Steps
  <2>8. QED
    BY <2>1, <2>2, <2>3, <2>4, <2>5, <2>7, CallSettles
<1>11. CASE CopyBackup(a)
  <2> DEFINE next == Goto(a, "checkBackup")
             after == [files EXCEPT ![Backup(a)] = files[Jar]]
  <2>1. /\ next.pc = "checkBackup" /\ next.prior = r.prior
        /\ next.ownTemp = r.ownTemp /\ next.ownBackup = r.ownBackup /\ next.stage = r.stage
        /\ next.hit = r.hit /\ next.up = r.up
    BY <1>3 DEF Steps
  <2>2. Call(a, "copyBackup", files[Jar] \notin {"None", "Odd"}, after, next) /\ r.pc = "copyBackup"
    BY <1>11 DEF CopyBackup, Call
  <2>3. /\ after[Backup(a)] = files[Jar] /\ after[Temp(a)] = files[Temp(a)] /\ after[Jar] = files[Jar]
        /\ \A p \in Path \ {Jar, Temp(a), Backup(a)} : after[p] = files[p]
    BY <1>1, <1>2 DEF Moved, Without
  <2> HIDE DEF next, after
  <2>4. files[Jar] \notin {"None", "Odd"} /\ Shape(files, a, r) => Shape(after, a, next)
    BY <1>1, <2>1, <2>2, <2>3 DEF Exists, Shape,
           TempGone, Before, Forward, NoCopy, Copying, Owned, HasPrior, LateStage
  <2>5. files[Jar] \notin {"None", "Odd"} => SafeMove(after[Jar], a, next)
    BY <1>4, <2>1, <2>2, <2>3 DEF SafeMove, Harmless, Ended
  <2>7. (files[Jar] \notin {"None", "Odd"}) \in BOOLEAN /\ "copyBackup" \in Steps
    BY DEF Steps
  <2>8. QED
    BY <2>1, <2>2, <2>3, <2>4, <2>5, <2>7, CallSettles
<1>12. CASE CheckBackup(a)
  <2> DEFINE next == [Goto(a, "removePrior") EXCEPT !.ownBackup = TRUE]
  <2>1. /\ next.pc = "removePrior" /\ next.prior = r.prior
        /\ next.ownTemp = r.ownTemp /\ next.ownBackup = TRUE /\ next.stage = r.stage
        /\ next.hit = r.hit /\ next.up = r.up
    <3>1. LET q == Goto(a, "removePrior")
          IN  /\ q \in Activations /\ q.pc = "removePrior" /\ q.prior = r.prior /\ q.ownTemp = r.ownTemp
              /\ q.ownBackup = r.ownBackup /\ q.stage = r.stage /\ q.hit = r.hit /\ q.up = r.up
      BY <1>3 DEF Steps
    <3>2. QED
      BY <3>1 DEF Activations
  <2>2. Call(a, "checkBackup", files[Backup(a)] = run[a].prior, files, next) /\ r.pc = "checkBackup"
    BY <1>12 DEF CheckBackup, Call
  <2> HIDE DEF next
  <2>4. files[Backup(a)] = run[a].prior /\ Shape(files, a, r) => Shape(files, a, next)
    BY <1>1, <2>1, <2>2 DEF Exists, Shape,
           TempGone, Before, Forward, NoCopy, Copying, Owned, HasPrior, LateStage
  <2>5. files[Backup(a)] = run[a].prior => SafeMove(files[Jar], a, next)
    BY <1>4, <2>1, <2>2 DEF SafeMove, Harmless, Ended
  <2>7. (files[Backup(a)] = run[a].prior) \in BOOLEAN /\ "checkBackup" \in Steps
    BY DEF Steps
  <2>8. QED
    BY <2>1, <2>2, <2>4, <2>5, <2>7, CallSettles
<1>13. CASE UndoBackup(a)
  <2> DEFINE next == Goto(a, "cleanBackup")
             after == Without(Backup(a))
  <2>1. /\ next.pc = "cleanBackup" /\ next.prior = r.prior
        /\ next.ownTemp = r.ownTemp /\ next.ownBackup = r.ownBackup /\ next.stage = r.stage
        /\ next.hit = r.hit /\ next.up = r.up
    BY <1>3 DEF Steps
  <2>2. Call(a, "undoBackup", Exists(Backup(a)), after, next) /\ r.pc = "undoBackup"
    BY <1>13 DEF UndoBackup, Call
  <2>3. /\ after[Backup(a)] = "None" /\ after[Temp(a)] = files[Temp(a)] /\ after[Jar] = files[Jar]
        /\ \A p \in Path \ {Jar, Temp(a), Backup(a)} : after[p] = files[p]
    BY <1>1, <1>2 DEF Moved, Without
  <2> HIDE DEF next, after
  <2>4. Exists(Backup(a)) /\ Shape(files, a, r) => Shape(after, a, next)
    BY <1>1, <2>1, <2>2, <2>3 DEF Exists, Shape,
           TempGone, Before, Forward, NoCopy, Copying, Owned, HasPrior, LateStage
  <2>5. Exists(Backup(a)) => SafeMove(after[Jar], a, next)
    BY <1>4, <2>1, <2>2, <2>3 DEF SafeMove, Harmless, Ended
  <2>6. Shape(files, a, r) => Exists(Backup(a))
    BY <2>2 DEF Shape, Copying, Exists
  <2>7. (Exists(Backup(a))) \in BOOLEAN /\ "undoBackup" \in Steps
    BY DEF Steps, Exists
  <2>8. QED
    BY <2>1, <2>2, <2>3, <2>4, <2>5, <2>6, <2>7, CallSettles
<1>14. CASE RemovePrior(a)
  <2> DEFINE next == Goto(a, "rename")
             after == Without(Jar)
  <2>1. /\ next.pc = "rename" /\ next.prior = r.prior
        /\ next.ownTemp = r.ownTemp /\ next.ownBackup = r.ownBackup /\ next.stage = r.stage
        /\ next.hit = r.hit /\ next.up = r.up
    BY <1>3 DEF Steps
  <2>2. Call(a, "removePrior", Exists(Jar), after, next) /\ r.pc = "removePrior"
    BY <1>14 DEF RemovePrior, Call
  <2>3. /\ after[Temp(a)] = files[Temp(a)] /\ after[Backup(a)] = files[Backup(a)]
        /\ \A p \in Path \ {Jar, Temp(a), Backup(a)} : after[p] = files[p]
    BY <1>1, <1>2 DEF Moved, Without
  <2> HIDE DEF next, after
  <2>4. Exists(Jar) /\ Shape(files, a, r) => Shape(after, a, next)
    BY <1>1, <2>1, <2>2, <2>3 DEF Exists, Shape,
           TempGone, Before, Forward, NoCopy, Copying, Owned, HasPrior, LateStage
  <2>5. Exists(Jar) => SafeMove(after[Jar], a, next)
    BY <1>4, <2>1, <2>2, <2>3 DEF SafeMove, Harmless, Ended
  <2>7. (Exists(Jar)) \in BOOLEAN /\ "removePrior" \in Steps
    BY DEF Steps, Exists
  <2>8. QED
    BY <2>1, <2>2, <2>3, <2>4, <2>5, <2>7, CallSettles
<1>15. CASE Activate(a)
  <2> DEFINE next == [Goto(a, "verify") EXCEPT !.ownTemp = FALSE]
             after == Moved(Temp(a), Jar)
  <2>1. /\ next.pc = "verify" /\ next.prior = r.prior
        /\ next.ownTemp = FALSE /\ next.ownBackup = r.ownBackup /\ next.stage = r.stage
        /\ next.hit = r.hit /\ next.up = r.up
    <3>1. LET q == Goto(a, "verify")
          IN  /\ q \in Activations /\ q.pc = "verify" /\ q.prior = r.prior /\ q.ownTemp = r.ownTemp
              /\ q.ownBackup = r.ownBackup /\ q.stage = r.stage /\ q.hit = r.hit /\ q.up = r.up
      BY <1>3 DEF Steps
    <3>2. QED
      BY <3>1 DEF Activations
  <2>2. Call(a, "rename", Exists(Temp(a)) /\ ~Exists(Jar), after, next) /\ r.pc = "rename"
    BY <1>15 DEF Activate, Call
  <2>3. /\ after[Temp(a)] = "None" /\ after[Backup(a)] = files[Backup(a)]
        /\ \A p \in Path \ {Jar, Temp(a), Backup(a)} : after[p] = files[p]
    BY <1>1, <1>2 DEF Moved, Without
  <2> HIDE DEF next, after
  <2>4. Exists(Temp(a)) /\ ~Exists(Jar) /\ Shape(files, a, r) => Shape(after, a, next)
    BY <1>1, <2>1, <2>2, <2>3 DEF Exists, Shape,
           TempGone, Before, Forward, NoCopy, Copying, Owned, HasPrior, LateStage
  <2>5. Exists(Temp(a)) /\ ~Exists(Jar) => SafeMove(after[Jar], a, next)
    BY <1>4, <2>1, <2>2, <2>3 DEF SafeMove, Harmless, Ended
  <2>7. (Exists(Temp(a)) /\ ~Exists(Jar)) \in BOOLEAN /\ "rename" \in Steps
    BY DEF Steps, Exists
  <2>8. QED
    BY <2>1, <2>2, <2>3, <2>4, <2>5, <2>7, CallSettles
<1>16. CASE VerifyActivated(a)
  <2> DEFINE next == [Goto(a, IF run[a].ownBackup THEN "dropBackup" ELSE "done")
                        EXCEPT !.verified = TRUE]
  <2>1. /\ next.pc = (IF r.ownBackup THEN "dropBackup" ELSE "done") /\ next.prior = r.prior
        /\ next.ownTemp = r.ownTemp /\ next.ownBackup = r.ownBackup /\ next.stage = r.stage
        /\ next.hit = r.hit /\ next.up = r.up
    <3> DEFINE then == Goto(a, IF run[a].ownBackup THEN "dropBackup" ELSE "done")
    <3>1. (IF run[a].ownBackup THEN "dropBackup" ELSE "done") \in Steps
      BY DEF Steps
    <3>2. /\ then \in Activations /\ then.pc = (IF r.ownBackup THEN "dropBackup" ELSE "done")
          /\ then.prior = r.prior /\ then.ownTemp = r.ownTemp /\ then.ownBackup = r.ownBackup
          /\ then.stage = r.stage /\ then.hit = r.hit /\ then.up = r.up
      BY <3>1, <1>3
    <3>3. QED
      BY <3>2 DEF Activations
  <2>2. Call(a, "verify", files[Jar] = "Good", files, next) /\ r.pc = "verify"
    BY <1>16 DEF VerifyActivated, Call
  <2> HIDE DEF next
  <2>4. files[Jar] = "Good" /\ Shape(files, a, r) => Shape(files, a, next)
    BY <1>1, <2>1, <2>2 DEF Exists, Shape,
           TempGone, Before, Forward, NoCopy, Copying, Owned, HasPrior, LateStage
  <2>5. files[Jar] = "Good" => SafeMove(files[Jar], a, next)
    BY <1>4, <2>1, <2>2 DEF SafeMove, Harmless, Ended
  <2>7. (files[Jar] = "Good") \in BOOLEAN /\ "verify" \in Steps
    BY DEF Steps
  <2>8. QED
    BY <2>1, <2>2, <2>4, <2>5, <2>7, CallSettles
<1>17. CASE RemoveBad(a)
  <2> DEFINE next == Goto(a, "restore")
             after == Without(Jar)
  <2>1. /\ next.pc = "restore" /\ next.prior = r.prior
        /\ next.ownTemp = r.ownTemp /\ next.ownBackup = r.ownBackup /\ next.stage = r.stage
        /\ next.hit = r.hit /\ next.up = r.up
    BY <1>3 DEF Steps
  <2>2. Call(a, "removeBad", Exists(Jar), after, next) /\ r.pc = "removeBad"
    BY <1>17 DEF RemoveBad, Call
  <2>3. /\ after[Temp(a)] = files[Temp(a)] /\ after[Backup(a)] = files[Backup(a)]
        /\ \A p \in Path \ {Jar, Temp(a), Backup(a)} : after[p] = files[p]
    BY <1>1, <1>2 DEF Moved, Without
  <2> HIDE DEF next, after
  <2>4. Exists(Jar) /\ Shape(files, a, r) => Shape(after, a, next)
    BY <1>1, <2>1, <2>2, <2>3 DEF Exists, Shape,
           TempGone, Before, Forward, NoCopy, Copying, Owned, HasPrior, LateStage
  <2>5. Exists(Jar) => SafeMove(after[Jar], a, next)
    BY <1>4, <2>1, <2>2, <2>3 DEF SafeMove, Harmless, Ended
  <2>7. (Exists(Jar)) \in BOOLEAN /\ "removeBad" \in Steps
    BY DEF Steps, Exists
  <2>8. QED
    BY <2>1, <2>2, <2>3, <2>4, <2>5, <2>7, CallSettles
<1>18. CASE Restore(a) /\ r.prior # "None"
  <2> DEFINE next == [Goto(a, "cleanTemp") EXCEPT !.ownBackup = FALSE]
             after == Moved(Backup(a), Jar)
  <2>1. /\ next.pc = "cleanTemp" /\ next.prior = r.prior
        /\ next.ownTemp = r.ownTemp /\ next.ownBackup = FALSE /\ next.stage = r.stage
        /\ next.hit = r.hit /\ next.up = r.up
    <3>1. LET q == Goto(a, "cleanTemp")
          IN  /\ q \in Activations /\ q.pc = "cleanTemp" /\ q.prior = r.prior /\ q.ownTemp = r.ownTemp
              /\ q.ownBackup = r.ownBackup /\ q.stage = r.stage /\ q.hit = r.hit /\ q.up = r.up
      BY <1>3 DEF Steps
    <3>2. QED
      BY <3>1 DEF Activations
  <2>2. Call(a, "restore", Exists(Backup(a)) /\ ~Exists(Jar), after, next) /\ r.pc = "restore"
    BY <1>18 DEF Restore, Call
  <2>3. /\ after[Backup(a)] = "None" /\ after[Temp(a)] = files[Temp(a)]
        /\ \A p \in Path \ {Jar, Temp(a), Backup(a)} : after[p] = files[p]
    BY <1>1, <1>2 DEF Moved, Without
  <2> HIDE DEF next, after
  <2>4. Exists(Backup(a)) /\ ~Exists(Jar) /\ Shape(files, a, r) => Shape(after, a, next)
    BY <1>1, <1>18, <2>1, <2>2, <2>3 DEF Exists, Shape,
           TempGone, Before, Forward, NoCopy, Copying, Owned, HasPrior, LateStage
  <2>5. Exists(Backup(a)) /\ ~Exists(Jar) => SafeMove(after[Jar], a, next)
    BY <1>4, <2>1, <2>2, <2>3 DEF SafeMove, Harmless, Ended
  <2>7. (Exists(Backup(a)) /\ ~Exists(Jar)) \in BOOLEAN /\ "restore" \in Steps
    BY DEF Steps, Exists
  <2>8. QED
    BY <2>1, <2>2, <2>3, <2>4, <2>5, <2>7, CallSettles
<1>19. CASE DropBackup(a)
  <2> DEFINE next == [Goto(a, "done") EXCEPT !.ownBackup = FALSE]
             after == Without(Backup(a))
  <2>1. /\ next.pc = "done" /\ next.prior = r.prior
        /\ next.ownTemp = r.ownTemp /\ next.ownBackup = FALSE /\ next.stage = r.stage
        /\ next.hit = r.hit /\ next.up = r.up
    <3>1. LET q == Goto(a, "done")
          IN  /\ q \in Activations /\ q.pc = "done" /\ q.prior = r.prior /\ q.ownTemp = r.ownTemp
              /\ q.ownBackup = r.ownBackup /\ q.stage = r.stage /\ q.hit = r.hit /\ q.up = r.up
      BY <1>3 DEF Steps
    <3>2. QED
      BY <3>1 DEF Activations
  <2>2. Call(a, "dropBackup", Exists(Backup(a)), after, next) /\ r.pc = "dropBackup"
    BY <1>19 DEF DropBackup, Call
  <2>3. /\ after[Backup(a)] = "None" /\ after[Temp(a)] = files[Temp(a)] /\ after[Jar] = files[Jar]
        /\ \A p \in Path \ {Jar, Temp(a), Backup(a)} : after[p] = files[p]
    BY <1>1, <1>2 DEF Moved, Without
  <2> HIDE DEF next, after
  <2>4. Exists(Backup(a)) /\ Shape(files, a, r) => Shape(after, a, next)
    BY <1>1, <2>1, <2>2, <2>3 DEF Exists, Shape,
           TempGone, Before, Forward, NoCopy, Copying, Owned, HasPrior, LateStage
  <2>5. Exists(Backup(a)) => SafeMove(after[Jar], a, next)
    BY <1>4, <2>1, <2>2, <2>3 DEF SafeMove, Harmless, Ended
  <2>7. (Exists(Backup(a))) \in BOOLEAN /\ "dropBackup" \in Steps
    BY DEF Steps, Exists
  <2>8. QED
    BY <2>1, <2>2, <2>3, <2>4, <2>5, <2>7, CallSettles
<1>20. CASE CleanBackup(a) /\ r.ownBackup /\ Exists(Backup(a))
  <2> DEFINE next == Goto(a, "cleanTemp")
             after == Without(Backup(a))
  <2>1. /\ next.pc = "cleanTemp" /\ next.prior = r.prior
        /\ next.ownTemp = r.ownTemp /\ next.ownBackup = r.ownBackup /\ next.stage = r.stage
        /\ next.hit = r.hit /\ next.up = r.up
    BY <1>3 DEF Steps
  <2>2. Call(a, "cleanBackup", TRUE, after, next) /\ r.pc = "cleanBackup"
    BY <1>20 DEF CleanBackup, Call
  <2>3. /\ after[Backup(a)] = "None" /\ after[Temp(a)] = files[Temp(a)] /\ after[Jar] = files[Jar]
        /\ \A p \in Path \ {Jar, Temp(a), Backup(a)} : after[p] = files[p]
    BY <1>1, <1>2 DEF Moved, Without
  <2> HIDE DEF next, after
  <2>4. Shape(files, a, r) => Shape(after, a, next)
    BY <1>1, <1>20, <2>1, <2>2, <2>3 DEF Exists, Shape,
           TempGone, Before, Forward, NoCopy, Copying, Owned, HasPrior, LateStage
  <2>5. SafeMove(after[Jar], a, next)
    BY <1>4, <2>1, <2>2, <2>3 DEF SafeMove, Harmless, Ended
  <2>7. "cleanBackup" \in Steps
    BY DEF Steps
  <2>8. QED
    BY <2>1, <2>2, <2>3, <2>4, <2>5, <2>7, CallSettles
<1>21. CASE CleanTemp(a) /\ r.ownTemp /\ Exists(Temp(a))
  <2> DEFINE next == Goto(a, "failed")
             after == Without(Temp(a))
  <2>1. /\ next.pc = "failed" /\ next.prior = r.prior
        /\ next.ownTemp = r.ownTemp /\ next.ownBackup = r.ownBackup /\ next.stage = r.stage
        /\ next.hit = r.hit /\ next.up = r.up
    BY <1>3 DEF Steps
  <2>2. Call(a, "cleanTemp", TRUE, after, next) /\ r.pc = "cleanTemp"
    BY <1>21 DEF CleanTemp, Call
  <2>3. /\ after[Temp(a)] = "None" /\ after[Backup(a)] = files[Backup(a)] /\ after[Jar] = files[Jar]
        /\ \A p \in Path \ {Jar, Temp(a), Backup(a)} : after[p] = files[p]
    BY <1>1, <1>2 DEF Moved, Without
  <2> HIDE DEF next, after
  <2>4. Shape(files, a, r) => Shape(after, a, next)
    BY <1>1, <1>21, <2>1, <2>2, <2>3 DEF Exists, Shape,
           TempGone, Before, Forward, NoCopy, Copying, Owned, HasPrior, LateStage
  <2>5. SafeMove(after[Jar], a, next)
    BY <1>4, <2>1, <2>2, <2>3 DEF SafeMove, Harmless, Ended
  <2>7. "cleanTemp" \in Steps
    BY DEF Steps
  <2>8. QED
    BY <2>1, <2>2, <2>3, <2>4, <2>5, <2>7, CallSettles
<1>22. CASE Reverify(a)
  <2> DEFINE next == [Goto(a, "admitted") EXCEPT !.alone = Alone(a)]
  <2>1. /\ next.pc = "admitted" /\ next.prior = r.prior
        /\ next.ownTemp = r.ownTemp /\ next.ownBackup = r.ownBackup /\ next.stage = r.stage
        /\ next.hit = r.hit /\ next.up = r.up /\ next.alone = Alone(a)
    <3>1. LET q == Goto(a, "admitted")
          IN  /\ q \in Activations /\ q.pc = "admitted" /\ q.prior = r.prior /\ q.ownTemp = r.ownTemp
              /\ q.ownBackup = r.ownBackup /\ q.stage = r.stage /\ q.hit = r.hit /\ q.up = r.up
      BY <1>3 DEF Steps
    <3>2. QED
      BY <3>1 DEF Activations
  <2>2. Call(a, "done", files[Jar] = "Good", files, next) /\ r.pc = "done"
    BY <1>22 DEF Reverify, Call
  <2> HIDE DEF next
  <2>4. files[Jar] = "Good" /\ Shape(files, a, r) => Shape(files, a, next)
    BY <1>1, <2>1, <2>2 DEF Exists, Shape,
           TempGone, Before, Forward, NoCopy, Copying, Owned, HasPrior, LateStage
  <2>5. files[Jar] = "Good" => SafeMove(files[Jar], a, next)
    BY <1>4, <2>1, <2>2 DEF SafeMove, Harmless, Ended
  <2>7. (files[Jar] = "Good") \in BOOLEAN /\ "done" \in Steps
    BY DEF Steps
  <2>8. QED
    BY <2>1, <2>2, <2>4, <2>5, <2>7, CallSettles
<1>23. CASE StartServer(a)
  <2> DEFINE next == [Goto(a, "started") EXCEPT !.ran = files[Jar]]
  <2>1. /\ next.pc = "started" /\ next.prior = r.prior
        /\ next.ownTemp = r.ownTemp /\ next.ownBackup = r.ownBackup /\ next.stage = r.stage
        /\ next.hit = r.hit /\ next.up = r.up /\ next.alone = r.alone /\ next.ran = files[Jar]
    <3>1. LET q == Goto(a, "started")
          IN  /\ q \in Activations /\ q.pc = "started" /\ q.prior = r.prior /\ q.ownTemp = r.ownTemp
              /\ q.ownBackup = r.ownBackup /\ q.stage = r.stage /\ q.hit = r.hit /\ q.up = r.up
      BY <1>3 DEF Steps
    <3>2. Goto(a, "started").alone = r.alone
      BY <1>1 DEF Goto, Activations
    <3>3. QED
      BY <3>1, <3>2 DEF Activations
  <2>2. Call(a, "admitted", TRUE, files, next) /\ r.pc = "admitted"
    BY <1>23 DEF StartServer, Call
  <2> HIDE DEF next
  <2>4. Shape(files, a, r) => Shape(files, a, next)
    BY <1>1, <2>1, <2>2 DEF Exists, Shape,
           TempGone, Before, Forward, NoCopy, Copying, Owned, HasPrior, LateStage
  <2>5. SafeMove(files[Jar], a, next)
    BY <1>4, <2>1, <2>2 DEF SafeMove, Harmless, Ended
  <2>7. "admitted" \in Steps
    BY DEF Steps
  <2>8. QED
    BY <2>1, <2>2, <2>4, <2>5, <2>7, CallSettles
<1>24. CASE Begin(a)
  <2> DEFINE next == IF local = "Good" THEN Goto(a, "prepare") ELSE Goto(a, "failed")
  <2>1. /\ next.pc = (IF local = "Good" THEN "prepare" ELSE "failed") /\ next.prior = r.prior /\ next.ownTemp = r.ownTemp
        /\ next.ownBackup = r.ownBackup /\ next.stage = r.stage /\ next.hit = r.hit /\ next.up = r.up
    BY <1>3 DEF Steps
  <2>2. r.pc = "idle" /\ run' = [run EXCEPT ![a] = next] /\ files' = files
    BY <1>24 DEF Begin, Set
  <2> HIDE DEF next
  <2>3. Shape(files, a, r) => Shape(files, a, next)
    BY <1>1, <1>24, <2>1, <2>2 DEF Exists, Shape,
           TempGone, Before, Forward, NoCopy, Copying, Owned, HasPrior, LateStage
  <2>4. SafeMove(files[Jar], a, next)
    BY <1>4, <2>1, <2>2 DEF SafeMove, Harmless, Ended
  <2>5. QED
    BY <2>1, <2>2, <2>3, <2>4, QuietSettles
<1>25. CASE Restore(a) /\ r.prior = "None"
  <2> DEFINE next == [Goto(a, "cleanTemp") EXCEPT !.ownBackup = FALSE]
  <2>1. /\ next.pc = "cleanTemp" /\ next.prior = r.prior /\ next.ownTemp = r.ownTemp
        /\ next.ownBackup = FALSE /\ next.stage = r.stage /\ next.hit = r.hit /\ next.up = r.up
    <3>1. LET q == Goto(a, "cleanTemp")
          IN  /\ q \in Activations /\ q.pc = "cleanTemp" /\ q.prior = r.prior /\ q.ownTemp = r.ownTemp
              /\ q.ownBackup = r.ownBackup /\ q.stage = r.stage /\ q.hit = r.hit /\ q.up = r.up
      BY <1>3 DEF Steps
    <3>2. QED
      BY <3>1 DEF Activations
  <2>2. r.pc = "restore" /\ run' = [run EXCEPT ![a] = next] /\ files' = files
    BY <1>25 DEF Restore, Set
  <2> HIDE DEF next
  <2>3. Shape(files, a, r) => Shape(files, a, next)
    BY <1>1, <1>25, <2>1, <2>2 DEF Exists, Shape,
           TempGone, Before, Forward, NoCopy, Copying, Owned, HasPrior, LateStage
  <2>4. SafeMove(files[Jar], a, next)
    BY <1>4, <2>1, <2>2 DEF SafeMove, Harmless, Ended
  <2>5. QED
    BY <2>1, <2>2, <2>3, <2>4, QuietSettles
<1>26. CASE CleanBackup(a) /\ ~(r.ownBackup /\ Exists(Backup(a)))
  <2> DEFINE next == Goto(a, "cleanTemp")
  <2>1. /\ next.pc = "cleanTemp" /\ next.prior = r.prior /\ next.ownTemp = r.ownTemp
        /\ next.ownBackup = r.ownBackup /\ next.stage = r.stage /\ next.hit = r.hit /\ next.up = r.up
    BY <1>3 DEF Steps
  <2>2. r.pc = "cleanBackup" /\ run' = [run EXCEPT ![a] = next] /\ files' = files
    BY <1>26 DEF CleanBackup, Set
  <2> HIDE DEF next
  <2>3. Shape(files, a, r) => Shape(files, a, next)
    BY <1>1, <1>26, <2>1, <2>2 DEF Exists, Shape,
           TempGone, Before, Forward, NoCopy, Copying, Owned, HasPrior, LateStage
  <2>4. SafeMove(files[Jar], a, next)
    BY <1>4, <2>1, <2>2 DEF SafeMove, Harmless, Ended
  <2>5. QED
    BY <2>1, <2>2, <2>3, <2>4, QuietSettles
<1>27. CASE CleanTemp(a) /\ ~(r.ownTemp /\ Exists(Temp(a)))
  <2> DEFINE next == Goto(a, "failed")
  <2>1. /\ next.pc = "failed" /\ next.prior = r.prior /\ next.ownTemp = r.ownTemp
        /\ next.ownBackup = r.ownBackup /\ next.stage = r.stage /\ next.hit = r.hit /\ next.up = r.up
    BY <1>3 DEF Steps
  <2>2. r.pc = "cleanTemp" /\ run' = [run EXCEPT ![a] = next] /\ files' = files
    BY <1>27 DEF CleanTemp, Set
  <2> HIDE DEF next
  <2>3. Shape(files, a, r) => Shape(files, a, next)
    BY <1>1, <1>27, <2>1, <2>2 DEF Exists, Shape,
           TempGone, Before, Forward, NoCopy, Copying, Owned, HasPrior, LateStage
  <2>4. SafeMove(files[Jar], a, next)
    BY <1>4, <2>1, <2>2 DEF SafeMove, Harmless, Ended
  <2>5. QED
    BY <2>1, <2>2, <2>3, <2>4, QuietSettles
<1>28. QED
  BY <1>5, <1>6, <1>7, <1>8, <1>9, <1>10, <1>11, <1>12, <1>13, <1>14, <1>15, <1>16,
     <1>17, <1>18, <1>19, <1>20, <1>21, <1>22, <1>23, <1>24, <1>25, <1>26, <1>27 DEF Activating

LEMMA SettledInit == JarInit => TidyInv /\ PinnedInv
<1> SUFFICES ASSUME JarInit
             PROVE  TidyInv /\ PinnedInv
  OBVIOUS
<1>1. ASSUME NEW a \in Activation
      PROVE  /\ run[a] = Idle
             /\ files[Temp(a)] = "None" /\ files[Backup(a)] = "None"
  BY PathsDiffer, PathsExist DEF JarInit
<1>2. /\ Idle.pc = "idle" /\ Idle.prior = "None" /\ ~Idle.ownTemp /\ ~Idle.ownBackup
      /\ Idle.stage = "" /\ Idle.up
  BY DEF Idle
<1>3. TidyInv
  BY <1>1, <1>2 DEF TidyInv, Tidy, Shape,
         TempGone, Before, Forward, NoCopy, Copying, Owned, HasPrior, LateStage
<1>4. PinnedInv
  BY <1>1, <1>2 DEF PinnedInv, Pinned
<1>5. QED
  BY <1>3, <1>4

LEMMA SettledStep ==
    JarTypeOK /\ TidyInv /\ PinnedInv /\ [JarNext]_jarVars => (TidyInv /\ PinnedInv)'
<1> SUFFICES ASSUME JarTypeOK, TidyInv, PinnedInv, [JarNext]_jarVars
             PROVE  TidyInv' /\ PinnedInv'
  OBVIOUS
<1>1. CASE UNCHANGED <<files, run>>
  BY <1>1 DEF TidyInv, Tidy, Shape, PinnedInv, Pinned
<1>2. ASSUME NEW a \in Activation, Die(a)
      PROVE  TidyInv' /\ PinnedInv'
  <2> DEFINE next == Goto(a, "dead")
  <2>1. run[a] \in Activations
    BY DEF JarTypeOK, Activations
  <2>2. next.pc = "dead" /\ next.prior = run[a].prior /\ next.hit = run[a].hit /\ next.up = run[a].up
    BY <2>1 DEF Goto, Activations
  <2>3. run' = [run EXCEPT ![a] = next] /\ files' = files /\ run[a].pc # "dead"
    BY <1>2 DEF Die, Set
  <2> HIDE DEF next
  <2>4. SafeMove(files[Jar], a, next)
    BY <2>2 DEF SafeMove, Harmless, Ended
  <2>5. QED
    BY <2>2, <2>3, <2>4, QuietSettles
<1>3. QED
  BY <1>1, <1>2, ActivatingSettles DEF JarNext, EditLocal, jarVars

\* An activation that ends, with no call refused by the connection or lost, leaves
\* no upload behind, and a copy of the previous file only where it could not be put
\* back, whatever the other activations do and wherever they die (the deferred
\* functions of ensureServerJARWith).
THEOREM LeavesNothingBehind == JarSpec => []NoLitter
<1>1. TidyInv => NoLitter
  BY DEF TidyInv, Tidy, Shape, NoLitter, Exists, TempGone, Before, Forward, NoCopy, Copying, Owned, HasPrior, LateStage
<1>2. QED
  BY <1>1, VerifiedInit, VerifiedStep, SettledInit, SettledStep, PTL DEF JarSpec

\* The server that is started runs the pinned JAR, for every number of activations
\* that are admitted, fail, are lost or die meanwhile, unless one of them was already
\* replacing the file when the receipt was admitted (EnsuredServerJAR.Reverify,
\* startMapepireSession).
THEOREM StartsPinned == JarSpec => []RunsPinned
<1>1. PinnedInv => RunsPinned
  BY DEF PinnedInv, Pinned, RunsPinned
<1>2. QED
  BY <1>1, VerifiedInit, VerifiedStep, SettledInit, SettledStep, PTL DEF JarSpec

----------------------------------------------------------------------------
(* The previous file.  As long as nobody has verified the pinned file in    *)
(* its place, every removal of what is at the fixed path is paid for by a   *)
(* copy that no clean-up will delete: there are at least as many of those   *)
(* as activations that may still remove what they find there, and one more  *)
(* while the path is empty.                                                 *)

Early == {"idle", "prepare", "inspect", "create", "transfer", "verifyTemp", "backup"}
Admitted == {"dropBackup", "done", "admitted", "started"}

\* What activation a, in state r, knows of the previous file and of its copy.
Carries(f, a, r) ==
    /\ r.pc \in Early => f[Backup(a)] = "None"
    /\ r.pc \in {"backup", "copyBackup", "checkBackup", "removePrior"} => r.prior # "None"
    /\ r.pc \in Replacing /\ r.prior # "None" => f[Backup(a)] = "Old"
    /\ r.pc \notin Admitted
    /\ r.prior \in {"None", "Old"}

\* The copy is there, and no clean-up of its activation will reach it.
Keeps(f, a, r) ==
    /\ f[Backup(a)] = "Old"
    /\ \/ ~r.up
       \/ /\ r.pc \notin {"copyBackup", "checkBackup", "undoBackup", "removePrior"}
          /\ r.pc = "cleanBackup" => ~r.ownBackup

Keepers == {a \in Activation : Keeps(files, a, run[a])}

\* The activation may still remove whatever it finds at the fixed path.
Removing(r) == r.pc \in {"verify", "removeBad"}
Removers == {a \in Activation : Removing(run[a])}

Bit(condition) == IF condition THEN 1 ELSE 0

PriorWanted == initial = "Old" /\ \A a \in Activation : ~run[a].verified

\* The inductive strengthening of PriorKept.
Balance ==
    /\ \A a \in Activation : Carries(files, a, run[a])
    /\ IsFiniteSet(Keepers) /\ IsFiniteSet(Removers)
    /\ Cardinality(Removers) + Bit(files[Jar] = "None") <= Cardinality(Keepers)
    /\ files[Jar] = "Good" => Keepers # {}
PriorInv == PriorWanted => Balance

\* What activation a contributes to the balance, with the fixed path.
Weight(f, a, r) == Bit(Keeps(f, a, r)) - Bit(Removing(r)) - Bit(f[Jar] = "None")

\* What a step of activation a may do: the files become f and its state q.
PriorMove(f, a, q) ==
    /\ Carries(f, a, q)
    /\ Weight(f, a, q) >= Weight(files, a, run[a])
    /\ f[Jar] = "Good" => /\ files[Jar] \in {"None", "Good"}
                          /\ Keeps(files, a, run[a]) => Keeps(f, a, q)
    /\ \A b \in Activation \ {a} : f[Backup(b)] = files[Backup(b)]

\* What a failed call at step s leaves of the state of activation a.
LostAt(s, a, q) ==
    /\ q.pc = OnFailure[s] /\ q.prior = run[a].prior
    /\ q.verified = run[a].verified
    /\ q.ownBackup <=> (run[a].ownBackup /\ s # "restore")
    /\ q.up => run[a].up

\* Replacing one element of a set by itself or by nothing.
LEMMA OneLess ==
    ASSUME NEW S, IsFiniteSet(S), NEW T, NEW x, S \ {x} = T \ {x}
    PROVE  /\ IsFiniteSet(T)
           /\ Cardinality(S) \in Nat /\ Cardinality(T) \in Nat
           /\ Cardinality(T) - Bit(x \in T) = Cardinality(S) - Bit(x \in S)
<1>1. IsFiniteSet(S \ {x}) /\ Cardinality(S \ {x}) = Cardinality(S) - Bit(x \in S)
  BY FS_RemoveElement, FS_CardinalityType DEF Bit
<1>2. IsFiniteSet(T)
  <2>1. T \subseteq (T \ {x}) \cup {x}
    OBVIOUS
  <2>2. IsFiniteSet((T \ {x}) \cup {x})
    BY <1>1, FS_AddElement
  <2>3. QED
    BY <2>1, <2>2, FS_Subset
<1>3. Cardinality(T \ {x}) = Cardinality(T) - Bit(x \in T)
  BY <1>2, FS_RemoveElement, FS_CardinalityType DEF Bit
<1>4. Cardinality(S) \in Nat /\ Cardinality(T) \in Nat
  BY <1>2, FS_CardinalityType
<1>5. QED
  BY <1>1, <1>2, <1>3, <1>4 DEF Bit

\* A step that is such a move keeps the balance.
LEMMA MoveBalances ==
    ASSUME JarTypeOK, Balance, files[Jar] \in {"None", "Good", "Old"},
           NEW a \in Activation, NEW q, run' = [run EXCEPT ![a] = q],
           PriorMove(files', a, q)
    PROVE  Balance'
<1>1. run'[a] = q /\ \A b \in Activation \ {a} : run'[b] = run[b]
  BY DEF JarTypeOK
<1>2. \A b \in Activation \ {a} :
        /\ files'[Backup(b)] = files[Backup(b)]
        /\ Carries(files, b, run[b]) => Carries(files', b, run'[b])
        /\ Keeps(files', b, run'[b]) <=> Keeps(files, b, run[b])
        /\ Removing(run'[b]) <=> Removing(run[b])
  BY <1>1 DEF PriorMove, Carries, Keeps, Removing
<1>3. \A b \in Activation : Carries(files', b, run'[b])
  BY <1>1, <1>2 DEF PriorMove, Balance
<1>4. /\ Keepers \ {a} = Keepers' \ {a}
      /\ a \in Keepers <=> Keeps(files, a, run[a])
      /\ a \in Keepers' <=> Keeps(files', a, q)
  BY <1>1, <1>2 DEF Keepers
<1>5. /\ Removers \ {a} = Removers' \ {a}
      /\ a \in Removers <=> Removing(run[a])
      /\ a \in Removers' <=> Removing(q)
  BY <1>1, <1>2 DEF Removers
<1> DEFINE K == Cardinality(Keepers)
           L == Cardinality(Keepers')
           R == Cardinality(Removers)
           S == Cardinality(Removers')
<1>6. /\ IsFiniteSet(Keepers') /\ K \in Nat /\ L \in Nat
      /\ L - Bit(Keeps(files', a, q)) = K - Bit(Keeps(files, a, run[a]))
  <2>1. /\ IsFiniteSet(Keepers') /\ K \in Nat /\ L \in Nat
        /\ L - Bit(a \in Keepers') = K - Bit(a \in Keepers)
    BY <1>4, OneLess DEF Balance
  <2>2. /\ Bit(a \in Keepers') = Bit(Keeps(files', a, q))
        /\ Bit(a \in Keepers) = Bit(Keeps(files, a, run[a]))
    BY <1>4 DEF Bit
  <2>3. QED
    BY <2>1, <2>2
<1>7. /\ IsFiniteSet(Removers') /\ R \in Nat /\ S \in Nat
      /\ S - Bit(Removing(q)) = R - Bit(Removing(run[a]))
  <2>1. /\ IsFiniteSet(Removers') /\ R \in Nat /\ S \in Nat
        /\ S - Bit(a \in Removers') = R - Bit(a \in Removers)
    BY <1>5, OneLess DEF Balance
  <2>2. /\ Bit(a \in Removers') = Bit(Removing(q))
        /\ Bit(a \in Removers) = Bit(Removing(run[a]))
    BY <1>5 DEF Bit
  <2>3. QED
    BY <2>1, <2>2
<1>8. S + Bit(files'[Jar] = "None") <= L
  <2>1. R + Bit(files[Jar] = "None") <= K
    BY DEF Balance
  <2>2. Bit(Keeps(files', a, q)) - Bit(Removing(q)) - Bit(files'[Jar] = "None")
          >= Bit(Keeps(files, a, run[a])) - Bit(Removing(run[a])) - Bit(files[Jar] = "None")
    BY DEF PriorMove, Weight
  <2> HIDE DEF K, L, R, S
  <2>3. QED
    BY <1>6, <1>7, <2>1, <2>2 DEF Bit
<1>9. files'[Jar] = "Good" => Keepers' # {}
  <2> SUFFICES ASSUME files'[Jar] = "Good" PROVE Keepers' # {}
    OBVIOUS
  <2>1. Keepers # {}
    <3>1. CASE files[Jar] = "None"
      <4>1. R + 1 <= K
        BY <3>1 DEF Balance, Bit
      <4>2. K # 0
        BY <4>1, <1>6, <1>7
      <4>3. QED
        BY <4>2, FS_EmptySet
    <3>2. CASE files[Jar] = "Good"
      BY <3>2 DEF Balance
    <3>3. QED
      BY <3>1, <3>2 DEF PriorMove
  <2>2. PICK b : b \in Keepers
    BY <2>1
  <2>3. b = a => a \in Keepers'
    BY <2>2, <1>4 DEF PriorMove
  <2>4. b # a => b \in Keepers'
    BY <2>2, <1>4
  <2>5. QED
    BY <2>3, <2>4
<1>10. QED
  BY <1>3, <1>6, <1>7, <1>8, <1>9 DEF Balance

\* A failed call without effect is such a move.
LEMMA FailureBalances ==
    ASSUME JarTypeOK, NEW a \in Activation,
           NEW s \in Steps \ {"idle", "failed", "dead", "started"}, run[a].pc = s,
           files[Jar] \in {"None", "Good", "Old"}, Carries(files, a, run[a]),
           NEW q, LostAt(s, a, q), NEW f,
           f[Jar] = files[Jar], \A b \in Activation : f[Backup(b)] = files[Backup(b)]
    PROVE  PriorMove(f, a, q)
<1> DEFINE r == run[a]
<1>1. CASE s \in {"prepare", "inspect", "create", "transfer", "verifyTemp", "backup"}
  <2>1. q.pc = "cleanBackup" /\ f[Backup(a)] = "None"
    BY <1>1 DEF LostAt, OnFailure, Carries, Early
  <2>2. QED
    BY <1>1, <2>1 DEF LostAt, PriorMove, Carries, Weight, Bit, Keeps, Removing, Early, Replacing, Admitted
<1>2. CASE s \in {"copyBackup", "checkBackup"}
  <2>1. q.pc = "undoBackup"
    BY <1>2 DEF LostAt, OnFailure
  <2>2. QED
    BY <1>2, <2>1 DEF LostAt, PriorMove, Carries, Weight, Bit, Keeps, Removing, Early, Replacing, Admitted
<1>3. CASE s \in {"removePrior", "undoBackup"}
  <2>1. q.pc = "cleanBackup"
    BY <1>3 DEF LostAt, OnFailure
  <2>2. QED
    BY <1>3, <2>1 DEF LostAt, PriorMove, Carries, Weight, Bit, Keeps, Removing, Early, Replacing, Admitted
<1>4. CASE s \in {"rename", "verify", "removeBad"}
  <2>1. q.pc = IF s = "verify" THEN "removeBad" ELSE "restore"
    BY <1>4 DEF LostAt, OnFailure
  <2>2. QED
    BY <1>4, <2>1 DEF LostAt, PriorMove, Carries, Weight, Bit, Keeps, Removing, Early, Replacing, Admitted
<1>5. CASE s \in {"restore"}
  <2>1. q.pc = "cleanBackup" /\ ~q.ownBackup
    BY <1>5 DEF LostAt, OnFailure
  <2>2. QED
    BY <1>5, <2>1 DEF LostAt, PriorMove, Carries, Weight, Bit, Keeps, Removing, Early, Replacing, Admitted
<1>6. CASE s \in {"cleanBackup", "cleanTemp"}
  <2>1. q.pc = IF s = "cleanBackup" THEN "cleanTemp" ELSE "failed"
    BY <1>6 DEF LostAt, OnFailure
  <2>2. QED
    BY <1>6, <2>1 DEF LostAt, PriorMove, Carries, Weight, Bit, Keeps, Removing, Early, Replacing, Admitted
<1>7. QED
  <2>1. s \notin Admitted
    BY DEF Carries
  <2>2. QED
    BY <2>1, <1>1, <1>2, <1>3, <1>4, <1>5, <1>6 DEF Steps, Admitted

\* A remote call is such a move, or verifies the pinned file, if its effect does
\* and if an effect that is not reported does, too.
LEMMA CallBalances ==
    ASSUME JarTypeOK, NEW a \in Activation,
           NEW s \in Steps \ {"idle", "failed", "dead", "started"},
           NEW able \in BOOLEAN, NEW after, NEW next, Call(a, s, able, after, next),
           files[Jar] \in {"None", "Good", "Old"},
           run[a].verified => next.verified,
           Carries(files, a, run[a]) /\ able /\ run[a].up => next.verified \/ PriorMove(after, a, next),
           Carries(files, a, run[a]) /\ able /\ run[a].up
               => \A q : LostAt(s, a, q) /\ ~q.up => PriorMove(after, a, q)
    PROVE  \E q : /\ run' = [run EXCEPT ![a] = q]
                  /\ run[a].verified => q.verified
                  /\ Carries(files, a, run[a]) => q.verified \/ PriorMove(files', a, q)
<1> DEFINE r == run[a]
           Lost == Failed(r)
<1>1. r \in Activations /\ r.pc = s /\ Lost \in Activations
  BY FailedType DEF JarTypeOK, Activations, Call
<1>2. LostAt(s, a, Lost) /\ Lost.up = r.up
  BY <1>1 DEF Failed, LostAt, Activations
<1>3. LostAt(s, a, [Lost EXCEPT !.hit = TRUE])
  BY <1>1, <1>2 DEF LostAt, Activations
<1>4. /\ LostAt(s, a, [Lost EXCEPT !.hit = TRUE, !.up = FALSE])
      /\ ~[Lost EXCEPT !.hit = TRUE, !.up = FALSE].up
  BY <1>1, <1>2 DEF LostAt, Activations
<1> HIDE DEF Lost
<1>5. \A q : Carries(files, a, run[a]) /\ LostAt(s, a, q) /\ files' = files => PriorMove(files', a, q)
  BY <1>1, FailureBalances
<1>6. CASE able /\ r.up /\ files' = after /\ Set(a, next)
  BY <1>6 DEF Set
<1>7. CASE files' = files /\ Set(a, Lost)
  BY <1>2, <1>5, <1>7 DEF Set, LostAt
<1>8. CASE files' = files /\ Set(a, [Lost EXCEPT !.hit = TRUE])
  BY <1>3, <1>5, <1>8 DEF Set, LostAt
<1>9. CASE /\ files' \in {files, IF able THEN after ELSE files} /\ r.up
           /\ Set(a, [Lost EXCEPT !.hit = TRUE, !.up = FALSE])
  BY <1>4, <1>5, <1>9 DEF Set, LostAt
<1>10. QED
  BY <1>6, <1>7, <1>8, <1>9 DEF Call, Lost

\* Every step of an activation is such a move, unless it verifies the pinned file:
\* the effect of each remote call, one by one.
LEMMA ActivatingBalances ==
    ASSUME JarTypeOK, VerifiedInv, initial = "Old", NEW a \in Activation, Activating(a)
    PROVE  \E q : /\ run' = [run EXCEPT ![a] = q]
                  /\ run[a].verified => q.verified
                  /\ Carries(files, a, run[a]) => q.verified \/ PriorMove(files', a, q)
<1> DEFINE r == run[a]
<1>1. /\ run \in [Activation -> Activations] /\ r \in Activations
      /\ files \in [Path -> Content] /\ Jar \in Path /\ Temp(a) \in Path /\ Backup(a) \in Path
      /\ \A b \in Activation : Backup(b) \in Path
  BY PathsExist DEF JarTypeOK, Activations
<1>2. /\ Temp(a) # Jar /\ Backup(a) # Jar
      /\ \A b \in Activation : Backup(b) # Jar /\ Backup(b) # Temp(a) /\ (b # a => Backup(b) # Backup(a))
  BY PathsDiffer
<1>3. \A s \in Steps :
        LET q == Goto(a, s)
        IN  /\ q \in Activations /\ q.pc = s /\ q.prior = r.prior
            /\ q.ownBackup = r.ownBackup /\ q.up = r.up /\ q.verified = r.verified
  BY <1>1 DEF Goto, Activations
<1>4. files[Jar] \in {"None", "Good", "Old"}
  BY DEF VerifiedInv, Kept
<1>5. CASE Begin(a)
  <2>1. PICK next : /\ run' = [run EXCEPT ![a] = next]
                    /\ next.pc \in {"prepare", "failed"} /\ next.prior = r.prior
                    /\ next.ownBackup = r.ownBackup /\ next.up = r.up
                    /\ next.verified = r.verified
    BY <1>5, <1>3 DEF Begin, Set, Steps
  <2>2. files' = files /\ r.pc = "idle"
    BY <1>5 DEF Begin
  <2>3. Carries(files, a, r) => PriorMove(files', a, next)
    BY <1>1, <2>1, <2>2, <1>4 DEF PriorMove, Carries, Weight, Bit, Keeps, Removing, Early, Replacing, Admitted
  <2>4. QED
    BY <2>1, <2>3
<1>6. CASE Prepare(a)
  <2> DEFINE next == Goto(a, "inspect")
             after == files
  <2>1. /\ next.pc = "inspect" /\ next.prior = r.prior /\ next.ownBackup = r.ownBackup
        /\ next.up = r.up /\ next.verified = r.verified
    BY <1>3 DEF Steps
  <2>2. Call(a, "prepare", TRUE, after, next) /\ r.pc = "prepare"
    BY <1>6 DEF Prepare, Call
  <2> HIDE DEF next
  <2>3. after[Jar] = files[Jar] /\ \A b \in Activation : after[Backup(b)] = files[Backup(b)]
    BY <1>1, <1>2 DEF Without, Moved, Exists
  <2> HIDE DEF after
  <2>4. Carries(files, a, r) /\ TRUE /\ r.up => next.verified \/ PriorMove(after, a, next)
    BY <1>1, <2>1, <2>2, <2>3 DEF PriorMove, Carries, Weight, Bit, Keeps, Removing, Early, Replacing, Admitted
  <2>5. Carries(files, a, r) => \A q : LostAt("prepare", a, q) => PriorMove(after, a, q)
    BY <1>4, <2>2, <2>3, FailureBalances DEF Steps
  <2>6. QED
    BY <1>4, <2>1, <2>2, <2>4, <2>5, CallBalances DEF Steps
<1>7. CASE Inspect(a)
  <2> DEFINE next == IF files[Jar] = "Good"
                     THEN [Goto(a, "done") EXCEPT !.prior = "Good", !.verified = TRUE]
                     ELSE [Goto(a, "create") EXCEPT !.prior = files[Jar]]
  <2>1. /\ files[Jar] = "Good" => next.verified
        /\ files[Jar] # "Good" =>
              /\ next.pc = "create" /\ next.prior = files[Jar] /\ next.ownBackup = r.ownBackup
              /\ next.up = r.up /\ next.verified = r.verified
    <3>1. /\ Goto(a, "create") \in Activations /\ Goto(a, "create").pc = "create"
          /\ Goto(a, "create").ownBackup = r.ownBackup /\ Goto(a, "create").up = r.up
          /\ Goto(a, "create").verified = r.verified /\ Goto(a, "done") \in Activations
      BY <1>3 DEF Steps
    <3>2. QED
      BY <3>1 DEF Activations
  <2>2. Call(a, "inspect", files[Jar] # "Odd", files, next) /\ r.pc = "inspect"
    BY <1>7 DEF Inspect, Call
  <2> HIDE DEF next
  <2>4. Carries(files, a, r) => next.verified \/ PriorMove(files, a, next)
    BY <1>1, <1>4, <2>1, <2>2 DEF PriorMove, Carries, Weight, Bit, Keeps, Removing, Early, Replacing, Admitted
  <2>5. Carries(files, a, r) => \A q : LostAt("inspect", a, q) => PriorMove(files, a, q)
    BY <1>4, <2>2, FailureBalances DEF Steps
  <2>6. r.verified => next.verified
    BY <2>1
  <2>7. QED
    BY <1>4, <2>2, <2>4, <2>5, <2>6, CallBalances DEF Steps
<1>8. CASE CreateTemporary(a)
  <2> DEFINE next == [Goto(a, "transfer") EXCEPT !.ownTemp = TRUE]
             after == [files EXCEPT ![Temp(a)] = "Bad"]
  <2>1. /\ next.pc = "transfer" /\ next.prior = r.prior /\ next.ownBackup = r.ownBackup
        /\ next.up = r.up /\ next.verified = r.verified
    <3>1. /\ Goto(a, "transfer") \in Activations /\ Goto(a, "transfer").pc = ("transfer") /\ Goto(a, "transfer").prior = r.prior
          /\ Goto(a, "transfer").ownBackup = r.ownBackup /\ Goto(a, "transfer").up = r.up
          /\ Goto(a, "transfer").verified = r.verified
      BY <1>3 DEF Steps
    <3>2. QED
      BY <3>1 DEF Activations
  <2>2. Call(a, "create", TRUE, after, next) /\ r.pc = "create"
    BY <1>8 DEF CreateTemporary, Call
  <2> HIDE DEF next
  <2>3. after[Jar] = files[Jar] /\ \A b \in Activation : after[Backup(b)] = files[Backup(b)]
    BY <1>1, <1>2 DEF Without, Moved, Exists
  <2> HIDE DEF after
  <2>4. Carries(files, a, r) /\ TRUE /\ r.up => next.verified \/ PriorMove(after, a, next)
    BY <1>1, <2>1, <2>2, <2>3 DEF PriorMove, Carries, Weight, Bit, Keeps, Removing, Early, Replacing, Admitted
  <2>5. Carries(files, a, r) => \A q : LostAt("create", a, q) => PriorMove(after, a, q)
    BY <1>4, <2>2, <2>3, FailureBalances DEF Steps
  <2>6. QED
    BY <1>4, <2>1, <2>2, <2>4, <2>5, CallBalances DEF Steps
<1>9. CASE Transfer(a)
  <2> DEFINE next == Goto(a, "verifyTemp")
             after == [files EXCEPT ![Temp(a)] = local]
  <2>1. /\ next.pc = "verifyTemp" /\ next.prior = r.prior /\ next.ownBackup = r.ownBackup
        /\ next.up = r.up /\ next.verified = r.verified
    BY <1>3 DEF Steps
  <2>2. Call(a, "transfer", TRUE, after, next) /\ r.pc = "transfer"
    BY <1>9 DEF Transfer, Call
  <2> HIDE DEF next
  <2>3. after[Jar] = files[Jar] /\ \A b \in Activation : after[Backup(b)] = files[Backup(b)]
    BY <1>1, <1>2 DEF Without, Moved, Exists
  <2> HIDE DEF after
  <2>4. Carries(files, a, r) /\ TRUE /\ r.up => next.verified \/ PriorMove(after, a, next)
    BY <1>1, <2>1, <2>2, <2>3 DEF PriorMove, Carries, Weight, Bit, Keeps, Removing, Early, Replacing, Admitted
  <2>5. Carries(files, a, r) => \A q : LostAt("transfer", a, q) => PriorMove(after, a, q)
    BY <1>4, <2>2, <2>3, FailureBalances DEF Steps
  <2>6. QED
    BY <1>4, <2>1, <2>2, <2>4, <2>5, CallBalances DEF Steps
<1>10. CASE VerifyTemporary(a)
  <2> DEFINE next == Goto(a, IF r.prior = "None" THEN "rename" ELSE "backup")
             after == files
  <2>1. /\ next.pc = (IF r.prior = "None" THEN "rename" ELSE "backup") /\ next.prior = r.prior /\ next.ownBackup = r.ownBackup
        /\ next.up = r.up /\ next.verified = r.verified
    BY <1>3 DEF Steps
  <2>2. Call(a, "verifyTemp", (files[Temp(a)] = "Good"), after, next) /\ r.pc = "verifyTemp"
    BY <1>10 DEF VerifyTemporary, Call
  <2> HIDE DEF next
  <2>3. after[Jar] = files[Jar] /\ \A b \in Activation : after[Backup(b)] = files[Backup(b)]
    BY <1>1, <1>2 DEF Without, Moved, Exists
  <2> HIDE DEF after
  <2>4. Carries(files, a, r) /\ (files[Temp(a)] = "Good") /\ r.up => next.verified \/ PriorMove(after, a, next)
    BY <1>1, <2>1, <2>2, <2>3 DEF PriorMove, Carries, Weight, Bit, Keeps, Removing, Early, Replacing, Admitted
  <2>5. Carries(files, a, r) => \A q : LostAt("verifyTemp", a, q) => PriorMove(after, a, q)
    BY <1>4, <2>2, <2>3, FailureBalances DEF Steps
  <2>6. QED
    BY <1>4, <2>1, <2>2, <2>4, <2>5, CallBalances DEF Steps
<1>11. CASE CreateBackup(a)
  <2> DEFINE next == Goto(a, "copyBackup")
             after == [files EXCEPT ![Backup(a)] = "Bad"]
  <2>1. /\ next.pc = "copyBackup" /\ next.prior = r.prior /\ next.ownBackup = r.ownBackup
        /\ next.up = r.up /\ next.verified = r.verified
    BY <1>3 DEF Steps
  <2>2. Call(a, "backup", (files[Jar] \notin {"None", "Odd"}), after, next) /\ r.pc = "backup"
    BY <1>11 DEF CreateBackup, Call
  <2> HIDE DEF next
  <2>3. /\ after[Jar] = files[Jar] /\ after[Backup(a)] = "Bad"
        /\ \A b \in Activation \ {a} : after[Backup(b)] = files[Backup(b)]
    BY <1>1, <1>2 DEF Without, Moved, Exists
  <2> HIDE DEF after
  <2>4. Carries(files, a, r) /\ (files[Jar] \notin {"None", "Odd"}) /\ r.up => next.verified \/ PriorMove(after, a, next)
    BY <1>1, <1>4, <1>11, <2>1, <2>2, <2>3 DEF PriorMove, Carries, Weight, Bit, Keeps, Removing, Early, Replacing, Admitted, Exists
  <2>5. Carries(files, a, r) /\ (files[Jar] \notin {"None", "Odd"}) /\ r.up => \A q : LostAt("backup", a, q) /\ ~q.up => PriorMove(after, a, q)
    <3>1. OnFailure["backup"] = "cleanBackup"
      BY DEF OnFailure, Steps
    <3>2. QED
      BY <1>1, <1>4, <1>11, <2>2, <2>3, <3>1 DEF LostAt, PriorMove, Carries, Weight, Bit, Keeps, Removing, Early, Replacing, Admitted, Exists
  <2>6. QED
    BY <1>4, <2>1, <2>2, <2>4, <2>5, CallBalances DEF Steps, Exists
<1>12. CASE CopyBackup(a)
  <2> DEFINE next == Goto(a, "checkBackup")
             after == [files EXCEPT ![Backup(a)] = files[Jar]]
  <2>1. /\ next.pc = "checkBackup" /\ next.prior = r.prior /\ next.ownBackup = r.ownBackup
        /\ next.up = r.up /\ next.verified = r.verified
    BY <1>3 DEF Steps
  <2>2. Call(a, "copyBackup", (files[Jar] \notin {"None", "Odd"}), after, next) /\ r.pc = "copyBackup"
    BY <1>12 DEF CopyBackup, Call
  <2> HIDE DEF next
  <2>3. /\ after[Jar] = files[Jar] /\ after[Backup(a)] = files[Jar]
        /\ \A b \in Activation \ {a} : after[Backup(b)] = files[Backup(b)]
    BY <1>1, <1>2 DEF Without, Moved, Exists
  <2> HIDE DEF after
  <2>4. Carries(files, a, r) /\ (files[Jar] \notin {"None", "Odd"}) /\ r.up => next.verified \/ PriorMove(after, a, next)
    BY <1>1, <1>4, <1>12, <2>1, <2>2, <2>3 DEF PriorMove, Carries, Weight, Bit, Keeps, Removing, Early, Replacing, Admitted, Exists
  <2>5. Carries(files, a, r) /\ (files[Jar] \notin {"None", "Odd"}) /\ r.up => \A q : LostAt("copyBackup", a, q) /\ ~q.up => PriorMove(after, a, q)
    <3>1. OnFailure["copyBackup"] = "undoBackup"
      BY DEF OnFailure, Steps
    <3>2. QED
      BY <1>1, <1>4, <1>12, <2>2, <2>3, <3>1 DEF LostAt, PriorMove, Carries, Weight, Bit, Keeps, Removing, Early, Replacing, Admitted, Exists
  <2>6. QED
    BY <1>4, <2>1, <2>2, <2>4, <2>5, CallBalances DEF Steps, Exists
<1>13. CASE CheckBackup(a)
  <2> DEFINE next == [Goto(a, "removePrior") EXCEPT !.ownBackup = TRUE]
             after == files
  <2>1. /\ next.pc = "removePrior" /\ next.prior = r.prior /\ next.ownBackup
        /\ next.up = r.up /\ next.verified = r.verified
    <3>1. /\ Goto(a, "removePrior") \in Activations /\ Goto(a, "removePrior").pc = ("removePrior") /\ Goto(a, "removePrior").prior = r.prior
          /\ Goto(a, "removePrior").ownBackup = r.ownBackup /\ Goto(a, "removePrior").up = r.up
          /\ Goto(a, "removePrior").verified = r.verified
      BY <1>3 DEF Steps
    <3>2. QED
      BY <3>1 DEF Activations
  <2>2. Call(a, "checkBackup", (files[Backup(a)] = r.prior), after, next) /\ r.pc = "checkBackup"
    BY <1>13 DEF CheckBackup, Call
  <2> HIDE DEF next
  <2>3. after[Jar] = files[Jar] /\ \A b \in Activation : after[Backup(b)] = files[Backup(b)]
    BY <1>1, <1>2 DEF Without, Moved, Exists
  <2> HIDE DEF after
  <2>4. Carries(files, a, r) /\ (files[Backup(a)] = r.prior) /\ r.up => next.verified \/ PriorMove(after, a, next)
    BY <1>1, <2>1, <2>2, <2>3 DEF PriorMove, Carries, Weight, Bit, Keeps, Removing, Early, Replacing, Admitted
  <2>5. Carries(files, a, r) => \A q : LostAt("checkBackup", a, q) => PriorMove(after, a, q)
    BY <1>4, <2>2, <2>3, FailureBalances DEF Steps
  <2>6. QED
    BY <1>4, <2>1, <2>2, <2>4, <2>5, CallBalances DEF Steps
<1>14. CASE UndoBackup(a)
  <2> DEFINE next == Goto(a, "cleanBackup")
             after == Without(Backup(a))
  <2>1. /\ next.pc = "cleanBackup" /\ next.prior = r.prior /\ next.ownBackup = r.ownBackup
        /\ next.up = r.up /\ next.verified = r.verified
    BY <1>3 DEF Steps
  <2>2. Call(a, "undoBackup", Exists(Backup(a)), after, next) /\ r.pc = "undoBackup"
    BY <1>14 DEF UndoBackup, Call
  <2> HIDE DEF next
  <2>3. /\ after[Jar] = files[Jar] /\ after[Backup(a)] = "None"
        /\ \A b \in Activation \ {a} : after[Backup(b)] = files[Backup(b)]
    BY <1>1, <1>2 DEF Without, Moved, Exists
  <2> HIDE DEF after
  <2>4. Carries(files, a, r) /\ Exists(Backup(a)) /\ r.up => next.verified \/ PriorMove(after, a, next)
    BY <1>1, <1>4, <1>14, <2>1, <2>2, <2>3 DEF PriorMove, Carries, Weight, Bit, Keeps, Removing, Early, Replacing, Admitted, Exists
  <2>5. Carries(files, a, r) /\ Exists(Backup(a)) /\ r.up => \A q : LostAt("undoBackup", a, q) /\ ~q.up => PriorMove(after, a, q)
    <3>1. OnFailure["undoBackup"] = "cleanBackup"
      BY DEF OnFailure, Steps
    <3>2. QED
      BY <1>1, <1>4, <1>14, <2>2, <2>3, <3>1 DEF LostAt, PriorMove, Carries, Weight, Bit, Keeps, Removing, Early, Replacing, Admitted, Exists
  <2>6. QED
    BY <1>4, <2>1, <2>2, <2>4, <2>5, CallBalances DEF Steps, Exists
<1>15. CASE RemovePrior(a)
  <2> DEFINE next == Goto(a, "rename")
             after == Without(Jar)
  <2>1. /\ next.pc = "rename" /\ next.prior = r.prior /\ next.ownBackup = r.ownBackup
        /\ next.up = r.up /\ next.verified = r.verified
    BY <1>3 DEF Steps
  <2>2. Call(a, "removePrior", Exists(Jar), after, next) /\ r.pc = "removePrior"
    BY <1>15 DEF RemovePrior, Call
  <2> HIDE DEF next
  <2>3. /\ after[Jar] = "None" /\ after[Backup(a)] = files[Backup(a)]
        /\ \A b \in Activation \ {a} : after[Backup(b)] = files[Backup(b)]
    BY <1>1, <1>2 DEF Without, Moved, Exists
  <2> HIDE DEF after
  <2>4. Carries(files, a, r) /\ Exists(Jar) /\ r.up => next.verified \/ PriorMove(after, a, next)
    BY <1>1, <1>4, <1>15, <2>1, <2>2, <2>3 DEF PriorMove, Carries, Weight, Bit, Keeps, Removing, Early, Replacing, Admitted, Exists
  <2>5. Carries(files, a, r) /\ Exists(Jar) /\ r.up => \A q : LostAt("removePrior", a, q) /\ ~q.up => PriorMove(after, a, q)
    <3>1. OnFailure["removePrior"] = "cleanBackup"
      BY DEF OnFailure, Steps
    <3>2. QED
      BY <1>1, <1>4, <1>15, <2>2, <2>3, <3>1 DEF LostAt, PriorMove, Carries, Weight, Bit, Keeps, Removing, Early, Replacing, Admitted, Exists
  <2>6. QED
    BY <1>4, <2>1, <2>2, <2>4, <2>5, CallBalances DEF Steps, Exists
<1>16. CASE Activate(a)
  <2> DEFINE next == [Goto(a, "verify") EXCEPT !.ownTemp = FALSE]
             after == Moved(Temp(a), Jar)
  <2>1. /\ next.pc = "verify" /\ next.prior = r.prior /\ next.ownBackup = r.ownBackup
        /\ next.up = r.up /\ next.verified = r.verified
    <3>1. /\ Goto(a, "verify") \in Activations /\ Goto(a, "verify").pc = ("verify") /\ Goto(a, "verify").prior = r.prior
          /\ Goto(a, "verify").ownBackup = r.ownBackup /\ Goto(a, "verify").up = r.up
          /\ Goto(a, "verify").verified = r.verified
      BY <1>3 DEF Steps
    <3>2. QED
      BY <3>1 DEF Activations
  <2>2. Call(a, "rename", (Exists(Temp(a)) /\ ~Exists(Jar)), after, next) /\ r.pc = "rename"
    BY <1>16 DEF Activate, Call
  <2> HIDE DEF next
  <2>3. /\ after[Jar] = files[Temp(a)] /\ after[Backup(a)] = files[Backup(a)]
        /\ \A b \in Activation \ {a} : after[Backup(b)] = files[Backup(b)]
    BY <1>1, <1>2 DEF Without, Moved, Exists
  <2> HIDE DEF after
  <2>4. Carries(files, a, r) /\ (Exists(Temp(a)) /\ ~Exists(Jar)) /\ r.up => next.verified \/ PriorMove(after, a, next)
    BY <1>1, <1>4, <1>16, <2>1, <2>2, <2>3 DEF PriorMove, Carries, Weight, Bit, Keeps, Removing, Early, Replacing, Admitted, Exists
  <2>5. Carries(files, a, r) /\ (Exists(Temp(a)) /\ ~Exists(Jar)) /\ r.up => \A q : LostAt("rename", a, q) /\ ~q.up => PriorMove(after, a, q)
    <3>1. OnFailure["rename"] = "restore"
      BY DEF OnFailure, Steps
    <3>2. QED
      BY <1>1, <1>4, <1>16, <2>2, <2>3, <3>1 DEF LostAt, PriorMove, Carries, Weight, Bit, Keeps, Removing, Early, Replacing, Admitted, Exists
  <2>6. QED
    BY <1>4, <2>1, <2>2, <2>4, <2>5, CallBalances DEF Steps, Exists
<1>17. CASE VerifyActivated(a)
  <2> DEFINE next == [Goto(a, IF r.ownBackup THEN "dropBackup" ELSE "done") EXCEPT !.verified = TRUE]
             after == files
  <2>1. next.verified
    <3>1. /\ Goto(a, IF r.ownBackup THEN "dropBackup" ELSE "done") \in Activations /\ Goto(a, IF r.ownBackup THEN "dropBackup" ELSE "done").pc = (IF r.ownBackup THEN "dropBackup" ELSE "done") /\ Goto(a, IF r.ownBackup THEN "dropBackup" ELSE "done").prior = r.prior
          /\ Goto(a, IF r.ownBackup THEN "dropBackup" ELSE "done").ownBackup = r.ownBackup /\ Goto(a, IF r.ownBackup THEN "dropBackup" ELSE "done").up = r.up
          /\ Goto(a, IF r.ownBackup THEN "dropBackup" ELSE "done").verified = r.verified
      BY <1>3 DEF Steps
    <3>2. QED
      BY <3>1 DEF Activations
  <2>2. Call(a, "verify", (files[Jar] = "Good"), after, next) /\ r.pc = "verify"
    BY <1>17 DEF VerifyActivated, Call
  <2> HIDE DEF next
  <2>3. after[Jar] = files[Jar] /\ \A b \in Activation : after[Backup(b)] = files[Backup(b)]
    BY <1>1, <1>2 DEF Without, Moved, Exists
  <2> HIDE DEF after
  <2>4. Carries(files, a, r) /\ (files[Jar] = "Good") /\ r.up => next.verified \/ PriorMove(after, a, next)
    BY <1>1, <2>1, <2>2, <2>3 DEF PriorMove, Carries, Weight, Bit, Keeps, Removing, Early, Replacing, Admitted
  <2>5. Carries(files, a, r) => \A q : LostAt("verify", a, q) => PriorMove(after, a, q)
    BY <1>4, <2>2, <2>3, FailureBalances DEF Steps
  <2>6. QED
    BY <1>4, <2>1, <2>2, <2>4, <2>5, CallBalances DEF Steps
<1>18. CASE RemoveBad(a)
  <2> DEFINE next == Goto(a, "restore")
             after == Without(Jar)
  <2>1. /\ next.pc = "restore" /\ next.prior = r.prior /\ next.ownBackup = r.ownBackup
        /\ next.up = r.up /\ next.verified = r.verified
    BY <1>3 DEF Steps
  <2>2. Call(a, "removeBad", Exists(Jar), after, next) /\ r.pc = "removeBad"
    BY <1>18 DEF RemoveBad, Call
  <2> HIDE DEF next
  <2>3. /\ after[Jar] = "None" /\ after[Backup(a)] = files[Backup(a)]
        /\ \A b \in Activation \ {a} : after[Backup(b)] = files[Backup(b)]
    BY <1>1, <1>2 DEF Without, Moved, Exists
  <2> HIDE DEF after
  <2>4. Carries(files, a, r) /\ Exists(Jar) /\ r.up => next.verified \/ PriorMove(after, a, next)
    BY <1>1, <1>4, <1>18, <2>1, <2>2, <2>3 DEF PriorMove, Carries, Weight, Bit, Keeps, Removing, Early, Replacing, Admitted, Exists
  <2>5. Carries(files, a, r) /\ Exists(Jar) /\ r.up => \A q : LostAt("removeBad", a, q) /\ ~q.up => PriorMove(after, a, q)
    <3>1. OnFailure["removeBad"] = "restore"
      BY DEF OnFailure, Steps
    <3>2. QED
      BY <1>1, <1>4, <1>18, <2>2, <2>3, <3>1 DEF LostAt, PriorMove, Carries, Weight, Bit, Keeps, Removing, Early, Replacing, Admitted, Exists
  <2>6. QED
    BY <1>4, <2>1, <2>2, <2>4, <2>5, CallBalances DEF Steps, Exists
<1>19. CASE Restore(a) /\ r.prior = "None"
  <2> DEFINE next == [Goto(a, "cleanTemp") EXCEPT !.ownBackup = FALSE]
  <2>1. /\ next.pc = "cleanTemp" /\ next.prior = r.prior /\ ~next.ownBackup
        /\ next.up = r.up /\ next.verified = r.verified
    <3>1. /\ Goto(a, "cleanTemp") \in Activations /\ Goto(a, "cleanTemp").pc = ("cleanTemp") /\ Goto(a, "cleanTemp").prior = r.prior
          /\ Goto(a, "cleanTemp").ownBackup = r.ownBackup /\ Goto(a, "cleanTemp").up = r.up
          /\ Goto(a, "cleanTemp").verified = r.verified
      BY <1>3 DEF Steps
    <3>2. QED
      BY <3>1 DEF Activations
  <2>2. r.pc = "restore" /\ files' = files /\ run' = [run EXCEPT ![a] = next]
    BY <1>19 DEF Restore, Set
  <2> HIDE DEF next
  <2>3. Carries(files, a, r) => PriorMove(files', a, next)
    BY <1>1, <1>4, <2>1, <2>2 DEF PriorMove, Carries, Weight, Bit, Keeps, Removing, Early, Replacing, Admitted
  <2>4. QED
    BY <2>1, <2>2, <2>3
<1>20. CASE Restore(a) /\ r.prior # "None"
  <2> DEFINE next == [Goto(a, "cleanTemp") EXCEPT !.ownBackup = FALSE]
             after == Moved(Backup(a), Jar)
  <2>1. /\ next.pc = "cleanTemp" /\ next.prior = r.prior /\ ~next.ownBackup
        /\ next.up = r.up /\ next.verified = r.verified
    <3>1. /\ Goto(a, "cleanTemp") \in Activations /\ Goto(a, "cleanTemp").pc = ("cleanTemp") /\ Goto(a, "cleanTemp").prior = r.prior
          /\ Goto(a, "cleanTemp").ownBackup = r.ownBackup /\ Goto(a, "cleanTemp").up = r.up
          /\ Goto(a, "cleanTemp").verified = r.verified
      BY <1>3 DEF Steps
    <3>2. QED
      BY <3>1 DEF Activations
  <2>2. Call(a, "restore", (Exists(Backup(a)) /\ ~Exists(Jar)), after, next) /\ r.pc = "restore"
    BY <1>20 DEF Restore, Call
  <2> HIDE DEF next
  <2>3. /\ after[Jar] = files[Backup(a)] /\ after[Backup(a)] = "None"
        /\ \A b \in Activation \ {a} : after[Backup(b)] = files[Backup(b)]
    BY <1>1, <1>2 DEF Without, Moved, Exists
  <2> HIDE DEF after
  <2>4. Carries(files, a, r) /\ (Exists(Backup(a)) /\ ~Exists(Jar)) /\ r.up => next.verified \/ PriorMove(after, a, next)
    BY <1>1, <1>4, <1>20, <2>1, <2>2, <2>3 DEF PriorMove, Carries, Weight, Bit, Keeps, Removing, Early, Replacing, Admitted, Exists
  <2>5. Carries(files, a, r) /\ (Exists(Backup(a)) /\ ~Exists(Jar)) /\ r.up => \A q : LostAt("restore", a, q) /\ ~q.up => PriorMove(after, a, q)
    <3>1. OnFailure["restore"] = "cleanBackup"
      BY DEF OnFailure, Steps
    <3>2. QED
      BY <1>1, <1>4, <1>20, <2>2, <2>3, <3>1 DEF LostAt, PriorMove, Carries, Weight, Bit, Keeps, Removing, Early, Replacing, Admitted, Exists
  <2>6. QED
    BY <1>4, <2>1, <2>2, <2>4, <2>5, CallBalances DEF Steps, Exists
<1>21. CASE CleanBackup(a) /\ r.ownBackup /\ Exists(Backup(a))
  <2> DEFINE next == Goto(a, "cleanTemp")
             after == Without(Backup(a))
  <2>1. /\ next.pc = "cleanTemp" /\ next.prior = r.prior /\ next.ownBackup = r.ownBackup
        /\ next.up = r.up /\ next.verified = r.verified
    BY <1>3 DEF Steps
  <2>2. Call(a, "cleanBackup", TRUE, after, next) /\ r.pc = "cleanBackup"
    BY <1>21 DEF CleanBackup, Call
  <2> HIDE DEF next
  <2>3. /\ after[Jar] = files[Jar] /\ after[Backup(a)] = "None"
        /\ \A b \in Activation \ {a} : after[Backup(b)] = files[Backup(b)]
    BY <1>1, <1>2 DEF Without, Moved, Exists
  <2> HIDE DEF after
  <2>4. Carries(files, a, r) /\ TRUE /\ r.up => next.verified \/ PriorMove(after, a, next)
    BY <1>1, <1>4, <1>21, <2>1, <2>2, <2>3 DEF PriorMove, Carries, Weight, Bit, Keeps, Removing, Early, Replacing, Admitted, Exists
  <2>5. Carries(files, a, r) /\ TRUE /\ r.up => \A q : LostAt("cleanBackup", a, q) /\ ~q.up => PriorMove(after, a, q)
    <3>1. OnFailure["cleanBackup"] = "cleanTemp"
      BY DEF OnFailure, Steps
    <3>2. QED
      BY <1>1, <1>4, <1>21, <2>2, <2>3, <3>1 DEF LostAt, PriorMove, Carries, Weight, Bit, Keeps, Removing, Early, Replacing, Admitted, Exists
  <2>6. QED
    BY <1>4, <2>1, <2>2, <2>4, <2>5, CallBalances DEF Steps, Exists
<1>22. CASE CleanBackup(a) /\ ~(r.ownBackup /\ Exists(Backup(a)))
  <2> DEFINE next == Goto(a, "cleanTemp")
  <2>1. /\ next.pc = "cleanTemp" /\ next.prior = r.prior /\ next.ownBackup = r.ownBackup
        /\ next.up = r.up /\ next.verified = r.verified
    BY <1>3 DEF Steps
  <2>2. r.pc = "cleanBackup" /\ files' = files /\ run' = [run EXCEPT ![a] = next]
    BY <1>22 DEF CleanBackup, Set
  <2> HIDE DEF next
  <2>3. Carries(files, a, r) => PriorMove(files', a, next)
    BY <1>1, <1>4, <1>22, <2>1, <2>2 DEF PriorMove, Carries, Weight, Bit, Keeps, Removing, Early, Replacing, Admitted, Exists
  <2>4. QED
    BY <2>1, <2>2, <2>3
<1>23. CASE CleanTemp(a) /\ ~(r.ownTemp /\ Exists(Temp(a)))
  <2> DEFINE next == Goto(a, "failed")
  <2>1. /\ next.pc = "failed" /\ next.prior = r.prior /\ next.ownBackup = r.ownBackup
        /\ next.up = r.up /\ next.verified = r.verified
    BY <1>3 DEF Steps
  <2>2. r.pc = "cleanTemp" /\ files' = files /\ run' = [run EXCEPT ![a] = next]
    BY <1>23 DEF CleanTemp, Set
  <2> HIDE DEF next
  <2>3. Carries(files, a, r) => PriorMove(files', a, next)
    BY <1>1, <1>4, <1>23, <2>1, <2>2 DEF PriorMove, Carries, Weight, Bit, Keeps, Removing, Early, Replacing, Admitted, Exists
  <2>4. QED
    BY <2>1, <2>2, <2>3
<1>24. CASE CleanTemp(a) /\ r.ownTemp /\ Exists(Temp(a))
  <2> DEFINE next == Goto(a, "failed")
             after == Without(Temp(a))
  <2>1. /\ next.pc = "failed" /\ next.prior = r.prior /\ next.ownBackup = r.ownBackup
        /\ next.up = r.up /\ next.verified = r.verified
    BY <1>3 DEF Steps
  <2>2. Call(a, "cleanTemp", TRUE, after, next) /\ r.pc = "cleanTemp"
    BY <1>24 DEF CleanTemp, Call
  <2> HIDE DEF next
  <2>3. after[Jar] = files[Jar] /\ \A b \in Activation : after[Backup(b)] = files[Backup(b)]
    BY <1>1, <1>2 DEF Without, Moved, Exists
  <2> HIDE DEF after
  <2>4. Carries(files, a, r) /\ TRUE /\ r.up => next.verified \/ PriorMove(after, a, next)
    BY <1>1, <2>1, <2>2, <2>3 DEF PriorMove, Carries, Weight, Bit, Keeps, Removing, Early, Replacing, Admitted
  <2>5. Carries(files, a, r) => \A q : LostAt("cleanTemp", a, q) => PriorMove(after, a, q)
    BY <1>4, <2>2, <2>3, FailureBalances DEF Steps
  <2>6. QED
    BY <1>4, <2>1, <2>2, <2>4, <2>5, CallBalances DEF Steps
<1>25. CASE DropBackup(a)
  <2> DEFINE next == [Goto(a, "done") EXCEPT !.ownBackup = FALSE]
  <2>1. next.verified = r.verified
    <3>1. /\ Goto(a, "done") \in Activations /\ Goto(a, "done").pc = ("done") /\ Goto(a, "done").prior = r.prior
          /\ Goto(a, "done").ownBackup = r.ownBackup /\ Goto(a, "done").up = r.up
          /\ Goto(a, "done").verified = r.verified
      BY <1>3 DEF Steps
    <3>2. QED
      BY <3>1 DEF Activations
  <2>2. Call(a, "dropBackup", Exists(Backup(a)), Without(Backup(a)), next) /\ r.pc = "dropBackup"
    BY <1>25 DEF DropBackup, Call
  <2> HIDE DEF next
  <2>3. ~Carries(files, a, r)
    BY <2>2 DEF Carries, Admitted
  <2>4. QED
    BY <1>4, <2>1, <2>2, <2>3, CallBalances DEF Steps, Exists
<1>26. CASE Reverify(a)
  <2> DEFINE next == [Goto(a, "admitted") EXCEPT !.alone = Alone(a)]
  <2>1. next.verified = r.verified
    <3>1. /\ Goto(a, "admitted") \in Activations /\ Goto(a, "admitted").pc = ("admitted") /\ Goto(a, "admitted").prior = r.prior
          /\ Goto(a, "admitted").ownBackup = r.ownBackup /\ Goto(a, "admitted").up = r.up
          /\ Goto(a, "admitted").verified = r.verified
      BY <1>3 DEF Steps
    <3>2. QED
      BY <3>1 DEF Activations
  <2>2. Call(a, "done", (files[Jar] = "Good"), files, next) /\ r.pc = "done"
    BY <1>26 DEF Reverify, Call
  <2> HIDE DEF next
  <2>3. ~Carries(files, a, r)
    BY <2>2 DEF Carries, Admitted
  <2>4. QED
    BY <1>4, <2>1, <2>2, <2>3, CallBalances DEF Steps, Exists
<1>27. CASE StartServer(a)
  <2> DEFINE next == [Goto(a, "started") EXCEPT !.ran = files[Jar]]
  <2>1. next.verified = r.verified
    <3>1. /\ Goto(a, "started") \in Activations /\ Goto(a, "started").pc = ("started") /\ Goto(a, "started").prior = r.prior
          /\ Goto(a, "started").ownBackup = r.ownBackup /\ Goto(a, "started").up = r.up
          /\ Goto(a, "started").verified = r.verified
      BY <1>3 DEF Steps
    <3>2. QED
      BY <3>1 DEF Activations
  <2>2. Call(a, "admitted", TRUE, files, next) /\ r.pc = "admitted"
    BY <1>27 DEF StartServer, Call
  <2> HIDE DEF next
  <2>3. ~Carries(files, a, r)
    BY <2>2 DEF Carries, Admitted
  <2>4. QED
    BY <1>4, <2>1, <2>2, <2>3, CallBalances DEF Steps, Exists
<1>28. QED
  BY <1>5, <1>6, <1>7, <1>8, <1>9, <1>10, <1>11, <1>12, <1>13, <1>14, <1>15, <1>16, <1>17, <1>18, <1>19, <1>20, <1>21, <1>22, <1>23, <1>24, <1>25, <1>26, <1>27 DEF Activating

LEMMA PriorInit == JarInit => PriorInv
<1> SUFFICES ASSUME JarInit, initial = "Old"
             PROVE  Balance
  BY DEF PriorInv, PriorWanted
<1>1. ASSUME NEW a \in Activation
      PROVE  run[a] = Idle /\ files[Backup(a)] = "None"
  BY PathsDiffer, PathsExist DEF JarInit
<1>2. Idle.pc = "idle" /\ Idle.prior = "None"
  BY DEF Idle
<1>3. files[Jar] = "Old"
  BY DEF JarInit, Path
<1>4. Keepers = {} /\ Removers = {}
  BY <1>1, <1>2 DEF Keepers, Keeps, Removers, Removing
<1>5. \A a \in Activation : Carries(files, a, run[a])
  BY <1>1, <1>2 DEF Carries, Early, Replacing, Admitted
<1>6. QED
  BY <1>3, <1>4, <1>5, FS_EmptySet DEF Balance, Bit

LEMMA PriorStep ==
    JarTypeOK /\ VerifiedInv /\ PriorInv /\ [JarNext]_jarVars => PriorInv'
<1> SUFFICES ASSUME JarTypeOK, VerifiedInv, PriorInv, [JarNext]_jarVars, PriorWanted'
             PROVE  Balance'
  BY DEF PriorInv
<1>1. initial = "Old"
  BY DEF JarNext, EditLocal, Activating, Begin, Prepare, Inspect, CreateTemporary, Transfer,
     VerifyTemporary, CreateBackup, CopyBackup, CheckBackup, UndoBackup, RemovePrior, Activate,
     VerifyActivated, RemoveBad, Restore, DropBackup, CleanBackup, CleanTemp, Reverify,
     StartServer, Call, Die, jarVars, PriorWanted
<1>2. files[Jar] \in {"None", "Good", "Old"}
  BY <1>1 DEF VerifiedInv, Kept
<1>3. ASSUME NEW a \in Activation, NEW q, run' = [run EXCEPT ![a] = q],
             run[a].verified => q.verified,
             Carries(files, a, run[a]) => q.verified \/ PriorMove(files', a, q)
      PROVE  Balance'
  <2>1. run \in [Activation -> Activations]
    BY DEF JarTypeOK, Activations
  <2>2. ~q.verified
    BY <1>3, <2>1 DEF PriorWanted
  <2>3. \A b \in Activation : ~run[b].verified
    <3>1. \A b \in Activation : run'[b] = IF b = a THEN q ELSE run[b]
      BY <1>3, <2>1
    <3>2. QED
      BY <1>3, <3>1 DEF PriorWanted
  <2>4. Balance
    BY <1>1, <2>3 DEF PriorInv, PriorWanted
  <2>5. PriorMove(files', a, q)
    BY <1>3, <2>2, <2>4 DEF Balance
  <2>6. QED
    BY <1>2, <1>3, <2>4, <2>5, MoveBalances
<1>4. CASE UNCHANGED <<files, run, initial>>
  BY <1>4 DEF PriorInv, PriorWanted, Balance, Carries, Keepers, Keeps, Removers, Removing, Bit
<1>5. ASSUME NEW a \in Activation, Activating(a)
      PROVE  Balance'
  BY <1>1, <1>3, <1>5, ActivatingBalances
<1>6. ASSUME NEW a \in Activation, Die(a)
      PROVE  Balance'
  <2> DEFINE q == Goto(a, "dead")
  <2>1. run[a] \in Activations
    BY DEF JarTypeOK, Activations
  <2>2. /\ q.pc = "dead" /\ q.prior = run[a].prior /\ q.up = run[a].up
        /\ q.verified = run[a].verified
    BY <2>1 DEF Goto, Activations
  <2>3. run' = [run EXCEPT ![a] = q] /\ files' = files
    BY <1>6 DEF Die, Set
  <2> HIDE DEF q
  <2>4. Carries(files, a, run[a]) => PriorMove(files', a, q)
    BY <1>2, <2>2, <2>3 DEF PriorMove, Carries, Weight, Bit, Keeps, Removing, Early, Replacing, Admitted
  <2>5. QED
    BY <1>3, <2>2, <2>3, <2>4
<1>7. QED
  BY <1>4, <1>5, <1>6 DEF JarNext, EditLocal, jarVars

\* As long as nobody has verified the pinned file in its place, the file that was
\* there before still exists somewhere, for every number of activations that take
\* turns at the path, fail, are lost or die half-way (the backup, the removal and
\* restoreRemoteJAR in ensureServerJARWith).
THEOREM PriorSurvives == JarSpec => []PriorKept
<1>1. JarTypeOK /\ VerifiedInv /\ PriorInv => PriorKept
  <2> SUFFICES ASSUME JarTypeOK, VerifiedInv, PriorInv, PriorWanted
               PROVE  \E p \in Path : files[p] = "Old"
    BY DEF PriorKept, PriorWanted
  <2>1. Balance /\ files[Jar] \in {"None", "Good", "Old"}
    BY DEF PriorInv, PriorWanted, VerifiedInv, Kept
  <2>2. CASE files[Jar] = "Old"
    BY <2>2 DEF Path
  <2>3. CASE Keepers # {}
    BY <2>3, PathsExist DEF Keepers, Keeps
  <2>4. CASE files[Jar] = "None"
    <3>1. Cardinality(Removers) + 1 <= Cardinality(Keepers) /\ Cardinality(Removers) \in Nat
      BY <2>1, <2>4, FS_CardinalityType DEF Balance, Bit
    <3>2. Cardinality(Keepers) # 0
      BY <3>1
    <3>3. Keepers # {}
      BY <3>2, FS_EmptySet
    <3>4. QED
      BY <3>3, <2>3
  <2>5. QED
    BY <2>1, <2>2, <2>3, <2>4 DEF Balance
<1>2. QED
  BY <1>1, VerifiedInit, VerifiedStep, PriorInit, PriorStep, PTL DEF JarSpec

=============================================================================
