---------------------------- MODULE WatcherProofs ----------------------------
(***************************************************************************)
(* Proofs about Watcher, for every number of files and of versions.        *)
(***************************************************************************)
EXTENDS Watcher, TLAPS

(* From one pause to the end of the next round, a file that still is what  *)
(* the watcher remembers has not changed since before that pause.          *)
Remembered ==
    pc \notin {"announce", "stopped"} =>
        \A f \in Files : previous[f] # 0 /\ previous[f] = file[f] => f \in settled

(* An upload that goes on after the cancellation was going on before.      *)
Finishing == pc = "upload" /\ cancelled => current \in inflight

IInv == TypeOK /\ Remembered /\ Finishing

LEMMA Numbers == /\ 0 \in 0..MaxVersion
                 /\ 0 \in 0..N
                 /\ \A f \in Files : f # 0 /\ f \in 0..N
                 /\ \A n \in 0..N : n # 0 => n \in Files
  BY WatcherAssumption DEF Files

LEMMA NothingSeen == Nothing \in Seen /\ \A f \in Files : Nothing[f] = 0
  BY Numbers DEF Nothing, Seen

LEMMA InitInv == Init => IInv
<1> SUFFICES ASSUME Init PROVE IInv
  OBVIOUS
<1>1. TypeOK
  <2>1. cancelled \in BOOLEAN /\ pc \notin {"attempt", "upload"}
    BY DEF Init
  <2> QED BY <2>1, Numbers, NothingSeen DEF Init, TypeOK
<1>2. Remembered /\ Finishing
  BY NothingSeen DEF Init, Remembered, Finishing
<1> QED BY <1>1, <1>2 DEF IInv

(* Every step preserves the types.                                         *)
LEMMA TypeStep == TypeOK /\ [Next]_vars => TypeOK'
<1> SUFFICES ASSUME TypeOK, [Next]_vars PROVE TypeOK'
  OBVIOUS
<1> USE Numbers, NothingSeen DEF TypeOK, Seen, Errors, BackToWalk, user, round, watch
<1>1. CASE StartRound
  BY <1>1 DEF StartRound
<1>2. ASSUME NEW f \in Files, Visit(f) PROVE TypeOK'
  <2>1. CASE todo' = {} /\ UNCHANGED <<pc, current, observed>>
    BY <1>2, <2>1 DEF Visit, Abort, Look
  <2>2. CASE Look(f)
    <3>1. observed' \in Seen
      BY <2>2 DEF Look
    <3> QED BY <1>2, <2>2, <3>1 DEF Visit, Look
  <2> QED BY <1>2, <2>1, <2>2 DEF Visit, Abort
<1>3. CASE Attempt
  <2>1. ASSUME NEW e \in Errors, Failed(e) PROVE TypeOK'
    BY <2>1 DEF Failed
  <2>2. ASSUME pc = "attempt", Take PROVE TypeOK'
    BY <2>2 DEF Take
  <2> QED BY <1>3, <2>1, <2>2 DEF Attempt
<1>4. CASE Stored
  <2>1. current \in Files
    BY <1>4 DEF Stored
  <2> QED BY <1>4, <2>1 DEF Stored
<1>5. CASE NotStored
  <2>1. ASSUME NEW e \in Errors, Failed(e) PROVE TypeOK'
    BY <2>1 DEF Failed
  <2> QED BY <1>5, <2>1 DEF NotStored
<1>6. CASE EndWalk
  BY <1>6 DEF EndWalk
<1>7. CASE Report
  BY <1>7 DEF Report
<1>8. CASE Announce
  BY <1>8 DEF Announce
<1>9. CASE Pause
  BY <1>9 DEF Pause
<1>10. CASE Stop
  BY <1>10 DEF Stop
<1>11. ASSUME NEW f \in Files, Write(f) PROVE TypeOK'
  <2>1. PICK v \in 1..MaxVersion : file' = [file EXCEPT ![f] = v]
    BY <1>11 DEF Write
  <2>2. v \in 0..MaxVersion
    BY WatcherAssumption
  <2> QED BY <1>11, <2>1, <2>2 DEF Write
<1>12. ASSUME NEW f \in Files, Delete(f) PROVE TypeOK'
  BY <1>12 DEF Delete
<1>13. ASSUME NEW f \in Files, Refuse(f) PROVE TypeOK'
  BY <1>13 DEF Refuse
<1>14. CASE Cancel
  <2>1. cancelled' \in BOOLEAN /\ inflight' \subseteq Files
    BY <1>14 DEF Cancel
  <2> QED BY <1>14, <2>1 DEF Cancel
<1>15. CASE UNCHANGED vars
  BY <1>15 DEF vars
<1> QED
  BY <1>1, <1>2, <1>3, <1>4, <1>5, <1>6, <1>7, <1>8, <1>9, <1>10, <1>11,
     <1>12, <1>13, <1>14, <1>15 DEF Next, Watching, Environment

(* What the other parts need of a step that leaves versions alone.         *)
LEMMA Quiet ==
    ASSUME IInv, UNCHANGED <<file, previous, observed, settled>>
    PROVE  pc \notin {"announce", "stopped"} => Remembered'
  BY DEF IInv, Remembered

(* Every step preserves what is remembered.                                *)
LEMMA RememberStep == IInv /\ [Next]_vars => Remembered'
<1> SUFFICES ASSUME IInv, [Next]_vars PROVE Remembered'
  OBVIOUS
<1> USE WatcherAssumption DEF IInv, TypeOK, Seen, Files, user, round, watch
<1>1. CASE StartRound
  BY <1>1, Quiet DEF StartRound, Remembered
<1>2. ASSUME NEW f \in Files, Visit(f) PROVE Remembered'
  BY <1>2 DEF Visit, Abort, Look, Remembered
<1>3. CASE Attempt
  BY <1>3, Quiet DEF Attempt, Failed, Take
<1>4. CASE Stored
  <2>1. \A f \in Files : file'[f] \in {0, file[f]}
    BY <1>4 DEF Stored
  <2> QED BY <1>4, <2>1 DEF Stored, Remembered
<1>5. CASE NotStored
  BY <1>5, Quiet DEF NotStored, Failed
<1>6. CASE EndWalk
  BY <1>6, Quiet DEF EndWalk
<1>7. CASE Report
  BY <1>7 DEF Report, Remembered
<1>8. CASE Announce
  BY <1>8 DEF Announce, Remembered
<1>9. CASE Pause
  BY <1>9, Quiet DEF Pause
<1>10. CASE Stop
  BY <1>10, Quiet DEF Stop
<1>11. ASSUME NEW f \in Files, Write(f) PROVE Remembered'
  <2>1. PICK v : ~ Remembers(f, v) /\ file' = [file EXCEPT ![f] = v]
    BY <1>11 DEF Write
  <2>2. \A g \in Files : file'[g] = (IF g = f THEN v ELSE file[g])
    BY <2>1
  <2>3. \A g \in Files : g # f /\ g \in settled => g \in settled'
    BY <1>11 DEF Write
  <2>4. previous[f] # file'[f]
    BY <2>1, <2>2 DEF Remembers
  <2> QED BY <1>11, <2>2, <2>3, <2>4 DEF Write, Remembered
<1>12. ASSUME NEW f \in Files, Delete(f) PROVE Remembered'
  <2>1. \A g \in Files : file'[g] = (IF g = f THEN 0 ELSE file[g])
    BY <1>12 DEF Delete
  <2> QED BY <1>12, <2>1 DEF Delete, Remembered
<1>13. ASSUME NEW f \in Files, Refuse(f) PROVE Remembered'
  BY <1>13 DEF Refuse, Remembered
<1>14. CASE Cancel
  BY <1>14 DEF Cancel, Remembered
<1>15. CASE UNCHANGED vars
  BY <1>15 DEF vars, Remembered
<1> QED
  BY <1>1, <1>2, <1>3, <1>4, <1>5, <1>6, <1>7, <1>8, <1>9, <1>10, <1>11,
     <1>12, <1>13, <1>14, <1>15 DEF Next, Watching, Environment

(* Only taking a file starts an upload, and that is not done any more      *)
(* after the cancellation.                                                 *)
LEMMA FinishStep == IInv /\ [Next]_vars => Finishing'
<1> SUFFICES ASSUME IInv, [Next]_vars, pc' = "upload", cancelled'
             PROVE  current' \in inflight'
  BY DEF Finishing
<1>1. CASE Cancel
  BY <1>1 DEF Cancel, watch
<1>2. CASE UNCHANGED <<pc, cancelled, current, inflight>>
  BY <1>2 DEF IInv, Finishing
<1>3. CASE Attempt
  BY <1>3 DEF Attempt, Take, Failed, BackToWalk, user
<1>4. ASSUME NEW f \in Files, Visit(f) PROVE FALSE
  BY <1>4 DEF Visit, Abort, Look
<1>5. CASE StartRound \/ Stored \/ NotStored \/ EndWalk \/ Report \/ Announce
           \/ Pause \/ Stop
  BY <1>5 DEF StartRound, Stored, NotStored, Failed, BackToWalk, EndWalk,
     Report, Announce, Pause, Stop
<1>6. ASSUME NEW f \in Files, Write(f) \/ Delete(f) \/ Refuse(f)
      PROVE  UNCHANGED <<pc, cancelled, current, inflight>>
  BY <1>6 DEF Write, Delete, Refuse, watch
<1> QED BY <1>1, <1>2, <1>3, <1>4, <1>5, <1>6
        DEF Next, Watching, Environment, vars

LEMMA StepInv == IInv /\ [Next]_vars => IInv'
  BY TypeStep, RememberStep, FinishStep DEF IInv

LEMMA Invariance == Spec => []IInv
<1>1. Init => IInv
  BY InitInv
<1>2. IInv /\ [Next]_vars => IInv'
  BY StepInv
<1> QED BY <1>1, <1>2, PTL DEF Spec

(* The variables of the watcher keep their types.                          *)
THEOREM TypeCorrect == Spec => []TypeOK
<1>1. IInv => TypeOK
  BY DEF IInv
<1> QED BY <1>1, Invariance, PTL

(* Only a file that did not change for a whole pause is attempted.         *)
THEOREM AttemptsSettled == Spec => AttemptsAreSettled
<1>1. IInv /\ [Next]_vars =>
        [pc = "walk" /\ pc' = "attempt" => current' \in settled]_vars
  <2> SUFFICES ASSUME IInv, Next, pc = "walk", pc' = "attempt"
               PROVE  current' \in settled
    BY DEF vars
  <2>1. PICK f \in Files : Visit(f)
    BY DEF Next, Watching, Environment, StartRound, Attempt, Take, Failed,
       BackToWalk, Stored, NotStored, EndWalk, Report, Announce, Pause, Stop, Write, Delete,
       Refuse, Cancel, watch
  <2>2. current' = f /\ Ready(f)
    BY <2>1 DEF Visit, Abort, Look
  <2> QED BY <2>2 DEF Ready, IInv, Remembered
<1> QED BY <1>1, Invariance, PTL DEF Spec, AttemptsAreSettled

(* After the cancellation, only the upload under way then can complete.    *)
THEOREM NothingNew == Spec => NothingNewAfterCancel
<1>1. IInv /\ [Next]_vars =>
        [\A f \in Files : cancelled /\ f \in stubs' \ stubs => f \in inflight]_vars
  <2> SUFFICES ASSUME IInv, Next, NEW f \in Files, cancelled, f \in stubs' \ stubs
               PROVE  f \in inflight
    BY DEF vars
  <2>1. Stored
    BY DEF Next, Watching, Environment, StartRound, Visit, Attempt, Take,
       Failed, NotStored, EndWalk, Report, Announce, Pause, Stop, Write,
       Delete, Refuse, Cancel, watch
  <2>2. f = current
    BY <2>1 DEF Stored, IInv, TypeOK, Seen
  <2> QED BY <2>1, <2>2 DEF Stored, IInv, Finishing
<1> QED BY <1>1, Invariance, PTL DEF Spec, NothingNewAfterCancel
=============================================================================
