----------------------- MODULE SnapshotDownload_proofs -----------------------
(***************************************************************************)
(* Theorems about SnapshotDownload, for every set of files and threads,    *)
(* every listing and every retry limit.                                    *)
(*                                                                         *)
(* What the publication promises needs one thing of its callers: that no   *)
(* two of them are inside a download at once (Serial).  The manager's lock *)
(* gives that to loads (LocksSerialize); the promises then follow          *)
(* (PublicationIsVerified, ReadinessIsTrue, StoreIsImplemented).  The run  *)
(* snapshot_race shows that without it they are lost.                      *)
(***************************************************************************)
EXTENDS SnapshotDownload, TLAPS

-----------------------------------------------------------------------------
(***************************************************************************)
(* Type correctness.                                                       *)
(***************************************************************************)
LEMMA InitTyped == Init => TypeOK
<1> SUFFICES ASSUME Init PROVE TypeOK
  OBVIOUS
<1> USE ConstantsAssumption DEF Init
<1>1. NoDir \in Dir
  BY DEF NoDir, Dir, Content
<1>2. target \in Dir
  BY <1>1 DEF Dir
<1>3. QED
  BY <1>1, <1>2 DEF TypeOK, Phase, Workers

\* A call that returns or raises leaves typed locals.
LEMMA LeaveTyped ==
  ASSUME TypeOK, NEW w \in Workers, Leave(w)
  PROVE  /\ lock' \in Loaders \cup {NoOne}
         /\ pc' \in [Workers -> Phase]
         /\ want' \in [Workers -> SUBSET Files]
         /\ todo' \in [Workers -> SUBSET Entries]
         /\ cur' \in [Workers -> Files \cup {NoFile}]
         /\ attempt' \in [Workers -> 1..MaxAttempts]
BY ConstantsAssumption DEF TypeOK, Leave, Goto, Phase

\* Every step keeps the types.
LEMMA StepTyped == TypeOK /\ [Next]_vars => TypeOK'
<1> SUFFICES ASSUME TypeOK, [Next]_vars PROVE TypeOK'
  OBVIOUS
<1> USE ConstantsAssumption
<1>0. NoDir \in Dir
  BY DEF NoDir, Dir, Content
<1>1. ASSUME NEW w \in Workers, StartLoad(w) PROVE TypeOK'
  BY <1>1 DEF TypeOK, StartLoad, Goto, Phase, disk, local
<1>2. ASSUME NEW w \in Workers, StartEnsure(w) PROVE TypeOK'
  BY <1>2 DEF TypeOK, StartEnsure, Goto, Phase, disk, local
<1>3. ASSUME NEW w \in Workers, CacheHit(w) PROVE TypeOK'
  BY <1>3 DEF TypeOK, CacheHit, Goto, Phase, disk, local
<1>4. ASSUME NEW w \in Workers, Expect(w) PROVE TypeOK'
  <2>1. PICK L \in Listings :
          /\ want' = [want EXCEPT ![w] = L]
          /\ Loop(w, L)
          /\ Goto(w, IF L # {} /\ target.dir THEN "adopt" ELSE "prepare")
    BY <1>4 DEF Expect
  <2>2. L \subseteq Files
    OBVIOUS
  <2>3. QED
    BY <1>4, <2>1, <2>2 DEF TypeOK, Expect, Goto, Loop, Phase, disk, Entries
<1>5. ASSUME NEW w \in Workers, NEW f \in Files, AdoptFile(w, f) PROVE TypeOK'
  BY <1>5 DEF TypeOK, AdoptFile, Goto, Loop, Phase, disk
<1>6. ASSUME NEW w \in Workers, Adopt(w) PROVE TypeOK'
  <2>1. [target EXCEPT !.sentinel = TRUE] \in Dir
    BY DEF TypeOK, Dir
  <2>2. CASE Leave(w) /\ UNCHANGED disk
    BY <2>2, LeaveTyped DEF TypeOK, disk
  <2>3. QED
    BY <1>6, <2>1, <2>2 DEF TypeOK, Adopt, Goto, Phase, disk, local
<1>7. ASSUME NEW w \in Workers, Prepare(w) PROVE TypeOK'
  <2>1. [partial EXCEPT !.dir = TRUE] \in Dir
    BY DEF TypeOK, Dir
  <2>2. CASE Leave(w)
    BY <1>7, <2>1, <2>2, LeaveTyped DEF TypeOK, Prepare
  <2>3. CASE Goto(w, "fetch") /\ Loop(w, Patterns)
             /\ UNCHANGED <<lock, want, cur, attempt>>
    BY <1>7, <2>1, <2>3 DEF TypeOK, Prepare, Goto, Loop, Phase, Entries
  <2>4. QED
    BY <1>7, <2>2, <2>3 DEF Prepare
<1>8. ASSUME NEW w \in Workers, NEW f \in Files, FetchFile(w, f) PROVE TypeOK'
  <2>1. \A c \in Content : [partial EXCEPT !.dir = TRUE, !.file[f] = c] \in Dir
    BY DEF TypeOK, Dir
  <2>2. partial' \in Dir
    BY <1>8, <2>1 DEF TypeOK, FetchFile, Land, Content
  <2>3. QED
    BY <1>8, <2>2 DEF TypeOK, FetchFile, Loop
<1>9. ASSUME NEW w \in Workers, FetchError(w) PROVE TypeOK'
  <2>1. CASE Leave(w)
    BY <1>9, <2>1, LeaveTyped DEF TypeOK, FetchError, disk
  <2>2. CASE /\ attempt[w] < MaxAttempts
             /\ attempt' = [attempt EXCEPT ![w] = @ + 1]
             /\ Loop(w, Patterns)
             /\ UNCHANGED <<lock, pc, want, cur>>
    BY <1>9, <2>2 DEF TypeOK, FetchError, Loop, disk, Entries
  <2>3. QED
    BY <1>9, <2>1, <2>2 DEF FetchError
<1>10. ASSUME NEW w \in Workers, FetchDone(w) PROVE TypeOK'
  BY <1>10 DEF TypeOK, FetchDone, Goto, Loop, Phase, disk, Entries
<1>11. ASSUME NEW w \in Workers, NEW f \in Files, VerifyFile(w, f) PROVE TypeOK'
  BY <1>11 DEF TypeOK, VerifyFile, Goto, Loop, Phase, disk
<1>12. ASSUME NEW w \in Workers, Unlink(w) PROVE TypeOK'
  <2>1. [partial EXCEPT !.file[cur[w]] = "absent"] \in Dir
    BY DEF TypeOK, Dir, Content
  <2>2. QED
    BY <1>12, <2>1 DEF TypeOK, Unlink, Goto, Phase, local
<1>13. ASSUME NEW w \in Workers, RefetchOne(w) PROVE TypeOK'
  <2>1. \A c \in Content :
          [partial EXCEPT !.dir = TRUE, !.file[cur[w]] = c] \in Dir
    BY DEF TypeOK, Dir
  <2>2. CASE Leave(w) /\ UNCHANGED partial
    BY <1>13, <2>2, LeaveTyped DEF TypeOK, RefetchOne
  <2>3. CASE /\ \E c \in {"good", "bad"} : Land(cur[w], c)
             /\ Goto(w, "recheck")
             /\ UNCHANGED <<lock, local>>
    <3>1. partial' \in Dir
      BY <2>1, <2>3 DEF Land, Content
    <3>2. QED
      BY <1>13, <2>3, <3>1 DEF TypeOK, RefetchOne, Goto, Phase, local
  <2>4. QED
    BY <1>13, <2>2, <2>3 DEF RefetchOne
<1>14. ASSUME NEW w \in Workers, Recheck(w) PROVE TypeOK'
  <2>1. CASE Leave(w)
    BY <1>14, <2>1, LeaveTyped DEF TypeOK, Recheck, disk
  <2>2. CASE /\ Goto(w, "verify")
             /\ Loop(w, todo[w] \ {cur[w]})
             /\ cur' = [cur EXCEPT ![w] = NoFile]
             /\ UNCHANGED <<lock, want, attempt>>
    BY <1>14, <2>2 DEF TypeOK, Recheck, Goto, Loop, Phase, disk
  <2>3. QED
    BY <1>14, <2>1, <2>2 DEF Recheck
<1>15. ASSUME NEW w \in Workers, Verified(w) PROVE TypeOK'
  <2>1. CASE Leave(w)
    BY <1>15, <2>1, LeaveTyped DEF TypeOK, Verified, disk
  <2>2. CASE Goto(w, "mark") /\ UNCHANGED <<lock, local>>
    BY <1>15, <2>2 DEF TypeOK, Verified, Goto, Phase, disk, local
  <2>3. QED
    BY <1>15, <2>1, <2>2 DEF Verified
<1>16. ASSUME NEW w \in Workers, Mark(w) PROVE TypeOK'
  <2>1. [partial EXCEPT !.sentinel = TRUE] \in Dir
    BY DEF TypeOK, Dir
  <2>2. CASE Leave(w) /\ UNCHANGED partial
    BY <1>16, <2>2, LeaveTyped DEF TypeOK, Mark
  <2>3. QED
    BY <1>16, <2>1, <2>2 DEF TypeOK, Mark, Goto, Phase, local
<1>17. ASSUME NEW w \in Workers, Clear(w) PROVE TypeOK'
  BY <1>17 DEF TypeOK, Clear, Goto, Loop, Phase, disk
<1>18. ASSUME NEW w \in Workers, NEW e \in Entries, RmtreeEntry(w, e)
       PROVE TypeOK'
  <2>1. [target EXCEPT !.sentinel = @ /\ e # VERIFIED_SENTINEL,
                       !.file = [f \in Files |->
                           IF f = e THEN "absent" ELSE @[f]]] \in Dir
    BY DEF TypeOK, Dir, Content
  <2>2. QED
    BY <1>18, <2>1 DEF TypeOK, RmtreeEntry, Loop
<1>19. ASSUME NEW w \in Workers, RmtreeEnd(w) PROVE TypeOK'
  BY <1>0, <1>19 DEF TypeOK, RmtreeEnd, Goto, Phase, local
<1>20. ASSUME NEW w \in Workers, Replace(w) PROVE TypeOK'
  <2>1. CASE Leave(w) /\ UNCHANGED disk
    BY <2>1, LeaveTyped DEF TypeOK, disk
  <2>2. QED
    BY <1>0, <1>20, <2>1 DEF TypeOK, Replace, Goto, Phase, local
<1>21. ASSUME NEW w \in Workers, Finish(w) PROVE TypeOK'
  BY <1>21, LeaveTyped DEF TypeOK, Finish, disk
<1>22. CASE Crash
  BY <1>22 DEF TypeOK, Crash, Phase, disk
<1>23. CASE UNCHANGED vars
  BY <1>23 DEF TypeOK, vars
<1>24. QED
  BY <1>1, <1>2, <1>3, <1>4, <1>5, <1>6, <1>7, <1>8, <1>9, <1>10, <1>11,
     <1>12, <1>13, <1>14, <1>15, <1>16, <1>17, <1>18, <1>19, <1>20, <1>21,
     <1>22, <1>23 DEF Next, Step, Start

\* In every reachable state each variable has its type: no step of a thread, and
\* no crash, leaves the directories or the threads outside their domains.
THEOREM TypeCorrect == Spec => []TypeOK
BY InitTyped, StepTyped, PTL DEF Spec

-----------------------------------------------------------------------------
(***************************************************************************)
(* The lock.                                                               *)
(***************************************************************************)
\* A thread inside a load is the holder of the manager's lock.
LockInv == \A w \in Loaders : pc[w] # "idle" => lock = w

\* Every step keeps the threads inside a load the holders of the lock.
LEMMA LockStep == TypeOK /\ LockInv /\ [Next]_vars => LockInv'
<1> SUFFICES ASSUME TypeOK, LockInv, [Next]_vars PROVE LockInv'
  OBVIOUS
<1> USE ConstantsAssumption
<1>1. ASSUME NEW w \in Workers, Leave(w) PROVE LockInv'
  BY <1>1 DEF TypeOK, LockInv, Leave, Goto, Workers
<1>2. ASSUME NEW w \in Workers, NEW phase \in Phase, Goto(w, phase),
             pc[w] # "idle", UNCHANGED lock
      PROVE  LockInv'
  BY <1>2 DEF TypeOK, LockInv, Goto, Workers
<1>3. ASSUME UNCHANGED <<lock, pc>> PROVE LockInv'
  BY <1>3 DEF LockInv
<1>4. ASSUME NEW w \in Workers, Start(w) PROVE LockInv'
  <2>1. CASE StartLoad(w)
    BY <2>1 DEF TypeOK, LockInv, StartLoad, Goto, Workers
  <2>2. CASE StartEnsure(w)
    BY <2>2 DEF TypeOK, LockInv, StartEnsure, Goto, Workers
  <2>3. QED
    BY <1>4, <2>1, <2>2 DEF Start
<1>5. ASSUME NEW w \in Workers, Step(w) PROVE LockInv'
  <2>1. CASE \/ CacheHit(w) \/ Expect(w) \/ Adopt(w) \/ Prepare(w)
             \/ FetchDone(w) \/ FetchError(w)
    BY <1>1, <1>2, <1>3, <2>1
    DEF CacheHit, Expect, Adopt, Prepare, FetchDone, FetchError, Phase, local
  <2>2. CASE \E f \in Files :
                AdoptFile(w, f) \/ FetchFile(w, f) \/ VerifyFile(w, f)
    BY <1>2, <1>3, <2>2 DEF AdoptFile, FetchFile, VerifyFile, Phase
  <2>3. CASE Unlink(w) \/ RefetchOne(w) \/ Recheck(w) \/ Verified(w)
    BY <1>1, <1>2, <2>3 DEF Unlink, RefetchOne, Recheck, Verified, Phase
  <2>4. CASE Mark(w) \/ Clear(w) \/ RmtreeEnd(w) \/ Replace(w) \/ Finish(w)
    BY <1>1, <1>2, <2>4 DEF Mark, Clear, RmtreeEnd, Replace, Finish, Phase
  <2>5. CASE \E e \in Entries : RmtreeEntry(w, e)
    BY <1>3, <2>5 DEF RmtreeEntry
  <2>6. QED
    BY <1>5, <2>1, <2>2, <2>3, <2>4, <2>5 DEF Step
<1>6. CASE Crash
  BY <1>6 DEF LockInv, Crash, Workers
<1>7. CASE UNCHANGED vars
  BY <1>3, <1>7 DEF vars
<1>8. QED
  BY <1>4, <1>5, <1>6, <1>7 DEF Next

\* Loads exclude one another: when every download is made inside
\* ModelManager.load, at most one thread is inside a download at any time.
THEOREM LocksSerialize == Ensurers = {} => (Spec => []Serial)
<1> SUFFICES ASSUME Ensurers = {} PROVE Spec => []Serial
  OBVIOUS
<1>1. Init => LockInv
  BY DEF Init, LockInv, Workers
<1>2. TypeOK /\ LockInv => Serial
  BY ConstantsAssumption DEF LockInv, Serial, Workers
<1>3. QED
  BY <1>1, <1>2, TypeCorrect, LockStep, PTL DEF Spec

-----------------------------------------------------------------------------
(***************************************************************************)
(* The publication.  What a thread has established by the time it is in a  *)
(* phase, while it is alone: no sentinel in the final place since it found *)
(* none; of its listing, the files it has passed are good; from "mark" on, *)
(* the whole listing is good in the staging directory.                     *)
(***************************************************************************)
Verifying == {"verify", "unlink", "refetch", "recheck"}
Refetching == {"unlink", "refetch", "recheck"}
Publishing == {"mark", "clear", "rmtree", "replace"}
Marked == {"clear", "rmtree", "replace"}

Unpublished(w) == pc[w] \notin {"idle", "check", "ready"} => ~target.sentinel
Listed(w) == pc[w] \notin {"idle", "check", "ready"} => want[w] \in Listings
AdoptPassed(w) == pc[w] = "adopt" => Holds(target, want[w] \ todo[w])
VerifyPassed(w) == pc[w] \in Verifying => Holds(partial, want[w] \ todo[w])
CurIsLeft(w) == pc[w] \in Refetching => cur[w] \in todo[w] \cap Files
Staged(w) == pc[w] \in Publishing => Holds(partial, want[w])
Stamped(w) == pc[w] \in Marked => partial.sentinel
Answered(w) == pc[w] = "ready" => target.sentinel

ThreadInv(w) ==
    /\ Unpublished(w) /\ Listed(w) /\ AdoptPassed(w) /\ VerifyPassed(w)
    /\ CurIsLeft(w) /\ Staged(w) /\ Stamped(w) /\ Answered(w)

IInv == PublishedIsVerified /\ \A w \in Workers : ThreadInv(w)

\* A thread outside every download satisfies its invariant, whatever is on disk.
LEMMA IdleInv == ASSUME NEW w \in Workers, pc[w] = "idle" PROVE ThreadInv(w)
BY DEF ThreadInv, Unpublished, Listed, AdoptPassed, VerifyPassed, CurIsLeft,
       Staged, Stamped, Answered, Verifying, Refetching, Publishing, Marked

\* The cache starts without a sentinel.
LEMMA InitUnpublished == Init => target.sentinel = FALSE
<1> SUFFICES ASSUME Init PROVE target.sentinel = FALSE
  OBVIOUS
<1>1. CASE target = NoDir
  BY <1>1 DEF NoDir
<1>2. CASE target \in
             [dir : {TRUE}, sentinel : {FALSE}, file : [Files -> Content]]
  <2>1. target.sentinel \in {FALSE}
    BY <1>2
  <2>2. QED
    BY <2>1
<1>3. QED
  BY <1>1, <1>2 DEF Init

\* The invariant holds of an initial cache.
LEMMA InitInv == Init => IInv
<1> SUFFICES ASSUME Init PROVE IInv
  OBVIOUS
<1>1. ~target.sentinel
  BY InitUnpublished
<1>2. \A w \in Workers : ThreadInv(w)
  BY IdleInv DEF Init
<1>3. QED
  BY <1>1, <1>2 DEF IInv, PublishedIsVerified

\* One step of a thread that is alone keeps its own invariant, keeps the final
\* place verified, and changes it only while it is unpublished.
LEMMA StepInv ==
  ASSUME TypeOK, IInv, NEW w \in Workers, Step(w)
  PROVE  /\ ThreadInv(w)'
         /\ PublishedIsVerified'
         /\ target.sentinel => target' = target
         /\ \A v \in Workers \ {w} : pc'[v] = pc[v]
         /\ pc[w] # "idle"
<1> USE ConstantsAssumption
<1> DEFINE Goal == /\ ThreadInv(w)'
                   /\ PublishedIsVerified'
                   /\ target.sentinel => target' = target
                   /\ \A v \in Workers \ {w} : pc'[v] = pc[v]
                   /\ pc[w] # "idle"
<1>0. ThreadInv(w)
  BY DEF IInv
<1>a. ASSUME Leave(w), UNCHANGED target, pc[w] # "idle" PROVE Goal
  <2>1. pc'[w] = "idle" /\ \A v \in Workers \ {w} : pc'[v] = pc[v]
    BY <1>a DEF Leave, Goto, TypeOK
  <2>2. ThreadInv(w)'
    BY <2>1 DEF ThreadInv, Unpublished, Listed, AdoptPassed, VerifyPassed,
                CurIsLeft, Staged, Stamped, Answered, Verifying, Refetching,
                Publishing, Marked
  <2>3. PublishedIsVerified'
    BY <1>a DEF IInv, PublishedIsVerified, Holds
  <2>4. QED
    BY <1>a, <2>1, <2>2, <2>3
<1>b. ASSUME UNCHANGED target PROVE PublishedIsVerified'
  BY <1>b DEF IInv, PublishedIsVerified, Holds
<1> USE DEF ThreadInv, Unpublished, Listed, AdoptPassed, VerifyPassed,
            CurIsLeft, Staged, Stamped, Answered, Verifying, Refetching,
            Publishing, Marked, Holds
<1>1. CASE CacheHit(w)
  BY <1>0, <1>1, <1>b DEF TypeOK, CacheHit, Goto, disk, local
<1>2. CASE Expect(w)
  <2>1. PICK L \in Listings :
          /\ want' = [want EXCEPT ![w] = L]
          /\ Loop(w, L)
          /\ Goto(w, IF L # {} /\ target.dir THEN "adopt" ELSE "prepare")
    BY <1>2 DEF Expect
  <2>2. want'[w] \ todo'[w] = {}
    BY <2>1 DEF TypeOK, Loop
  <2>3. QED
    BY <1>0, <1>2, <1>b, <2>1, <2>2 DEF TypeOK, Expect, Goto, disk
<1>3. ASSUME NEW f \in Files, AdoptFile(w, f) PROVE Goal
  BY <1>0, <1>3, <1>b DEF TypeOK, AdoptFile, Goto, Loop, disk
<1>4. CASE Adopt(w)
  <2>1. CASE Leave(w) /\ UNCHANGED target
    BY <1>4, <1>a, <2>1 DEF Adopt
  <2>2. CASE /\ target' = [target EXCEPT !.sentinel = TRUE]
             /\ Goto(w, "ready")
             /\ UNCHANGED <<lock, local>>
    <3>1. Holds(target, want[w]) /\ want[w] \in Listings /\ ~target.sentinel
      BY <1>0, <1>4 DEF Adopt
    <3>2. target'.sentinel /\ target'.file = target.file
      BY <2>2 DEF TypeOK, Dir
    <3>3. PublishedIsVerified'
      BY <3>1, <3>2 DEF PublishedIsVerified
    <3>4. QED
      BY <1>4, <2>2, <3>1, <3>2, <3>3 DEF TypeOK, Adopt, Goto
  <2>3. QED
    BY <1>4, <2>1, <2>2 DEF Adopt
<1>5. CASE Prepare(w)
  <2>1. CASE Leave(w)
    BY <1>5, <1>a, <2>1 DEF Prepare
  <2>2. CASE Goto(w, "fetch") /\ UNCHANGED <<lock, want, cur, attempt>>
    BY <1>0, <1>5, <1>b, <2>2 DEF TypeOK, Prepare, Goto
  <2>3. QED
    BY <1>5, <2>1, <2>2 DEF Prepare
<1>6. ASSUME NEW f \in Files, FetchFile(w, f) PROVE Goal
  BY <1>0, <1>6, <1>b DEF TypeOK, FetchFile
<1>7. CASE FetchError(w)
  BY <1>0, <1>7, <1>a, <1>b DEF TypeOK, FetchError, disk
<1>8. CASE FetchDone(w)
  <2>1. want'[w] \ todo'[w] = {}
    BY <1>8 DEF TypeOK, FetchDone, Loop
  <2>2. QED
    BY <1>0, <1>8, <1>b, <2>1 DEF TypeOK, FetchDone, Goto, disk
<1>9. ASSUME NEW f \in Files, VerifyFile(w, f) PROVE Goal
  BY <1>0, <1>9, <1>b DEF TypeOK, VerifyFile, Goto, Loop, disk
<1>10. CASE Unlink(w)
  <2>1. \A f \in want[w] \ todo[w] : partial'.file[f] = partial.file[f]
    BY <1>0, <1>10 DEF TypeOK, Unlink, Dir
  <2>2. QED
    BY <1>0, <1>10, <1>b, <2>1 DEF TypeOK, Unlink, Goto, local
<1>11. CASE RefetchOne(w)
  <2>1. CASE Leave(w)
    BY <1>11, <1>a, <2>1 DEF RefetchOne
  <2>2. CASE /\ \E c \in {"good", "bad"} : Land(cur[w], c)
             /\ Goto(w, "recheck")
             /\ UNCHANGED <<lock, local>>
    <3>1. \A f \in want[w] \ todo[w] : partial'.file[f] = partial.file[f]
      BY <1>0, <1>11, <2>2 DEF TypeOK, RefetchOne, Land, Dir
    <3>2. QED
      BY <1>0, <1>11, <1>b, <2>2, <3>1 DEF TypeOK, RefetchOne, Goto, local
  <2>3. QED
    BY <1>11, <2>1, <2>2 DEF RefetchOne
<1>12. CASE Recheck(w)
  <2>1. CASE Leave(w)
    BY <1>12, <1>a, <2>1 DEF Recheck, disk
  <2>2. CASE /\ partial.file[cur[w]] = "good"
             /\ Goto(w, "verify")
             /\ Loop(w, todo[w] \ {cur[w]})
             /\ UNCHANGED <<lock, want, attempt>>
    BY <1>0, <1>12, <1>b, <2>2 DEF TypeOK, Recheck, Goto, Loop, disk
  <2>3. QED
    BY <1>12, <2>1, <2>2 DEF Recheck
<1>13. CASE Verified(w)
  <2>1. CASE Leave(w)
    BY <1>13, <1>a, <2>1 DEF Verified, disk
  <2>2. CASE Goto(w, "mark") /\ UNCHANGED <<lock, local>>
    BY <1>0, <1>13, <1>b, <2>2 DEF TypeOK, Verified, Goto, disk, local
  <2>3. QED
    BY <1>13, <2>1, <2>2 DEF Verified
<1>14. CASE Mark(w)
  <2>1. CASE Leave(w)
    BY <1>14, <1>a, <2>1 DEF Mark
  <2>2. CASE /\ partial' = [partial EXCEPT !.sentinel = TRUE]
             /\ Goto(w, "clear")
             /\ UNCHANGED <<lock, local>>
    <3>1. partial'.sentinel /\ partial'.file = partial.file
      BY <2>2 DEF TypeOK, Dir
    <3>2. QED
      BY <1>0, <1>14, <1>b, <2>2, <3>1 DEF TypeOK, Mark, Goto, local
  <2>3. QED
    BY <1>14, <2>1, <2>2 DEF Mark
<1>15. CASE Clear(w)
  BY <1>0, <1>15, <1>b DEF TypeOK, Clear, Goto, disk
<1>16. ASSUME NEW e \in Entries, RmtreeEntry(w, e) PROVE Goal
  <2>1. ~target.sentinel
    BY <1>0, <1>16 DEF RmtreeEntry
  <2>2. ~target'.sentinel
    BY <1>16, <2>1 DEF TypeOK, RmtreeEntry, Dir
  <2>3. QED
    BY <1>0, <1>16, <2>1, <2>2
    DEF TypeOK, RmtreeEntry, PublishedIsVerified
<1>17. CASE RmtreeEnd(w)
  <2>1. ~target.sentinel
    BY <1>0, <1>17 DEF RmtreeEnd
  <2>2. ~target'.sentinel
    BY <1>17, <2>1 DEF RmtreeEnd, NoDir
  <2>3. QED
    BY <1>0, <1>17, <2>1, <2>2
    DEF TypeOK, RmtreeEnd, Goto, local, PublishedIsVerified
<1>18. CASE Replace(w)
  <2>1. CASE Leave(w) /\ UNCHANGED disk
    BY <1>18, <1>a, <2>1 DEF Replace, disk
  <2>2. CASE /\ target' = partial
             /\ Goto(w, "ready")
             /\ UNCHANGED <<lock, local>>
    <3>1. /\ ~target.sentinel /\ target'.sentinel
          /\ Holds(target', want[w]) /\ want[w] \in Listings
      BY <1>0, <1>18, <2>2 DEF Replace
    <3>2. PublishedIsVerified'
      BY <3>1 DEF PublishedIsVerified
    <3>3. QED
      BY <1>18, <2>2, <3>1, <3>2 DEF TypeOK, Replace, Goto
  <2>3. QED
    BY <1>18, <2>1, <2>2 DEF Replace
<1>19. CASE Finish(w)
  BY <1>19, <1>a DEF Finish, disk
<1>20. QED
  BY <1>1, <1>2, <1>3, <1>4, <1>5, <1>6, <1>7, <1>8, <1>9, <1>10, <1>11,
     <1>12, <1>13, <1>14, <1>15, <1>16, <1>17, <1>18, <1>19 DEF Step

\* What every step does to the final place, as long as the threads are serial.
LEMMA NextInv ==
  ASSUME TypeOK, IInv, Serial, [Next]_vars
  PROVE  IInv' /\ (target.sentinel => target' = target)
<1>1. ASSUME NEW w \in Workers, Start(w) PROVE IInv' /\ target' = target
  <2>1. UNCHANGED <<disk, local>> /\ Goto(w, "check")
    BY <1>1 DEF Start, StartLoad, StartEnsure
  <2>2. ASSUME NEW v \in Workers PROVE ThreadInv(v)'
    <3>1. CASE v = w
      BY <2>1, <3>1
      DEF TypeOK, Goto, ThreadInv, Unpublished, Listed, AdoptPassed,
          VerifyPassed, CurIsLeft, Staged, Stamped, Answered, Verifying,
          Refetching, Publishing, Marked
    <3>2. CASE v # w
      <4>1. pc'[v] = pc[v]
        BY <2>1, <3>2 DEF TypeOK, Goto
      <4>2. QED
        BY <2>1, <4>1
        DEF IInv, disk, local, ThreadInv, Unpublished, Listed, AdoptPassed,
            VerifyPassed, CurIsLeft, Staged, Stamped, Answered, Holds
    <3>3. QED
      BY <3>1, <3>2
  <2>3. PublishedIsVerified'
    BY <2>1 DEF IInv, PublishedIsVerified, Holds, disk
  <2>4. QED
    BY <2>1, <2>2, <2>3 DEF IInv, disk
<1>2. ASSUME NEW w \in Workers, Step(w)
      PROVE  IInv' /\ (target.sentinel => target' = target)
  <2>1. ASSUME NEW v \in Workers \ {w} PROVE ThreadInv(v)'
    <3>1. pc'[v] = "idle"
      BY <1>2, StepInv DEF Serial
    <3>2. QED
      BY <3>1
      DEF ThreadInv, Unpublished, Listed, AdoptPassed, VerifyPassed,
          CurIsLeft, Staged, Stamped, Answered, Verifying, Refetching,
          Publishing, Marked
  <2>2. QED
    BY <1>2, <2>1, StepInv DEF IInv
<1>3. CASE Crash
  <2>1. \A w \in Workers : pc'[w] = "idle"
    BY <1>3 DEF Crash
  <2>2. \A w \in Workers : ThreadInv(w)'
    BY <2>1
    DEF ThreadInv, Unpublished, Listed, AdoptPassed, VerifyPassed, CurIsLeft,
        Staged, Stamped, Answered, Verifying, Refetching, Publishing, Marked
  <2>3. QED
    BY <1>3, <2>2 DEF Crash, disk, IInv, PublishedIsVerified, Holds
<1>4. CASE UNCHANGED vars
  BY <1>4
  DEF vars, IInv, PublishedIsVerified, Holds, ThreadInv, Unpublished, Listed,
      AdoptPassed, VerifyPassed, CurIsLeft, Staged, Stamped, Answered
<1>5. QED
  BY <1>1, <1>2, <1>3, <1>4 DEF Next

\* While downloads are serial, a published snapshot holds the listed bytes, with
\* any number of threads, crashes at any point and any network.
THEOREM PublicationIsVerified == Spec /\ []Serial => []PublishedIsVerified
<1>1. IInv => PublishedIsVerified
  BY DEF IInv
<1>2. TypeOK /\ IInv /\ Serial /\ [Next]_vars => IInv'
  BY NextInv
<1>3. QED
  BY <1>1, <1>2, InitInv, TypeCorrect, PTL DEF Spec

\* While downloads are serial, a caller is told "ready", and a runtime reads the
\* snapshot, only when there is a published snapshot in the final place.
THEOREM ReadinessIsTrue == Spec /\ []Serial => []ReadyIsPublished
<1>1. IInv => ReadyIsPublished
  BY DEF IInv, ThreadInv, Answered, ReadyIsPublished
<1>2. TypeOK /\ IInv /\ Serial /\ [Next]_vars => IInv'
  BY NextInv
<1>3. QED
  BY <1>1, <1>2, InitInv, TypeCorrect, PTL DEF Spec

\* While downloads are serial, the cache implements the store its readers are
\* promised: a snapshot appears in one step, verified, and stays as it is.
THEOREM StoreIsImplemented == Spec /\ []Serial => StoreSpec
<1> DEFINE shelf == IF target.sentinel THEN target.file ELSE NoFile
<1>1. Init => Store!Init
  BY InitUnpublished DEF Store!Init
<1>2. TypeOK /\ IInv /\ Serial /\ [Next]_vars => [Store!Publish]_shelf
  <2> SUFFICES ASSUME TypeOK, IInv, Serial, [Next]_vars
               PROVE  [Store!Publish]_shelf
    OBVIOUS
  <2>1. /\ target.sentinel => target' = target
        /\ PublishedIsVerified'
    BY NextInv DEF IInv
  <2>2. target' \in Dir
    BY StepTyped DEF TypeOK
  <2>3. CASE ~target.sentinel /\ target'.sentinel
    <3>1. target'.file \in Store!Verifiable
      BY <2>1, <2>2, <2>3 DEF PublishedIsVerified, Holds, Dir, Store!Verifiable
    <3>2. QED
      BY <2>3, <3>1 DEF Store!Publish
  <2>4. CASE target.sentinel \/ ~target'.sentinel
    BY <2>1, <2>4
  <2>5. QED
    BY <2>3, <2>4
<1>3. TypeOK /\ IInv /\ Serial /\ [Next]_vars => IInv'
  BY NextInv
<1>4. QED
  BY <1>1, <1>2, <1>3, InitInv, TypeCorrect, PTL DEF Spec, StoreSpec, Store!Spec

-----------------------------------------------------------------------------
(***************************************************************************)
(* The whole snapshot.  snapshot_download returns only when every file the *)
(* patterns select is in the staging directory, checked or not; from then  *)
(* on only the second look at one file takes one away, and it puts it back.*)
(***************************************************************************)
Landed(w) ==
    pc[w] = "fetch" => \A f \in Patterns \ todo[w] : partial.file[f] # "absent"
Complete(w) ==
    pc[w] \in {"verify", "recheck"} \cup Publishing =>
        \A f \in Patterns : partial.file[f] # "absent"
ButOne(w) ==
    pc[w] \in {"unlink", "refetch"} =>
        \A f \in Patterns \ {cur[w]} : partial.file[f] # "absent"

WholeInv(w) == Landed(w) /\ Complete(w) /\ ButOne(w) /\ CurIsLeft(w)

\* A step of a thread that is alone keeps what it has fetched together, and what
\* it renames into the final place is whole.
LEMMA StepWhole ==
  ASSUME TypeOK, NEW w \in Workers, WholeInv(w), Step(w)
  PROVE  /\ WholeInv(w)'
         /\ \A v \in Workers \ {w} : pc'[v] = pc[v]
         /\ pc[w] # "idle"
         /\ pc[w] = "replace" /\ pc'[w] = "ready" =>
               \A f \in Patterns : target'.file[f] # "absent"
<1> USE ConstantsAssumption
<1> DEFINE Goal == /\ WholeInv(w)'
                   /\ \A v \in Workers \ {w} : pc'[v] = pc[v]
                   /\ pc[w] # "idle"
                   /\ pc[w] = "replace" /\ pc'[w] = "ready" =>
                         \A f \in Patterns : target'.file[f] # "absent"
<1> USE DEF WholeInv, Landed, Complete, ButOne, CurIsLeft, Refetching, Publishing
<1>a. ASSUME Leave(w), pc[w] # "idle" PROVE Goal
  BY <1>a DEF Leave, Goto, TypeOK
<1>1. CASE CacheHit(w)
  BY <1>1 DEF TypeOK, CacheHit, Goto, disk, local
<1>2. CASE Expect(w)
  <2>1. /\ pc' = [pc EXCEPT ![w] = pc'[w]]
        /\ pc[w] = "check" /\ pc'[w] \in {"adopt", "prepare"}
    BY <1>2 DEF TypeOK, Expect, Goto
  <2>2. QED
    BY <2>1 DEF TypeOK
<1>3. ASSUME NEW f \in Files, AdoptFile(w, f) PROVE Goal
  BY <1>3 DEF TypeOK, AdoptFile, Goto, Loop, disk
<1>4. CASE Adopt(w)
  BY <1>4, <1>a DEF TypeOK, Adopt, Goto, local
<1>5. CASE Prepare(w)
  <2>1. CASE Leave(w)
    BY <1>5, <1>a, <2>1 DEF Prepare
  <2>2. CASE Goto(w, "fetch") /\ Loop(w, Patterns)
             /\ UNCHANGED <<lock, want, cur, attempt>>
    BY <1>5, <2>2 DEF TypeOK, Prepare, Goto, Loop, Entries
  <2>3. QED
    BY <1>5, <2>1, <2>2 DEF Prepare
<1>6. ASSUME NEW f \in Files, FetchFile(w, f) PROVE Goal
  <2>1. todo'[w] = todo[w] \ {f} /\ pc' = pc /\ pc[w] = "fetch"
    BY <1>6 DEF TypeOK, FetchFile, Loop
  <2>2. CASE partial.file[f] # "absent" /\ UNCHANGED partial
    BY <2>1, <2>2
  <2>3. CASE \E c \in {"good", "bad"} : Land(f, c)
    <3>1. /\ partial'.file[f] # "absent"
          /\ \A g \in Files \ {f} : partial'.file[g] = partial.file[g]
      BY <2>3 DEF TypeOK, Land, Dir
    <3>2. QED
      BY <2>1, <3>1
  <2>4. QED
    BY <1>6, <2>2, <2>3 DEF FetchFile
<1>7. CASE FetchError(w)
  <2>1. CASE Leave(w)
    BY <1>7, <1>a, <2>1 DEF FetchError
  <2>2. CASE Loop(w, Patterns) /\ UNCHANGED <<disk, lock, pc, want, cur>>
    BY <1>7, <2>2 DEF TypeOK, FetchError, Loop, disk, Entries
  <2>3. QED
    BY <1>7, <2>1, <2>2 DEF FetchError
<1>8. CASE FetchDone(w)
  BY <1>8 DEF TypeOK, FetchDone, Goto, Loop, disk
<1>9. ASSUME NEW f \in Files, VerifyFile(w, f) PROVE Goal
  BY <1>9 DEF TypeOK, VerifyFile, Goto, Loop, disk
<1>10. CASE Unlink(w)
  <2>1. \A f \in Files \ {cur[w]} : partial'.file[f] = partial.file[f]
    BY <1>10 DEF TypeOK, Unlink, Dir
  <2>2. QED
    BY <1>10, <2>1 DEF TypeOK, Unlink, Goto, local
<1>11. CASE RefetchOne(w)
  <2>1. CASE Leave(w)
    BY <1>11, <1>a, <2>1 DEF RefetchOne
  <2>2. CASE /\ \E c \in {"good", "bad"} : Land(cur[w], c)
             /\ Goto(w, "recheck")
             /\ UNCHANGED <<lock, local>>
    <3>1. /\ partial'.file[cur[w]] # "absent"
          /\ \A f \in Files \ {cur[w]} : partial'.file[f] = partial.file[f]
      BY <1>11, <2>2 DEF TypeOK, RefetchOne, Land, Dir
    <3>2. QED
      BY <1>11, <2>2, <3>1 DEF TypeOK, RefetchOne, Goto, local
  <2>3. QED
    BY <1>11, <2>1, <2>2 DEF RefetchOne
<1>12. CASE Recheck(w)
  <2>1. CASE Leave(w)
    BY <1>12, <1>a, <2>1 DEF Recheck
  <2>2. CASE Goto(w, "verify") /\ UNCHANGED disk
    BY <1>12, <2>2 DEF TypeOK, Recheck, Goto, disk
  <2>3. QED
    BY <1>12, <2>1, <2>2 DEF Recheck
<1>13. CASE Verified(w)
  BY <1>13, <1>a DEF TypeOK, Verified, Goto, disk, local
<1>14. CASE Mark(w)
  <2>1. CASE Leave(w)
    BY <1>14, <1>a, <2>1 DEF Mark
  <2>2. CASE /\ partial' = [partial EXCEPT !.sentinel = TRUE]
             /\ Goto(w, "clear")
    <3>1. partial'.file = partial.file
      BY <2>2 DEF TypeOK, Dir
    <3>2. QED
      BY <1>14, <2>2, <3>1 DEF TypeOK, Mark, Goto
  <2>3. QED
    BY <1>14, <2>1, <2>2 DEF Mark
<1>15. CASE Clear(w)
  BY <1>15 DEF TypeOK, Clear, Goto, disk
<1>16. ASSUME NEW e \in Entries, RmtreeEntry(w, e) PROVE Goal
  BY <1>16 DEF TypeOK, RmtreeEntry
<1>17. CASE RmtreeEnd(w)
  BY <1>17 DEF TypeOK, RmtreeEnd, Goto
<1>18. CASE Replace(w)
  BY <1>18, <1>a DEF TypeOK, Replace, Goto
<1>19. CASE Finish(w)
  BY <1>19, <1>a DEF Finish
<1>20. QED
  BY <1>1, <1>2, <1>3, <1>4, <1>5, <1>6, <1>7, <1>8, <1>9, <1>10, <1>11,
     <1>12, <1>13, <1>14, <1>15, <1>16, <1>17, <1>18, <1>19 DEF Step

\* A thread outside every download has nothing to keep together.
LEMMA IdleWhole == ASSUME NEW w \in Workers, pc[w] = "idle" PROVE WholeInv(w)
BY DEF WholeInv, Landed, Complete, ButOne, CurIsLeft, Refetching, Publishing

\* While downloads are serial, every step keeps the invariant of every thread,
\* and a download that ends in a rename delivers every file.
LEMMA NextWhole ==
  ASSUME TypeOK, Serial, \A w \in Workers : WholeInv(w), [Next]_vars
  PROVE  /\ (\A w \in Workers : WholeInv(w))'
         /\ \A w \in Workers : pc[w] = "replace" /\ pc'[w] = "ready" =>
               \A f \in Patterns : target'.file[f] # "absent"
<1> DEFINE Goal == /\ \A w \in Workers : WholeInv(w)'
                   /\ \A w \in Workers : pc[w] = "replace" /\ pc'[w] = "ready" =>
                         \A f \in Patterns : target'.file[f] # "absent"
<1>1. ASSUME NEW w \in Workers, Start(w) PROVE Goal
  <2>1. UNCHANGED <<disk, local>> /\ Goto(w, "check") /\ pc[w] = "idle"
    BY <1>1 DEF Start, StartLoad, StartEnsure
  <2>2. \A v \in Workers : pc'[v] = IF v = w THEN "check" ELSE pc[v]
    BY <2>1 DEF TypeOK, Goto
  <2>3. QED
    BY <2>1, <2>2
    DEF disk, local, WholeInv, Landed, Complete, ButOne, CurIsLeft, Refetching,
        Publishing
<1>2. ASSUME NEW w \in Workers, Step(w) PROVE Goal
  <2>1. ASSUME NEW v \in Workers \ {w} PROVE pc[v] = "idle" /\ pc'[v] = "idle"
    BY <1>2, StepWhole DEF Serial
  <2>2. ASSUME NEW v \in Workers \ {w} PROVE WholeInv(v)'
    BY <2>1
    DEF WholeInv, Landed, Complete, ButOne, CurIsLeft, Refetching, Publishing
  <2>3. QED
    BY <1>2, <2>1, <2>2, StepWhole
<1>3. CASE Crash
  <2>1. \A w \in Workers : pc'[w] = "idle"
    BY <1>3 DEF Crash
  <2>2. QED
    BY <2>1
    DEF WholeInv, Landed, Complete, ButOne, CurIsLeft, Refetching, Publishing
<1>4. CASE UNCHANGED vars
  BY <1>4 DEF vars, WholeInv, Landed, Complete, ButOne, CurIsLeft
<1>5. QED
  BY <1>1, <1>2, <1>3, <1>4 DEF Next

\* While downloads are serial, a rename never publishes half a snapshot: every
\* file the runtime needs is there, those without a checksum included.
THEOREM DownloadsAreWhole == Spec /\ []Serial => FetchedIsWhole
<1> DEFINE WInv == \A w \in Workers : WholeInv(w)
<1>1. Init => WInv
  BY IdleWhole DEF Init
<1>2. TypeOK /\ WInv /\ Serial /\ [Next]_vars => WInv'
  BY NextWhole
<1>3. TypeOK /\ WInv /\ Serial /\ [Next]_vars =>
        [\A w \in Workers : pc[w] = "replace" /\ pc'[w] = "ready" =>
            \A f \in Patterns : target'.file[f] # "absent"]_vars
  BY NextWhole
<1>4. QED
  BY <1>1, <1>2, <1>3, TypeCorrect, PTL DEF Spec, FetchedIsWhole

-----------------------------------------------------------------------------
(***************************************************************************)
(* What holds of any threads, serial or not.                               *)
(***************************************************************************)
\* A directory that is not there holds no file, which is why a rename onto a
\* free name destroys nothing.
Housed == ~target.dir => \A f \in Files : target.file[f] = "absent"

\* Every step keeps the final place housed, and overwrites no good bytes in it.
LEMMA StepHoused ==
  ASSUME TypeOK, Housed, [Next]_vars
  PROVE  /\ Housed'
         /\ \A f \in Files : target.file[f] = "good" => target'.file[f] # "bad"
<1> DEFINE Goal ==
      /\ Housed'
      /\ \A f \in Files : target.file[f] = "good" => target'.file[f] # "bad"
<1>1. ASSUME UNCHANGED target PROVE Goal
  BY <1>1 DEF Housed
<1>2. ASSUME NEW w \in Workers, Adopt(w) PROVE Goal
  <2>1. target'.dir = target.dir /\ target'.file = target.file
    BY <1>2 DEF TypeOK, Adopt, Dir
  <2>2. QED
    BY <2>1 DEF Housed
<1>3. ASSUME NEW w \in Workers, NEW e \in Entries, RmtreeEntry(w, e) PROVE Goal
  <2>1. /\ target'.dir = target.dir
        /\ \A f \in Files : target'.file[f] \in {target.file[f], "absent"}
    <3>1. CASE target' = [target EXCEPT !.sentinel = @ /\ e # VERIFIED_SENTINEL,
                                        !.file = [f \in Files |->
                                            IF f = e THEN "absent" ELSE @[f]]]
      <4>1. /\ target'.dir = target.dir
            /\ target'.file = [f \in Files |->
                                  IF f = e THEN "absent" ELSE target.file[f]]
        BY <3>1 DEF TypeOK, Dir
      <4>2. QED
        BY <4>1
    <3>2. CASE UNCHANGED target
      BY <3>2
    <3>3. QED
      BY <1>3, <3>1, <3>2 DEF RmtreeEntry
  <2>2. QED
    BY <2>1 DEF Housed
<1>4. ASSUME NEW w \in Workers, RmtreeEnd(w) PROVE Goal
  BY <1>4 DEF RmtreeEnd, NoDir, IsEmpty, Housed
<1>5. ASSUME NEW w \in Workers, Replace(w) PROVE Goal
  <2>1. CASE CanReplace /\ target' = partial
    BY <2>1 DEF CanReplace, IsEmpty, Housed
  <2>2. CASE UNCHANGED target
    BY <1>1, <2>2
  <2>3. QED
    BY <1>5, <2>1, <2>2 DEF Replace, disk
<1>6. ASSUME NEW w \in Workers, Start(w) PROVE UNCHANGED target
  BY <1>6 DEF Start, StartLoad, StartEnsure, disk
<1>7. ASSUME NEW w \in Workers, Step(w) PROVE Goal
  <2>1. CASE \/ CacheHit(w) \/ Expect(w) \/ Prepare(w) \/ FetchError(w)
             \/ FetchDone(w) \/ Unlink(w) \/ RefetchOne(w) \/ Recheck(w)
             \/ Verified(w) \/ Mark(w) \/ Clear(w) \/ Finish(w)
             \/ \E f \in Files : AdoptFile(w, f) \/ FetchFile(w, f)
                                  \/ VerifyFile(w, f)
    BY <1>1, <2>1
    DEF CacheHit, Expect, Prepare, FetchError, FetchDone, Unlink, RefetchOne,
        Recheck, Verified, Mark, Clear, Finish, AdoptFile, FetchFile,
        VerifyFile, disk
  <2>2. QED
    BY <1>2, <1>3, <1>4, <1>5, <1>7, <2>1 DEF Step
<1>8. CASE Crash
  BY <1>1, <1>8 DEF Crash, disk
<1>9. CASE UNCHANGED vars
  BY <1>1, <1>9 DEF vars
<1>10. QED
  BY <1>1, <1>6, <1>7, <1>8, <1>9 DEF Next

\* Whatever threads are inside a download at once, with or without the lock, good
\* bytes in the final place are never overwritten there.
THEOREM GoodBytesStay == Spec => NeverOverwritten
<1>1. Init => Housed
  <2> SUFFICES ASSUME Init PROVE Housed
    OBVIOUS
  <2>1. CASE target = NoDir
    BY <2>1 DEF NoDir, Housed
  <2>2. CASE target \in
               [dir : {TRUE}, sentinel : {FALSE}, file : [Files -> Content]]
    <3>1. target.dir \in {TRUE}
      BY <2>2
    <3>2. QED
      BY <3>1 DEF Housed
  <2>3. QED
    BY <2>1, <2>2 DEF Init
<1>2. TypeOK /\ Housed /\ [Next]_vars => Housed'
  BY StepHoused
<1>3. TypeOK /\ Housed /\ [Next]_vars =>
        [\A f \in Files : target.file[f] = "good" => target'.file[f] # "bad"]_vars
  BY StepHoused
<1>4. QED
  BY <1>1, <1>2, <1>3, TypeCorrect, PTL DEF Spec, NeverOverwritten

-----------------------------------------------------------------------------
(***************************************************************************)
(* Why every call ends.                                                    *)
(***************************************************************************)
\* The file a thread fetches a second time is one its loop has still to pass.
LEMMA CurStep ==
  ASSUME TypeOK, \A w \in Workers : CurIsLeft(w), [Next]_vars
  PROVE  (\A w \in Workers : CurIsLeft(w))'
<1> DEFINE Goal == \A w \in Workers : CurIsLeft(w)'
<1> USE DEF CurIsLeft, Refetching
<1>a. ASSUME NEW w \in Workers, Leave(w) PROVE Goal
  BY <1>a DEF TypeOK, Leave, Goto
<1>b. ASSUME NEW w \in Workers, pc' = [pc EXCEPT ![w] = pc'[w]],
             pc'[w] \notin Refetching,
             todo' = [todo EXCEPT ![w] = todo'[w]],
             cur' = [cur EXCEPT ![w] = cur'[w]]
      PROVE  Goal
  BY <1>b DEF TypeOK
<1>c. ASSUME UNCHANGED <<pc, todo, cur>> PROVE Goal
  BY <1>c
<1>1. ASSUME NEW w \in Workers, Start(w) PROVE Goal
  BY <1>1, <1>b DEF TypeOK, Start, StartLoad, StartEnsure, Goto, local
<1>2. ASSUME NEW w \in Workers, Step(w) PROVE Goal
  <2>1. CASE CacheHit(w) \/ Expect(w) \/ FetchDone(w) \/ Clear(w) \/ RmtreeEnd(w)
    BY <1>b, <2>1
    DEF TypeOK, CacheHit, Expect, FetchDone, Clear, RmtreeEnd, Goto, Loop, local
  <2>2. CASE Adopt(w) \/ Mark(w) \/ Replace(w) \/ Verified(w) \/ Finish(w)
    BY <1>a, <1>b, <2>2
    DEF TypeOK, Adopt, Mark, Replace, Verified, Finish, Goto, local
  <2>3. CASE Prepare(w)
    BY <1>a, <1>b, <2>3 DEF TypeOK, Prepare, Goto, Loop
  <2>4. CASE FetchError(w)
    BY <1>a, <1>b, <2>4 DEF TypeOK, FetchError, Loop
  <2>5. ASSUME NEW f \in Files, AdoptFile(w, f) \/ FetchFile(w, f) PROVE Goal
    BY <1>b, <2>5 DEF TypeOK, AdoptFile, FetchFile, Goto, Loop
  <2>6. ASSUME NEW f \in Files, VerifyFile(w, f) PROVE Goal
    BY <2>6 DEF TypeOK, VerifyFile, Goto, Loop
  <2>7. CASE Unlink(w)
    BY <2>7 DEF TypeOK, Unlink, Goto, local
  <2>8. CASE RefetchOne(w)
    BY <1>a, <2>8 DEF TypeOK, RefetchOne, Goto, local
  <2>9. CASE Recheck(w)
    BY <1>a, <1>b, <2>9 DEF TypeOK, Recheck, Goto, Loop
  <2>10. ASSUME NEW e \in Entries, RmtreeEntry(w, e) PROVE Goal
    BY <1>b, <2>10 DEF TypeOK, RmtreeEntry, Loop
  <2>11. QED
    BY <1>2, <2>1, <2>2, <2>3, <2>4, <2>5, <2>6, <2>7, <2>8, <2>9, <2>10
    DEF Step
<1>3. CASE Crash
  BY <1>3 DEF Crash
<1>4. CASE UNCHANGED vars
  BY <1>c, <1>4 DEF vars
<1>5. QED
  BY <1>1, <1>2, <1>3, <1>4 DEF Next

\* The order of the sections of a call, and of the places of a second look.
LEMMA SectionOrder ==
  /\ Section("check") = 10 /\ Section("adopt") = 9 /\ Section("prepare") = 8
  /\ Section("fetch") = 7
  /\ Section("verify") = 6 /\ Section("unlink") = 6
  /\ Section("refetch") = 6 /\ Section("recheck") = 6
  /\ Section("mark") = 5 /\ Section("clear") = 4 /\ Section("rmtree") = 3
  /\ Section("replace") = 2 /\ Section("ready") = 1 /\ Section("idle") = 0
  /\ Place("verify") = 3 /\ Place("unlink") = 2 /\ Place("refetch") = 1
  /\ Place("recheck") = 0
BY Zenon DEF Section, Place

\* A step of a thread takes its call to a later section, or on in its loop.
LEMMA StepCloser ==
  ASSUME TypeOK, NEW w \in Workers, CurIsLeft(w), Step(w)
  PROVE  Closer(w)
<1> USE SectionOrder DEF Closer
<1>a. ASSUME Leave(w), pc[w] \in Phase \ {"idle"} PROVE Closer(w)
  BY <1>a DEF TypeOK, Leave, Goto, Phase
<1>1. CASE CacheHit(w) \/ Unlink(w) \/ RmtreeEnd(w)
  BY <1>1 DEF TypeOK, CacheHit, Unlink, RmtreeEnd, Goto, local
<1>2. CASE Expect(w)
  <2>1. pc[w] = "check" /\ pc'[w] \in {"adopt", "prepare"}
    BY <1>2 DEF TypeOK, Expect, Goto
  <2>2. QED
    BY <2>1
<1>3. ASSUME NEW f \in Files, AdoptFile(w, f) PROVE Closer(w)
  BY <1>3 DEF TypeOK, AdoptFile, Goto, Loop
<1>4. CASE Adopt(w) \/ Mark(w) \/ Replace(w) \/ Finish(w)
  BY <1>4, <1>a DEF TypeOK, Adopt, Mark, Replace, Finish, Goto, Phase
<1>5. CASE Prepare(w)
  BY <1>5, <1>a DEF TypeOK, Prepare, Goto, Phase
<1>6. ASSUME NEW f \in Files, FetchFile(w, f) PROVE Closer(w)
  BY <1>6 DEF TypeOK, FetchFile, Loop
<1>7. CASE FetchError(w)
  BY <1>7, <1>a DEF TypeOK, FetchError, Phase
<1>8. CASE FetchDone(w) \/ Clear(w)
  BY <1>8 DEF TypeOK, FetchDone, Clear, Goto
<1>9. ASSUME NEW f \in Files, VerifyFile(w, f) PROVE Closer(w)
  BY <1>9 DEF TypeOK, VerifyFile, Goto, Loop
<1>10. CASE RefetchOne(w)
  BY <1>10, <1>a DEF TypeOK, RefetchOne, Goto, local, Phase
<1>11. CASE Recheck(w)
  BY <1>11, <1>a DEF TypeOK, Recheck, Goto, Loop, Phase, CurIsLeft, Refetching
<1>12. CASE Verified(w)
  BY <1>12, <1>a DEF TypeOK, Verified, Goto, Phase
<1>13. ASSUME NEW e \in Entries, RmtreeEntry(w, e) PROVE Closer(w)
  BY <1>13 DEF TypeOK, RmtreeEntry, Loop
<1>14. QED
  BY <1>1, <1>2, <1>3, <1>4, <1>5, <1>6, <1>7, <1>8, <1>9, <1>10, <1>11,
     <1>12, <1>13 DEF Step

\* Whatever the network, the disk and the other threads do, each step of a call
\* brings it closer to its end.
THEOREM CallsAreFinite == Spec => StepsCount
<1> DEFINE CInv == \A w \in Workers : CurIsLeft(w)
<1>1. Init => CInv
  BY DEF Init, CurIsLeft, Refetching
<1>2. TypeOK /\ CInv /\ [Next]_vars => CInv'
  BY CurStep
<1>3. TypeOK /\ CInv /\ [Next]_vars =>
        [\A w \in Workers : Step(w) => Closer(w)]_vars
  BY StepCloser
<1>4. QED
  BY <1>1, <1>2, <1>3, TypeCorrect, PTL DEF Spec, StepsCount

-----------------------------------------------------------------------------
\* What the application gets when every download is made by a load: the manager's
\* lock alone makes the publication verified, whole and atomic.
THEOREM LoadsPublishSafely ==
  Ensurers = {} =>
    (Spec => /\ []PublishedIsVerified
             /\ []ReadyIsPublished
             /\ FetchedIsWhole
             /\ StoreSpec)
BY LocksSerialize, PublicationIsVerified, ReadinessIsTrue, DownloadsAreWhole,
   StoreIsImplemented, PTL
=============================================================================
