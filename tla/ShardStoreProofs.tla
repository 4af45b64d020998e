--------------------------- MODULE ShardStoreProofs ---------------------------
(***************************************************************************)
(* Proofs about ShardStore for every set of requests and every bound of    *)
(* the collision loop: the UploadTracker keeps transfers out of each       *)
(* other's directories when no requested name is a suffixed form of       *)
(* another, and without restarts no directory is left empty or partial.   *)
(***************************************************************************)
EXTENDS ShardStore, FiniteSetTheorems, TLAPS

\* A request that holds its claim in the tracker.
Holding(r) == pc[r] \in {"stat", "mkdir", "write", "unpacked", "read", "exit"}

\* A push between the collision loop and the end of its unpack.
Writing(r) == pc[r] \in {"mkdir", "write", "unpacked"}

\* Every holder's name is in the tracker.
ClaimsTracked == \A r \in Requests : Holding(r) => Reqs[r].name \in tracker

\* No two holders share a name.
OneHolder ==
    \A r1, r2 \in Requests :
        r1 # r2 /\ Holding(r1) /\ Holding(r2) => Reqs[r1].name # Reqs[r2].name

\* A push works in the candidate its loop stopped at.
WriteTarget ==
    \A r \in Requests : Writing(r) => target[r] = Candidate(Reqs[r].name, k[r])

\* Pushes and pulls stay on their own paths through the handlers.
OnPath ==
    \A r \in Requests :
        /\ Reqs[r].kind = "push" => pc[r] # "read"
        /\ Reqs[r].kind = "pull" => pc[r] \notin {"stat", "mkdir", "write", "unpacked"}

\* The invariant that makes ExclusiveDir inductive.
ExclInv == StoreTypeOK /\ ClaimsTracked /\ OneHolder /\ WriteTarget /\ OnPath

\* With no restarts, an empty or partial directory is the target of a push
\* that is still writing.
TornInv ==
    \A d \in Dirs : dirs[d] \in {"empty", "partial"} =>
        \E r \in Requests : Reqs[r].kind = "push" /\ Writing(r) /\ target[r] = d

USE ShardStoreAssumptions

-----------------------------------------------------------------------------
(* ExclInv is an inductive invariant of every behaviour, restarts included. *)

\* The requests start idle with an empty tracker and nothing on disk.
LEMMA ExclInvInit == StoreInit => ExclInv
BY DEF StoreInit, ExclInv, StoreTypeOK, ClaimsTracked, OneHolder, WriteTarget, OnPath,
       Holding, Writing

\* Every handler step, and a restart, keeps the tracker's claims and the
\* holders' names in step: EnterUpload refuses a claimed name, ExitUpload
\* releases the name only its one holder has, a restart drops every holder.
LEMMA ExclInvStep == ExclInv /\ [StoreNext]_vars => ExclInv'
<1> SUFFICES ASSUME ExclInv, [StoreNext]_vars PROVE ExclInv'
    OBVIOUS
<1> USE DEF ExclInv
<1>1. ASSUME NEW r \in Requests, EnterUpload(r) PROVE ExclInv'
    <2>1. CASE Reqs[r].name \in tracker
        BY <1>1, <2>1 DEF EnterUpload, StoreTypeOK, ClaimsTracked, OneHolder, WriteTarget,
                          OnPath, Holding, Writing
    <2>2. CASE Reqs[r].name \notin tracker
        BY <1>1, <2>2 DEF EnterUpload, StoreTypeOK, ClaimsTracked, OneHolder, WriteTarget,
                          OnPath, Holding, Writing
    <2>. QED  BY <2>1, <2>2
<1>2. ASSUME NEW r \in Requests, StatCandidate(r) PROVE ExclInv'
    <2>1. Candidate(Reqs[r].name, k[r]) \in Dirs
        BY DEF StoreTypeOK, Dirs
    <2>2. CASE dirs[Candidate(Reqs[r].name, k[r])] = "absent" \/ k[r] + 1 = MaxSuffix
        BY <1>2, <2>1, <2>2 DEF StatCandidate, StoreTypeOK, ClaimsTracked, OneHolder,
                                WriteTarget, OnPath, Holding, Writing
    <2>3. CASE ~(dirs[Candidate(Reqs[r].name, k[r])] = "absent" \/ k[r] + 1 = MaxSuffix)
        BY <1>2, <2>3 DEF StatCandidate, StoreTypeOK, ClaimsTracked, OneHolder,
                          WriteTarget, OnPath, Holding, Writing
    <2>. QED  BY <2>2, <2>3
<1>3. ASSUME NEW r \in Requests, MkdirAll(r) PROVE ExclInv'
    <2>0. target[r] \in Dirs
        BY <1>3 DEF MkdirAll, WriteTarget, Writing, StoreTypeOK, Dirs
    <2>1. CASE /\ dirs' = [dirs EXCEPT ![target[r]] = IF @ = "absent" THEN "empty" ELSE @]
               /\ pc' = [pc EXCEPT ![r] = "write"]
        BY <1>3, <2>0, <2>1 DEF MkdirAll, StoreTypeOK, ClaimsTracked, OneHolder, WriteTarget,
                          OnPath, Holding, Writing
    <2>2. CASE pc' = [pc EXCEPT ![r] = "exit"] /\ UNCHANGED dirs
        BY <1>3, <2>2 DEF MkdirAll, StoreTypeOK, ClaimsTracked, OneHolder, WriteTarget,
                          OnPath, Holding, Writing
    <2>. QED  BY <1>3, <2>1, <2>2 DEF MkdirAll
<1>4. ASSUME NEW r \in Requests, WriteFiles(r) PROVE ExclInv'
    <2>0. target[r] \in Dirs
        BY <1>4 DEF WriteFiles, WriteTarget, Writing, StoreTypeOK, Dirs
    <2>. QED  BY <1>4, <2>0 DEF WriteFiles, StoreTypeOK, ClaimsTracked, OneHolder,
                               WriteTarget, OnPath, Holding, Writing
<1>5. ASSUME NEW r \in Requests, UnpackEnd(r) PROVE ExclInv'
    BY <1>5 DEF UnpackEnd, StoreTypeOK, ClaimsTracked, OneHolder, WriteTarget, OnPath,
                Holding, Writing
<1>6. ASSUME NEW r \in Requests, ReadShard(r) PROVE ExclInv'
    BY <1>6 DEF ReadShard, StoreTypeOK, ClaimsTracked, OneHolder, WriteTarget, OnPath,
                Holding, Writing
<1>7. ASSUME NEW r \in Requests, ExitUpload(r) PROVE ExclInv'
    BY <1>7 DEF ExitUpload, StoreTypeOK, ClaimsTracked, OneHolder, WriteTarget, OnPath,
                Holding, Writing
<1>8. CASE Crash
    BY <1>8 DEF Crash, StoreTypeOK, ClaimsTracked, OneHolder, WriteTarget, OnPath,
                Holding, Writing
<1>9. CASE UNCHANGED vars
    BY <1>9 DEF vars, StoreTypeOK, ClaimsTracked, OneHolder, WriteTarget, OnPath,
                Holding, Writing
<1>. QED  BY <1>1, <1>2, <1>3, <1>4, <1>5, <1>6, <1>7, <1>8, <1>9 DEF StoreNext
-----------------------------------------------------------------------------
\* A transfer at work holds its claim and works in one of its name's
\* candidates: the pushed directory its loop chose, or the pulled name.
LEMMA ActiveCandidate ==
    ASSUME ExclInv, NEW r \in Requests, ActiveDir(r) # NoDir
    PROVE  /\ Holding(r)
           /\ \E j \in 0..MaxSuffix - 1 : ActiveDir(r) = Candidate(Reqs[r].name, j)
<1>1. CASE Reqs[r].kind = "push" /\ pc[r] \in {"mkdir", "write", "unpacked"}
    BY <1>1 DEF ActiveDir, ExclInv, WriteTarget, StoreTypeOK, Holding, Writing
<1>2. CASE Reqs[r].kind = "pull" /\ pc[r] = "read"
    <2>1. ActiveDir(r) = Candidate(Reqs[r].name, 0)
        BY <1>2 DEF ActiveDir, Candidate
    <2>. QED  BY <1>2, <2>1 DEF Holding
<1>. QED  BY <1>1, <1>2 DEF ActiveDir

\* Distinct holders have distinct names, and distinct names share no
\* candidate: no two transfers work in one directory.
LEMMA ExclInvExclusive == ExclInv /\ UnambiguousNames => ExclusiveDir
<1> SUFFICES ASSUME ExclInv, UnambiguousNames,
                    NEW r1 \in Requests, NEW r2 \in Requests, r1 # r2,
                    ActiveDir(r1) # NoDir, ActiveDir(r1) = ActiveDir(r2)
             PROVE  FALSE
    BY DEF ExclusiveDir
<1>1. PICK j1 \in 0..MaxSuffix - 1 : ActiveDir(r1) = Candidate(Reqs[r1].name, j1)
    BY ActiveCandidate
<1>2. PICK j2 \in 0..MaxSuffix - 1 : ActiveDir(r2) = Candidate(Reqs[r2].name, j2)
    BY ActiveCandidate
<1>3. Reqs[r1].name = Reqs[r2].name
    BY <1>1, <1>2 DEF UnambiguousNames
<1>4. Holding(r1) /\ Holding(r2)
    BY ActiveCandidate
<1>. QED  BY <1>3, <1>4 DEF ExclInv, OneHolder

\* A directory a push is writing is none of the candidates of another
\* holder's name.
LEMMA CandidateFree ==
    ASSUME ExclInv, UnambiguousNames,
           NEW r1 \in Requests, NEW r2 \in Requests, r1 # r2,
           Holding(r1), Writing(r2), NEW j \in 0..MaxSuffix - 1
    PROVE  Candidate(Reqs[r1].name, j) # target[r2]
<1>1. target[r2] = Candidate(Reqs[r2].name, k[r2]) /\ k[r2] \in 0..MaxSuffix - 1
    BY DEF ExclInv, WriteTarget, StoreTypeOK
<1>2. Holding(r2)
    BY DEF Writing, Holding
<1>. QED  BY <1>1, <1>2 DEF UnambiguousNames, ExclInv, OneHolder

\* Two pushes never write the same directory.
LEMMA DistinctTargets ==
    ASSUME ExclInv, UnambiguousNames,
           NEW r1 \in Requests, NEW r2 \in Requests, r1 # r2,
           Writing(r1), Writing(r2)
    PROVE  target[r1] # target[r2]
<1>1. target[r1] = Candidate(Reqs[r1].name, k[r1]) /\ k[r1] \in 0..MaxSuffix - 1
    BY DEF ExclInv, WriteTarget, StoreTypeOK
<1>2. Holding(r1)
    BY DEF Writing, Holding
<1>. QED  BY <1>1, <1>2, CandidateFree

-----------------------------------------------------------------------------
(* Without restarts no directory is left torn.                             *)

\* A push about to call MkdirAll has not picked a torn directory.
MkdirClean ==
    \A r \in Requests :
        Reqs[r].kind = "push" /\ pc[r] = "mkdir" => dirs[target[r]] \notin {"empty", "partial"}

TornFree == TornInv /\ MkdirClean

LEMMA TornFreeInit == StoreInit => TornFree
BY DEF StoreInit, TornFree, TornInv, MkdirClean

Torn == {"empty", "partial"}

\* Each step of a handler keeps every torn directory with its writer: the
\* collision loop never stops at a directory another push is writing,
\* MkdirAll's failure leaves no directory behind, and UnpackEnd either
\* completes the directory or removes it.
LEMMA TornFreeStep ==
    ASSUME ExclInv, TornFree, UnambiguousNames, ~Crashes, [StoreNext]_vars
    PROVE  TornFree'
<1>0. StoreTypeOK
    BY DEF ExclInv
<1> USE <1>0 DEF TornFree, StoreTypeOK, Requests
<1>1. ASSUME NEW r \in Requests, EnterUpload(r) PROVE TornFree'
    BY <1>1 DEF EnterUpload, TornInv, MkdirClean, Writing
<1>2. ASSUME NEW r \in Requests, StatCandidate(r) PROVE TornFree'
    <2> DEFINE nm == Candidate(Reqs[r].name, k[r])
    <2>1. CASE dirs[nm] = "absent" \/ k[r] + 1 = MaxSuffix
        <3>2. \A r2 \in Requests : r2 # r /\ Writing(r2) => nm # target[r2]
            BY <1>2, CandidateFree DEF StatCandidate, Holding, ExclInv, StoreTypeOK
        <3>1. nm \in Dirs
            BY DEF Dirs
        <3>3. dirs[nm] \notin Torn
            BY <3>1, <3>2, <1>2 DEF StatCandidate, TornInv, Torn, Writing
        <3>4. TornInv'
            BY <1>2, <2>1 DEF StatCandidate, TornInv, Writing
        <3>. QED  BY <1>2, <2>1, <3>3, <3>4 DEF StatCandidate, MkdirClean, Torn
    <2>5. CASE ~(dirs[nm] = "absent" \/ k[r] + 1 = MaxSuffix)
        BY <1>2, <2>5 DEF StatCandidate, TornInv, MkdirClean, Writing
    <2>. QED  BY <2>1, <2>5
<1>3. ASSUME NEW r \in Requests, MkdirAll(r) PROVE TornFree'
    <2>0. /\ Reqs[r].kind = "push"
          /\ target[r] \in Dirs
          /\ dirs[target[r]] \notin Torn
        BY <1>3 DEF MkdirAll, MkdirClean, ExclInv, OnPath, WriteTarget, Writing, StoreTypeOK,
                    Dirs, Torn
    <2>1. \A r2 \in Requests : r2 # r /\ Writing(r2) => target[r2] # target[r]
        BY <1>3, DistinctTargets DEF MkdirAll, Writing
    <2>2. CASE /\ dirs' = [dirs EXCEPT ![target[r]] = IF @ = "absent" THEN "empty" ELSE @]
               /\ pc' = [pc EXCEPT ![r] = "write"]
        BY <1>3, <2>0, <2>1, <2>2 DEF MkdirAll, TornInv, MkdirClean, Writing, Torn
    <2>3. CASE pc' = [pc EXCEPT ![r] = "exit"] /\ UNCHANGED dirs
        BY <1>3, <2>0, <2>3 DEF MkdirAll, TornInv, MkdirClean, Writing, Torn
    <2>. QED  BY <1>3, <2>2, <2>3 DEF MkdirAll
<1>4. ASSUME NEW r \in Requests, WriteFiles(r) PROVE TornFree'
    <2>1. \A r2 \in Requests : r2 # r /\ Writing(r2) => target[r2] # target[r]
        BY <1>4, DistinctTargets DEF WriteFiles, Writing
    <2>2. Reqs[r].kind = "push"
        BY <1>4 DEF WriteFiles, ExclInv, OnPath
    <2>. QED  BY <1>4, <2>1, <2>2 DEF WriteFiles, TornInv, MkdirClean, Writing
<1>5. ASSUME NEW r \in Requests, UnpackEnd(r) PROVE TornFree'
    <2>1. \A r2 \in Requests : r2 # r /\ Writing(r2) => target[r2] # target[r]
        BY <1>5, DistinctTargets DEF UnpackEnd, Writing
    <2>0. target[r] \in Dirs
        BY <1>5 DEF UnpackEnd, ExclInv, WriteTarget, Writing, Dirs
    <2>2. CASE dirs' = [dirs EXCEPT ![target[r]] = "complete"]
        BY <1>5, <2>0, <2>1, <2>2 DEF UnpackEnd, TornInv, MkdirClean, Writing
    <2>3. CASE dirs' = [dirs EXCEPT ![target[r]] = "absent"]
        BY <1>5, <2>0, <2>1, <2>3 DEF UnpackEnd, TornInv, MkdirClean, Writing
    <2>. QED  BY <1>5, <2>2, <2>3 DEF UnpackEnd
<1>6. ASSUME NEW r \in Requests, ReadShard(r) PROVE TornFree'
    BY <1>6 DEF ReadShard, TornInv, MkdirClean, Writing
<1>7. ASSUME NEW r \in Requests, ExitUpload(r) PROVE TornFree'
    BY <1>7 DEF ExitUpload, TornInv, MkdirClean, Writing
<1>8. CASE UNCHANGED vars
    BY <1>8 DEF vars, TornInv, MkdirClean, Writing
<1>. QED  BY <1>1, <1>2, <1>3, <1>4, <1>5, <1>6, <1>7, <1>8 DEF StoreNext, Crash

-----------------------------------------------------------------------------
(* Theorems.                                                               *)

\* Every reachable state is well typed: the tracker holds requested names,
\* and the collision loop's index stays within its 10000 (MaxSuffix)
\* candidates.
THEOREM StoreTypeCorrect == StoreSpec => []StoreTypeOK
<1>1. ExclInv => StoreTypeOK
    BY DEF ExclInv
<1>. QED  BY ExclInvInit, ExclInvStep, <1>1, PTL DEF StoreSpec

\* When no requested name is a suffixed form of another, the UploadTracker
\* claim taken by EnterUpload in UnpackShard and PackShard keeps every
\* push and pull out of each other's directory, restarts included.
THEOREM ExclusiveDirHolds ==
    ASSUME UnambiguousNames PROVE StoreSpec => []ExclusiveDir
<1>1. ExclInv => ExclusiveDir
    BY ExclInvExclusive
<1>. QED  BY ExclInvInit, ExclInvStep, <1>1, PTL DEF StoreSpec

\* Without a restart of the server process, UnpackShard's error paths
\* (os.RemoveAll before ExitUpload) leave no shard directory empty or
\* partial once its push has stopped writing, provided no requested name
\* is a suffixed form of another.
THEOREM NoTornShardHolds ==
    ASSUME UnambiguousNames, ~Crashes PROVE StoreSpec => []NoTornShard
<1>1. StoreInit => ExclInv /\ TornFree
    BY ExclInvInit, TornFreeInit
<1>2. ExclInv /\ TornFree /\ [StoreNext]_vars => ExclInv' /\ TornFree'
    BY ExclInvStep, TornFreeStep
<1>3. TornFree => NoTornShard
    BY DEF TornFree, TornInv, NoTornShard, ActiveDir, Writing
<1>. QED  BY <1>1, <1>2, <1>3, PTL DEF StoreSpec

-----------------------------------------------------------------------------
(* A stored shard is never rewritten.                                      *)

\* The pushes that ask for shard name nm.
PushesOf(nm) == {r \in Requests : Reqs[r].kind = "push" /\ Reqs[r].name = nm}

\* No name is pushed more often than the collision loop has candidates
\* (10000 in the code): a push never runs out of names to try.
FewPushes ==
    \A r \in Requests : IsFiniteSet(PushesOf(Reqs[r].name))
                        /\ Cardinality(PushesOf(Reqs[r].name)) <= MaxSuffix

\* A push whose loop has stopped, at the candidate its target records;
\* nothing about it changes afterwards, restarts included.
Placed(r) ==
    /\ Reqs[r].kind = "push"
    /\ pc[r] \notin {"idle", "stat"}
    /\ target[r] = Candidate(Reqs[r].name, k[r])

\* Every directory on disk was created by a push that picked it.
DirsOwned ==
    \A d \in Dirs : dirs[d] # "absent" => \E r \in Requests : Placed(r) /\ target[r] = d

\* Each candidate a push's loop has passed over is the pick of another
\* push.
LoopSeen ==
    \A r \in Requests :
        Reqs[r].kind = "push" /\ pc[r] = "stat" =>
            \A j \in 0..k[r] - 1 :
                \E r2 \in Requests : Placed(r2) /\ target[r2] = Candidate(Reqs[r].name, j)

\* A request that has not started has not moved its loop.
IdleFresh == \A r \in Requests : pc[r] = "idle" => k[r] = 0

\* A push never writes into a complete directory.
NoClobber ==
    \A r \in Requests :
        Reqs[r].kind = "push" /\ Writing(r) => dirs[target[r]] # "complete"

\* The invariant that makes NoOverwrite hold.
OInv == ExclInv /\ DirsOwned /\ LoopSeen /\ IdleFresh /\ NoClobber

\* The collision loop's candidates for one name are pairwise different.
LEMMA CandidateInjective ==
    ASSUME NEW C, NEW nm \in Seq(C), NEW j1 \in Nat, NEW j2 \in Nat,
           Candidate(nm, j1) = Candidate(nm, j2)
    PROVE  j1 = j2
<1>1. CASE j1 = 0 /\ j2 # 0
    <2>1. Len(Append(nm, j2)) = Len(nm) + 1
        OBVIOUS
    <2>. QED  BY <1>1, <2>1 DEF Candidate
<1>2. CASE j1 # 0 /\ j2 = 0
    <2>1. Len(Append(nm, j1)) = Len(nm) + 1
        OBVIOUS
    <2>. QED  BY <1>2, <2>1 DEF Candidate
<1>3. CASE j1 # 0 /\ j2 # 0
    <2>1. Append(nm, j1)[Len(nm) + 1] = j1 /\ Append(nm, j2)[Len(nm) + 1] = j2
        OBVIOUS
    <2>. QED  BY <1>3, <2>1 DEF Candidate
<1>. QED  BY <1>1, <1>2, <1>3

\* A push that has picked its directory keeps its pick through every step.
LEMMA PlacedStable ==
    ASSUME ExclInv, [StoreNext]_vars, NEW r \in Requests, Placed(r)
    PROVE  Placed(r)' /\ target'[r] = target[r]
<1>0. StoreTypeOK
    BY DEF ExclInv
<1> USE <1>0 DEF StoreTypeOK, Requests
<1>1. ASSUME NEW r2 \in Requests,
             \/ EnterUpload(r2) \/ StatCandidate(r2) \/ MkdirAll(r2) \/ WriteFiles(r2)
             \/ UnpackEnd(r2) \/ ReadShard(r2) \/ ExitUpload(r2)
      PROVE  Placed(r)' /\ target'[r] = target[r]
    <2>1. CASE r2 = r
        BY <1>1, <2>1 DEF EnterUpload, StatCandidate, MkdirAll, WriteFiles, UnpackEnd,
                          ReadShard, ExitUpload, Placed
    <2>2. CASE r2 # r
        BY <1>1, <2>2 DEF EnterUpload, StatCandidate, MkdirAll, WriteFiles, UnpackEnd,
                          ReadShard, ExitUpload, Placed
    <2>. QED  BY <2>1, <2>2
<1>2. CASE Crash
    BY <1>2 DEF Crash, Placed
<1>3. CASE UNCHANGED vars
    BY <1>3 DEF vars, Placed
<1>. QED  BY <1>1, <1>2, <1>3 DEF StoreNext

\* Names are sequences of path components over some set C.
NamesOver(C) == \A r \in Requests : Reqs[r].name \in Seq(C)

\* When no name is pushed more often than the loop has candidates, a loop
\* that reaches its last candidate without a Stat finds it absent: every
\* earlier candidate, and that one if it were on disk, is the pick of a
\* different push of the same name, one push too many.
LEMMA LastCandidateFree ==
    ASSUME NEW C, NamesOver(C), ExclInv, DirsOwned, LoopSeen, UnambiguousNames,
           FewPushes, NEW r \in Requests, Reqs[r].kind = "push", pc[r] = "stat",
           k[r] + 1 = MaxSuffix
    PROVE  dirs[Candidate(Reqs[r].name, k[r])] = "absent"
<1> DEFINE N == Reqs[r].name
           Pick(j) == CHOOSE r2 \in Requests : Placed(r2) /\ target[r2] = Candidate(N, j)
           f == [j \in 0..MaxSuffix |-> IF j = MaxSuffix THEN r ELSE Pick(j)]
<1>0. StoreTypeOK /\ N \in Seq(C) /\ MaxSuffix \in Nat
    BY DEF ExclInv, NamesOver
<1> SUFFICES ASSUME dirs[Candidate(N, k[r])] # "absent" PROVE FALSE
    OBVIOUS
<1>1. ASSUME NEW j \in 0..MaxSuffix - 1
      PROVE  \E r2 \in Requests : Placed(r2) /\ target[r2] = Candidate(N, j)
    <2>1. CASE j < k[r]
        <3>1. j \in 0..k[r] - 1
            BY <1>0, <2>1 DEF StoreTypeOK
        <3>. QED  BY <3>1 DEF LoopSeen
    <2>2. CASE j = k[r]
        <3>1. Candidate(N, j) \in Dirs
            BY <2>2 DEF Dirs
        <3>. QED  BY <2>2, <3>1 DEF DirsOwned
    <2>. QED  BY <1>0, <1>1, <2>1, <2>2 DEF StoreTypeOK
<1>2. ASSUME NEW j \in 0..MaxSuffix - 1
      PROVE  /\ Pick(j) \in PushesOf(N)
             /\ Pick(j) # r
             /\ target[Pick(j)] = Candidate(N, j)
    <2>1. Pick(j) \in Requests /\ Placed(Pick(j)) /\ target[Pick(j)] = Candidate(N, j)
        BY <1>1
    <2>2. k[Pick(j)] \in 0..MaxSuffix - 1
        BY <1>0, <2>1 DEF StoreTypeOK
    <2>3. Reqs[Pick(j)].name = N
        BY <2>1, <2>2 DEF Placed, UnambiguousNames
    <2>. QED  BY <2>1, <2>3 DEF Placed, PushesOf
<1>3. f \in Injection(0..MaxSuffix, PushesOf(N))
    <2>1. f \in [0..MaxSuffix -> PushesOf(N)]
        BY <1>2 DEF PushesOf
    <2>2. ASSUME NEW a \in 0..MaxSuffix, NEW c \in 0..MaxSuffix, f[a] = f[c]
          PROVE  a = c
        <3>1. CASE a # MaxSuffix /\ c # MaxSuffix
            <4>1. Candidate(N, a) = Candidate(N, c)
                BY <1>2, <2>2, <3>1
            <4>. QED  BY <1>0, <4>1, CandidateInjective
        <3>2. CASE a = MaxSuffix /\ c # MaxSuffix
            BY <1>2, <2>2, <3>2
        <3>3. CASE a # MaxSuffix /\ c = MaxSuffix
            BY <1>2, <2>2, <3>3
        <3>. QED  BY <3>1, <3>2, <3>3
    <2>. QED  BY <2>1, <2>2 DEF Injection, IsInjective
<1>4. IsFiniteSet(PushesOf(N)) /\ Cardinality(PushesOf(N)) <= MaxSuffix
    BY DEF FewPushes
<1>5. Cardinality(0..MaxSuffix) <= Cardinality(PushesOf(N))
    BY <1>3, <1>4, FS_Injection
<1>6. Cardinality(0..MaxSuffix) = MaxSuffix + 1
    <2>1. 0 \in Int /\ MaxSuffix \in Int /\ ~(0 > MaxSuffix)
        BY <1>0
    <2>2. Cardinality(0..MaxSuffix) = IF 0 > MaxSuffix THEN 0 ELSE MaxSuffix - 0 + 1
        BY <2>1, FS_Interval
    <2>. QED  BY <2>1, <2>2
<1>7. Cardinality(PushesOf(N)) \in Nat
    BY <1>4, FS_CardinalityType
<1>. QED  BY <1>0, <1>4, <1>5, <1>6, <1>7

\* How one request moves: nothing goes back to idle or into the loop from
\* past it, and only the request's own Stat of a directory on disk moves
\* its loop on.
LEMMA RequestMoves ==
    ASSUME ExclInv, [StoreNext]_vars, NEW r \in Requests
    PROVE  /\ pc'[r] = "idle" => pc[r] = "idle"
           /\ pc'[r] = "stat" => pc[r] \in {"idle", "stat"}
           /\ pc[r] = "idle" /\ pc'[r] = "stat" => k'[r] = k[r]
           /\ k'[r] # k[r] =>
                 /\ pc[r] = "stat" /\ pc'[r] = "stat" /\ k'[r] = k[r] + 1
                 /\ dirs[Candidate(Reqs[r].name, k[r])] # "absent"
<1>0. StoreTypeOK
    BY DEF ExclInv
<1> USE <1>0 DEF StoreTypeOK, Requests
<1>1. ASSUME NEW r2 \in Requests,
             \/ EnterUpload(r2) \/ MkdirAll(r2) \/ WriteFiles(r2)
             \/ UnpackEnd(r2) \/ ReadShard(r2) \/ ExitUpload(r2)
      PROVE  /\ pc'[r] = "idle" => pc[r] = "idle"
             /\ pc'[r] = "stat" => pc[r] \in {"idle", "stat"}
             /\ k'[r] = k[r]
    BY <1>1 DEF EnterUpload, MkdirAll, WriteFiles, UnpackEnd, ReadShard, ExitUpload
<1>2. ASSUME NEW r2 \in Requests, StatCandidate(r2)
      PROVE  /\ pc'[r] = "idle" => pc[r] = "idle"
             /\ pc'[r] = "stat" => pc[r] \in {"idle", "stat"}
             /\ k'[r] # k[r] =>
                   /\ pc[r] = "stat" /\ pc'[r] = "stat" /\ k'[r] = k[r] + 1
                   /\ dirs[Candidate(Reqs[r].name, k[r])] # "absent"
    <2>1. CASE r2 = r
        BY <1>2, <2>1 DEF StatCandidate
    <2>2. CASE r2 # r
        BY <1>2, <2>2 DEF StatCandidate
    <2>. QED  BY <2>1, <2>2
<1>3. CASE Crash \/ UNCHANGED vars
    BY <1>3 DEF Crash, vars
<1>. QED  BY <1>1, <1>2, <1>3 DEF StoreNext

\* A push between its loop and the end of its unpack has placed itself.
LEMMA WritingPlaced ==
    ASSUME ExclInv, NEW r \in Requests, Writing(r)
    PROVE  Placed(r) /\ target[r] \in Dirs
<1>1. Reqs[r].kind = "push"
    BY DEF ExclInv, OnPath, Writing, Requests
<1>2. target[r] = Candidate(Reqs[r].name, k[r]) /\ k[r] \in 0..MaxSuffix - 1
    BY DEF ExclInv, WriteTarget, StoreTypeOK
<1>3. target[r] \in Dirs
    BY <1>2 DEF Dirs
<1>. QED  BY <1>1, <1>2, <1>3 DEF Placed, Writing

\* Each directory on disk keeps a push that placed itself there: MkdirAll
\* and the unpack only touch their own push's pick.
LEMMA DirsOwnedStep ==
    ASSUME OInv, [StoreNext]_vars
    PROVE  DirsOwned'
<1>0. ExclInv /\ StoreTypeOK
    BY DEF OInv, ExclInv
<1> SUFFICES ASSUME NEW d \in Dirs, dirs'[d] # "absent"
             PROVE  \E r \in Requests : Placed(r)' /\ target'[r] = d
    BY DEF DirsOwned
<1>1. CASE dirs[d] # "absent"
    <2>1. PICK r2 \in Requests : Placed(r2) /\ target[r2] = d
        BY <1>1 DEF OInv, DirsOwned
    <2>. QED  BY <1>0, <2>1, PlacedStable
<1>2. CASE dirs[d] = "absent"
    <2>1. ASSUME NEW r \in Requests, MkdirAll(r) \/ WriteFiles(r) \/ UnpackEnd(r)
          PROVE  \E r3 \in Requests : Placed(r3)' /\ target'[r3] = d
        <3>1. Writing(r)
            BY <2>1 DEF MkdirAll, WriteFiles, UnpackEnd, Writing
        <3>2. Placed(r) /\ target[r] \in Dirs
            BY <1>0, <3>1, WritingPlaced
        <3>3. d = target[r]
            BY <1>0, <1>2, <2>1 DEF MkdirAll, WriteFiles, UnpackEnd, StoreTypeOK
        <3>4. Placed(r)' /\ target'[r] = target[r]
            BY <1>0, <3>2, PlacedStable, <2>1 DEF StoreNext
        <3>. QED  BY <3>3, <3>4
    <2>2. ASSUME NEW r \in Requests,
                 EnterUpload(r) \/ StatCandidate(r) \/ ReadShard(r) \/ ExitUpload(r)
          PROVE  FALSE
        BY <1>2, <2>2 DEF EnterUpload, StatCandidate, ReadShard, ExitUpload
    <2>3. CASE Crash \/ UNCHANGED vars
        BY <1>2, <2>3 DEF Crash, vars
    <2>. QED  BY <2>1, <2>2, <2>3 DEF StoreNext
<1>. QED  BY <1>1, <1>2

\* The candidates a loop has passed over stay picked, and the one it
\* passes over now is on disk, so some push picked it.
LEMMA LoopSeenStep ==
    ASSUME OInv, [StoreNext]_vars
    PROVE  LoopSeen'
<1>0. ExclInv /\ StoreTypeOK
    BY DEF OInv, ExclInv
<1> SUFFICES ASSUME NEW r \in Requests, Reqs[r].kind = "push", pc'[r] = "stat",
                    NEW j \in 0..k'[r] - 1
             PROVE  \E r2 \in Requests : Placed(r2)' /\ target'[r2] = Candidate(Reqs[r].name, j)
    BY DEF LoopSeen
<1>1. ASSUME NEW X, \E r2 \in Requests : Placed(r2) /\ target[r2] = X
      PROVE  \E r2 \in Requests : Placed(r2)' /\ target'[r2] = X
    BY <1>0, <1>1, PlacedStable
<1>2. pc[r] \in {"idle", "stat"}
    BY <1>0, RequestMoves
<1>3. CASE pc[r] = "idle"
    <2>1. k'[r] = 0
        BY <1>0, <1>3, RequestMoves DEF OInv, IdleFresh
    <2>. QED  BY <2>1
<1>4. CASE pc[r] = "stat" /\ k'[r] = k[r]
    BY <1>1, <1>4 DEF OInv, LoopSeen
<1>5. CASE pc[r] = "stat" /\ k'[r] # k[r]
    <2>1. k'[r] = k[r] + 1 /\ dirs[Candidate(Reqs[r].name, k[r])] # "absent"
          /\ k[r] \in 0..MaxSuffix - 1
        BY <1>0, <1>5, RequestMoves DEF StoreTypeOK
    <2>2. CASE j < k[r]
        BY <1>1, <1>5, <2>1, <2>2 DEF OInv, LoopSeen
    <2>3. CASE j = k[r]
        <3>1. Candidate(Reqs[r].name, k[r]) \in Dirs
            BY <2>1 DEF Dirs
        <3>. QED  BY <1>1, <2>1, <2>3, <3>1 DEF OInv, DirsOwned
    <2>. QED  BY <2>1, <2>2, <2>3
<1>. QED  BY <1>2, <1>3, <1>4, <1>5

\* A request that has not started has not moved its loop.
LEMMA IdleFreshStep ==
    ASSUME OInv, [StoreNext]_vars
    PROVE  IdleFresh'
<1>0. ExclInv
    BY DEF OInv
<1>. QED  BY <1>0, RequestMoves DEF OInv, IdleFresh

\* No push starts writing into a complete directory: its loop stops at an
\* absent candidate or, having run out, at a last candidate no push has
\* taken; and another push's MkdirAll or unpack never touches its pick.
LEMMA NoClobberStep ==
    ASSUME NEW C, NamesOver(C), UnambiguousNames, FewPushes, OInv, [StoreNext]_vars
    PROVE  NoClobber'
<1>0. ExclInv /\ StoreTypeOK
    BY DEF OInv, ExclInv
<1> SUFFICES ASSUME NEW r \in Requests, Reqs[r].kind = "push", Writing(r)'
             PROVE  dirs'[target'[r]] # "complete"
    BY DEF NoClobber
<1>1. ASSUME NEW r2 \in Requests, r2 # r,
             \/ EnterUpload(r2) \/ StatCandidate(r2) \/ MkdirAll(r2) \/ WriteFiles(r2)
             \/ UnpackEnd(r2) \/ ReadShard(r2) \/ ExitUpload(r2)
      PROVE  dirs'[target'[r]] # "complete"
    <2>1. Writing(r) /\ target'[r] = target[r]
        BY <1>0, <1>1 DEF StoreTypeOK, EnterUpload, StatCandidate, MkdirAll, WriteFiles, UnpackEnd,
                    ReadShard, ExitUpload, Writing
    <2>2. dirs[target[r]] # "complete"
        BY <2>1 DEF OInv, NoClobber
    <2>3. CASE MkdirAll(r2) \/ WriteFiles(r2) \/ UnpackEnd(r2)
        <3>1. Writing(r2)
            BY <2>3 DEF MkdirAll, WriteFiles, UnpackEnd, Writing
        <3>2. target[r2] # target[r]
            BY <1>0, <1>1, <2>1, <3>1, DistinctTargets
        <3>3. target[r] \in Dirs
            BY <1>0, <2>1, WritingPlaced
        <3>. QED  BY <1>0, <2>1, <2>2, <2>3, <3>2, <3>3
                  DEF MkdirAll, WriteFiles, UnpackEnd, StoreTypeOK
    <2>4. CASE EnterUpload(r2) \/ StatCandidate(r2) \/ ReadShard(r2) \/ ExitUpload(r2)
        BY <2>1, <2>2, <2>4 DEF EnterUpload, StatCandidate, ReadShard, ExitUpload
    <2>. QED  BY <1>1, <2>3, <2>4
<1>2. CASE StatCandidate(r)
    <2> DEFINE nm == Candidate(Reqs[r].name, k[r])
    <2>1. pc[r] = "stat" /\ pc'[r] = "mkdir" /\ target'[r] = nm /\ UNCHANGED dirs
          /\ (dirs[nm] = "absent" \/ k[r] + 1 = MaxSuffix)
        BY <1>0, <1>2 DEF StatCandidate, Writing, StoreTypeOK
    <2>2. dirs[nm] = "absent"
        BY <1>0, <2>1, LastCandidateFree DEF OInv
    <2>. QED  BY <2>1, <2>2
<1>3. CASE MkdirAll(r)
    <2>1. Writing(r) /\ dirs[target[r]] # "complete"
        BY <1>3 DEF MkdirAll, Writing, OInv, NoClobber
    <2>2. target[r] \in Dirs
        BY <1>0, <2>1, WritingPlaced
    <2>. QED  BY <1>0, <1>3, <2>1, <2>2 DEF MkdirAll, Writing, StoreTypeOK
<1>4. CASE WriteFiles(r)
    <2>1. target[r] \in Dirs
        BY <1>0, <1>4, WritingPlaced DEF WriteFiles, Writing
    <2>. QED  BY <1>0, <1>4, <2>1 DEF WriteFiles, StoreTypeOK
<1>5. CASE EnterUpload(r) \/ UnpackEnd(r) \/ ReadShard(r) \/ ExitUpload(r)
    BY <1>0, <1>5 DEF EnterUpload, UnpackEnd, ReadShard, ExitUpload, Writing, StoreTypeOK
<1>6. CASE Crash
    BY <1>0, <1>6 DEF Crash, Writing, StoreTypeOK
<1>7. CASE UNCHANGED vars
    BY <1>7 DEF vars, OInv, NoClobber, Writing
<1>. QED  BY <1>1, <1>2, <1>3, <1>4, <1>5, <1>6, <1>7 DEF StoreNext

LEMMA OInvInit == StoreInit => OInv
BY ExclInvInit DEF StoreInit, OInv, DirsOwned, LoopSeen, IdleFresh, NoClobber, Writing

LEMMA OInvStep ==
    ASSUME NEW C, NamesOver(C), UnambiguousNames, FewPushes, OInv, [StoreNext]_vars
    PROVE  OInv'
BY ExclInvStep, DirsOwnedStep, LoopSeenStep, IdleFreshStep, NoClobberStep DEF OInv

\* The step NoOverwrite allows: a complete directory stays complete.
KeepsComplete == \A d \in Dirs : dirs[d] = "complete" => dirs'[d] = "complete"

LEMMA NoOverwriteIsKept == NoOverwrite <=> [][KeepsComplete]_vars
BY DEF NoOverwrite, KeepsComplete

\* MkdirAll leaves an existing directory as it is, and the unpack writes
\* and completes or removes only a pick that is not complete.
LEMMA KeepsCompleteStep ==
    ASSUME OInv, [StoreNext]_vars
    PROVE  [KeepsComplete]_vars
<1>0. ExclInv /\ StoreTypeOK
    BY DEF OInv, ExclInv
<1>1. ASSUME NEW r \in Requests, WriteFiles(r) \/ UnpackEnd(r)
      PROVE  KeepsComplete
    <2>1. Writing(r) /\ Reqs[r].kind = "push"
        BY <1>0, <1>1 DEF WriteFiles, UnpackEnd, Writing, ExclInv, OnPath, Requests,
                          StoreTypeOK
    <2>2. dirs[target[r]] # "complete"
        BY <2>1 DEF OInv, NoClobber
    <2>. QED  BY <1>0, <1>1, <2>2 DEF WriteFiles, UnpackEnd, KeepsComplete, StoreTypeOK
<1>2. ASSUME NEW r \in Requests, MkdirAll(r) PROVE KeepsComplete
    BY <1>0, <1>2 DEF MkdirAll, KeepsComplete, StoreTypeOK
<1>3. ASSUME NEW r \in Requests,
             EnterUpload(r) \/ StatCandidate(r) \/ ReadShard(r) \/ ExitUpload(r)
      PROVE  KeepsComplete
    BY <1>3 DEF EnterUpload, StatCandidate, ReadShard, ExitUpload, KeepsComplete
<1>4. CASE Crash
    BY <1>4 DEF Crash, KeepsComplete
<1>5. CASE UNCHANGED vars
    BY <1>5
<1>. QED  BY <1>1, <1>2, <1>3, <1>4, <1>5 DEF StoreNext

\* No overwrite (spec section 3): when requested names are sequences of
\* path components, none is a suffixed form of another, and no name is
\* pushed more often than UnpackShard's loop has candidates, no push ever
\* writes into, truncates or removes a stored shard -- across concurrent
\* pushes and restarts of the server process.
THEOREM NoOverwriteHolds ==
    ASSUME NEW C, NamesOver(C), UnambiguousNames, FewPushes
    PROVE  StoreSpec => NoOverwrite
<1>1. OInv /\ [StoreNext]_vars => OInv'
    BY OInvStep
<1>2. OInv /\ [StoreNext]_vars => [KeepsComplete]_vars
    BY KeepsCompleteStep
<1>. QED  BY OInvInit, <1>1, <1>2, NoOverwriteIsKept, PTL DEF StoreSpec
=============================================================================
