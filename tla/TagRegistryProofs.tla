------------------------- MODULE TagRegistryProofs -------------------------
(***************************************************************************)
(* Proofs about the handle registry of src/pkg/tags/manager.go            *)
(* (GetTagMan, ReleaseTagMan and the Merge calls of the tag handlers      *)
(* between them), for every set of requests.                              *)
(*                                                                         *)
(* The reference count is proved under ~CloseFaults: when TagMan.Close    *)
(* fails, ReleaseTagMan keeps the entry with its old count and its closed *)
(* dictionary, and the run registry_close_fault shows a handler then      *)
(* holding a closed one.                                                   *)
(***************************************************************************)
EXTENDS TagRegistry, TagManProofs, FiniteSetTheorems, TLAPS

\* The places in a handler between GetTagMan and ReleaseTagMan.
Held == {"got", "merging", "release"}
PCs == {"idle"} \cup Held

\* The holders for a given assignment of places to requests.
HoldersOf(p) == {r \in Requests : p[r] \in Held}

(***************************************************************************)
(* The inductive invariant: the entry's count is the number of holders,  *)
(* the entry is there exactly when some handler holds it, and the        *)
(* dictionary is open exactly when the entry is there.  The last          *)
(* conjunct is what GetTagMan needs: with no entry New must find the      *)
(* dictionary closed, and with an entry the handle it returns is open.   *)
(***************************************************************************)
RegInv ==
    /\ pc \in [Requests -> PCs]
    /\ mgrOpen = TRUE
    /\ merger \in Requests \cup {NoReq}
    /\ handles = Cardinality(Holders)
    /\ present = (Holders # {})
    /\ active = present

-----------------------------------------------------------------------------
(* Lemmas on the set of holders.                                          *)

LEMMA HoldersIsHoldersOf ==
    Holders = HoldersOf(pc) /\ Holders' = HoldersOf(pc')
BY DEF Holders, HoldersOf, Held

\* The holders are a finite subset of the requests, counted in Nat.
LEMMA HoldersCount ==
    ASSUME NEW p
    PROVE  /\ IsFiniteSet(HoldersOf(p))
           /\ Cardinality(HoldersOf(p)) \in 0..Cardinality(Requests)
<1>1. HoldersOf(p) \in SUBSET Requests
    BY DEF HoldersOf
<1>2. IsFiniteSet(HoldersOf(p)) /\ Cardinality(HoldersOf(p)) <= Cardinality(Requests)
    BY <1>1, FS_Subset, TagRegistryAssumptions
<1>3. Cardinality(HoldersOf(p)) \in Nat
    BY <1>2, FS_CardinalityType
<1> QED
    BY <1>2, <1>3

\* Moving one request to another place adds it to the holders or removes
\* it from them.
LEMMA HoldersUpdate ==
    ASSUME NEW p \in [Requests -> PCs], NEW r \in Requests, NEW s \in PCs
    PROVE  HoldersOf([p EXCEPT ![r] = s]) =
               IF s \in Held THEN HoldersOf(p) \cup {r} ELSE HoldersOf(p) \ {r}
BY DEF HoldersOf, PCs

\* Under the invariant, the holders are finite, and there are none exactly
\* when the count is zero.
LEMMA HoldersFacts ==
    ASSUME RegInv
    PROVE  /\ IsFiniteSet(Holders)
           /\ handles \in Nat
           /\ (handles = 0) <=> (Holders = {})
<1>1. IsFiniteSet(Holders) /\ Cardinality(Holders) \in Nat
    BY HoldersCount, HoldersIsHoldersOf
<1> QED
    BY <1>1, FS_EmptySet DEF RegInv

-----------------------------------------------------------------------------
(* One lemma per handler step.                                            *)

\* GetTagMan: with no entry (or none counted) the dictionary is closed, New
\* opens it or fails; with an entry the count grows by the new holder.
LEMMA GetStep ==
    ASSUME RegInv, NEW r \in Requests, NEW next \in {"got", "release"},
           GetTagMan(r, next)
    PROVE  RegInv'
<1>0. /\ IsFiniteSet(Holders) /\ handles \in Nat
      /\ (handles = 0) <=> (Holders = {})
      /\ r \notin Holders
      /\ pc \in [Requests -> PCs]
      /\ next \in Held
    BY HoldersFacts DEF RegInv, GetTagMan, Holders, Held
<1>1. /\ HoldersOf([pc EXCEPT ![r] = next]) = Holders \cup {r}
      /\ Cardinality(Holders \cup {r}) = handles + 1
    BY <1>0, HoldersUpdate, HoldersIsHoldersOf, FS_AddElement DEF RegInv, PCs
<1>2. CASE /\ ~present \/ handles = 0
           /\ NewCreate \/ NewOpen
           /\ IF active'
              THEN present' = TRUE /\ handles' = handles + 1
                   /\ pc' = [pc EXCEPT ![r] = next]
              ELSE UNCHANGED <<present, handles, pc>>
    <2>1. Holders = {} /\ ~present /\ ~active
        BY <1>0, <1>2 DEF RegInv
    <2>2. CASE active'
        <3>1. present' = TRUE /\ handles' = handles + 1 /\ pc' = [pc EXCEPT ![r] = next]
            BY <1>2, <2>2
        <3>2. Holders' = Holders \cup {r}
            BY <3>1, <1>1, HoldersIsHoldersOf
        <3> QED
            BY <1>0, <1>1, <2>2, <3>1, <3>2 DEF RegInv, GetTagMan, PCs
    <2>3. CASE ~active'
        <3>1. UNCHANGED <<present, handles, pc>>
            BY <1>2, <2>3
        <3>2. Holders' = Holders
            BY <3>1 DEF Holders
        <3>3. UNCHANGED <<mgrOpen, merger>>
            BY DEF GetTagMan
        <3>4. /\ pc' \in [Requests -> PCs]
              /\ handles' = Cardinality(Holders')
              /\ present' = (Holders' # {})
            BY <1>0, <3>1, <3>2 DEF RegInv
        <3>5. active' = active
            BY <1>2, <2>3 DEF NewCreate, NewOpen, Opened
        <3>6. active' = present'
            BY <3>1, <3>5 DEF RegInv
        <3> QED
            BY <3>3, <3>4, <3>6 DEF RegInv
    <2> QED
        BY <2>2, <2>3
<1>3. CASE /\ present /\ handles > 0
           /\ handles' = handles + 1
           /\ pc' = [pc EXCEPT ![r] = next]
           /\ UNCHANGED <<tmVars, present>>
    <2>1. Holders' = Holders \cup {r} /\ active' = active
        BY <1>1, <1>3, HoldersIsHoldersOf DEF tmVars, vars
    <2> QED
        BY <1>0, <1>1, <1>3, <2>1 DEF RegInv, GetTagMan, PCs
<1> QED
    BY <1>2, <1>3 DEF GetTagMan

\* A handler moving between its Merge call and its release stays a holder;
\* a Merge call keeps the dictionary open.
LEMMA MergeCallStep ==
    ASSUME RegInv, NEW r \in Requests, NEW l, MergeCall(r, l)
    PROVE  RegInv'
<1>0. r \in Holders /\ pc \in [Requests -> PCs]
    BY DEF RegInv, MergeCall, Holders, Held
<1>1. /\ active' = active
      /\ merger' \in Requests \cup {NoReq}
      /\ \E s \in {"merging", "release"} : pc' = [pc EXCEPT ![r] = s]
    BY DEF RegInv, MergeCall, Merge, tmVars, vars
<1>2. Holders' = Holders /\ pc' \in [Requests -> PCs]
    <2>1. PICK s \in {"merging", "release"} : pc' = [pc EXCEPT ![r] = s]
        BY <1>1
    <2>2. s \in PCs /\ s \in Held
        BY DEF PCs, Held
    <2>3. HoldersOf(pc') = HoldersOf(pc) \cup {r}
        BY <1>0, <2>1, <2>2, HoldersUpdate
    <2>4. HoldersOf(pc) \cup {r} = HoldersOf(pc)
        BY <1>0, HoldersIsHoldersOf
    <2> QED
        BY <1>0, <2>1, <2>2, <2>3, <2>4, HoldersIsHoldersOf
<1> QED
    BY <1>1, <1>2 DEF RegInv, MergeCall

\* A step of the Merge loop changes no handler and keeps the dictionary
\* open.
LEMMA MergeLoopStep ==
    ASSUME RegInv, MergeLoop
    PROVE  RegInv'
<1>1. active' = active /\ UNCHANGED <<mgrOpen, present, handles, pc>>
    BY DEF MergeLoop, MergeStep
<1>2. Holders' = Holders
    BY <1>1 DEF Holders
<1> QED
    BY <1>1, <1>2 DEF RegInv, MergeLoop

\* The handler whose Merge returned goes on to its release, still holding.
LEMMA MergeReturnStep ==
    ASSUME RegInv, NEW r \in Requests, MergeReturn(r)
    PROVE  RegInv'
<1>0. pc \in [Requests -> PCs] /\ r \in HoldersOf(pc)
      /\ pc' = [pc EXCEPT ![r] = "release"]
    BY DEF RegInv, MergeReturn, HoldersOf, Held
<1>1. Holders' = Holders /\ pc' \in [Requests -> PCs]
    <2>1. "release" \in PCs /\ "release" \in Held
        BY DEF PCs, Held
    <2>2. HoldersOf(pc') = HoldersOf(pc) \cup {r}
        BY <1>0, <2>1, HoldersUpdate
    <2> QED
        BY <1>0, <2>1, <2>2, HoldersIsHoldersOf
<1> QED
    BY <1>1 DEF RegInv, MergeReturn, tmVars, vars

\* ReleaseTagMan by a holder: the entry is there and counts it, so the
\* error path is never taken; the last holder's Close closes the
\* dictionary, which only a failing Close would leave open.
LEMMA ReleaseStep ==
    ASSUME ~CloseFaults, RegInv, NEW r \in Requests, ReleaseTagMan(r)
    PROVE  RegInv'
<1>0. /\ IsFiniteSet(Holders) /\ handles \in Nat
      /\ (handles = 0) <=> (Holders = {})
      /\ pc \in [Requests -> PCs]
      /\ r \in Holders
      /\ pc' = [pc EXCEPT ![r] = "idle"]
      /\ UNCHANGED <<mgrOpen, merger>>
    BY HoldersFacts DEF RegInv, ReleaseTagMan, Holders, Held
<1>1. /\ mgrOpen /\ present /\ active /\ handles > 0
    <2>1. Holders # {}
        BY <1>0
    <2>2. mgrOpen /\ present /\ active
        BY <2>1 DEF RegInv
    <2>3. handles > 0
        BY <1>0, <2>1
    <2> QED
        BY <2>2, <2>3
<1>2. /\ Holders' = Holders \ {r}
      /\ IsFiniteSet(Holders')
      /\ Cardinality(Holders') = handles - 1
      /\ pc' \in [Requests -> PCs]
    <2>1. HoldersOf(pc') = HoldersOf(pc) \ {r}
        BY <1>0, HoldersUpdate DEF PCs, Held
    <2> QED
        BY <1>0, <2>1, HoldersIsHoldersOf, FS_RemoveElement DEF RegInv, PCs
<1>3. CASE handles > 1 /\ handles' = handles - 1 /\ UNCHANGED <<tmVars, present>>
    <2>1. Holders' # {}
        BY <1>0, <1>2, <1>3, FS_EmptySet
    <2>2. active' = active
        BY <1>3 DEF tmVars, vars
    <2> QED
        BY <1>0, <1>1, <1>2, <1>3, <2>1, <2>2 DEF RegInv
<1>4. CASE handles = 1 /\ CloseLast
    <2>1. Holders' = {}
        BY <1>0, <1>2, <1>4, FS_EmptySet
    <2>2. active' = FALSE /\ present' = FALSE /\ handles' = 0
        BY <1>1, <1>4 DEF CloseLast, Close, Discarded
    <2>3. handles' = Cardinality(Holders')
        BY <2>1, <2>2, FS_EmptySet
    <2>4. present' = (Holders' # {}) /\ active' = present'
        BY <2>1, <2>2
    <2> QED
        BY <1>0, <1>2, <2>3, <2>4 DEF RegInv
<1>5. ~(~mgrOpen \/ ~present \/ handles = 0)
    BY <1>1
<1> QED
    BY <1>3, <1>4, <1>5 DEF ReleaseTagMan

\* A restart empties the registry, and the dictionary is gone with the
\* process.
LEMMA RestartStep ==
    ASSUME RegInv, Restart
    PROVE  RegInv'
<1>1. active' = FALSE
    BY DEF RegInv, Restart, Crash, Discarded, tmVars, vars
<1>2. Holders' = {} /\ handles' = 0 /\ present' = FALSE /\ mgrOpen' = TRUE
      /\ merger' = NoReq /\ pc' \in [Requests -> PCs]
    BY DEF Restart, RegistryReset, Holders, PCs
<1> QED
    BY <1>1, <1>2, FS_EmptySet DEF RegInv

\* Every step of the server keeps the invariant.
LEMMA RegInvStep ==
    ASSUME ~CloseFaults
    PROVE  RegInv /\ [RegNext]_allVars => RegInv'
<1> SUFFICES ASSUME RegInv, [RegNext]_allVars PROVE RegInv'
    OBVIOUS
<1>1. CASE \E r \in Requests : GetTagMan(r, "got") \/ GetTagMan(r, "release")
    BY <1>1, GetStep
<1>2. CASE \E r \in Requests, l \in TagLists : MergeCall(r, l)
    BY <1>2, MergeCallStep
<1>3. CASE \E r \in Requests : MergeReturn(r)
    BY <1>3, MergeReturnStep
<1>4. CASE \E r \in Requests : ReleaseTagMan(r)
    BY <1>4, ReleaseStep
<1>5. CASE MergeLoop
    BY <1>5, MergeLoopStep
<1>6. CASE Restart
    BY <1>6, RestartStep
<1>7. CASE UNCHANGED allVars
    <2>1. Holders' = Holders
        BY <1>7 DEF allVars, regVars, Holders
    <2> QED
        BY <1>7, <2>1 DEF RegInv, allVars, regVars, vars
<1> QED
    BY <1>1, <1>2, <1>3, <1>4, <1>5, <1>6, <1>7 DEF RegNext

\* The invariant holds from the start: no holder, no entry, nothing open.
LEMMA RegInvInit ==
    RegInit => RegInv
<1> SUFFICES ASSUME RegInit PROVE RegInv
    OBVIOUS
<1>1. Holders = {}
    BY DEF RegInit, Holders
<1> QED
    BY <1>1, FS_EmptySet DEF RegInit, Init, RegInv, PCs

-----------------------------------------------------------------------------
(* The registry's invariants, for every set of requests.                  *)

\* The reference count of GetTagMan / ReleaseTagMan is exact: the entry's
\* handles count is the number of handlers holding it, and there is no
\* entry when none does, whatever the interleaving of the handlers.
THEOREM HandlesMatchHoldersHolds ==
    ASSUME ~CloseFaults
    PROVE  RegSpec => []HandlesMatchHolders
<1>1. RegInv => HandlesMatchHolders
    BY DEF RegInv, HandlesMatchHolders
<1> QED
    BY <1>1, RegInvInit, RegInvStep, PTL DEF RegSpec

\* No handler holds a dictionary that another handler's ReleaseTagMan has
\* closed, and GetTagMan never hands out a closed one.
THEOREM HolderSeesActiveHolds ==
    ASSUME ~CloseFaults
    PROVE  RegSpec => []HolderSeesActive
<1>1. RegInv => HolderSeesActive
    <2> SUFFICES ASSUME RegInv, NEW r \in Holders PROVE active
        BY DEF HolderSeesActive
    <2>1. Holders # {}
        OBVIOUS
    <2> QED
        BY <2>1 DEF RegInv
<1> QED
    BY <1>1, RegInvInit, RegInvStep, PTL DEF RegSpec

\* The last ReleaseTagMan closes the dictionary and its lock on tags.dat:
\* it is never left open with no handler holding it.
THEOREM NoOrphanInstanceHolds ==
    ASSUME ~CloseFaults
    PROVE  RegSpec => []NoOrphanInstance
<1>1. RegInv => NoOrphanInstance
    BY DEF RegInv, NoOrphanInstance
<1> QED
    BY <1>1, RegInvInit, RegInvStep, PTL DEF RegSpec

-----------------------------------------------------------------------------
(* The dictionary under the registry.                                     *)

\* Every registry step is a step of TagMan's server operations (New, Merge,
\* its loop, Close, a crash) or leaves the dictionary and tags.dat alone.
LEMMA RegStepIsServerStep ==
    [RegNext]_allVars => [ServerNext]_vars
<1> SUFFICES ASSUME [RegNext]_allVars PROVE [ServerNext]_vars
    OBVIOUS
<1>1. ASSUME NEW r \in Requests, NEW next, GetTagMan(r, next)
      PROVE  [ServerNext]_vars
    BY <1>1 DEF GetTagMan, ServerNext, tmVars
<1>2. ASSUME NEW r \in Requests, NEW l \in TagLists, MergeCall(r, l)
      PROVE  [ServerNext]_vars
    BY <1>2 DEF MergeCall, ServerNext, tmVars
<1>3. ASSUME NEW r \in Requests, ReleaseTagMan(r)
      PROVE  [ServerNext]_vars
    BY <1>3 DEF ReleaseTagMan, CloseLast, ServerNext, tmVars
<1>4. ASSUME NEW r \in Requests, MergeReturn(r)
      PROVE  [ServerNext]_vars
    BY <1>4 DEF MergeReturn, tmVars
<1>5. CASE MergeLoop
    BY <1>5 DEF MergeLoop, ServerNext
<1>6. CASE Restart
    BY <1>6 DEF Restart, ServerNext, tmVars
<1>7. CASE UNCHANGED allVars
    BY <1>7 DEF allVars
<1> QED
    BY <1>1, <1>2, <1>3, <1>4, <1>5, <1>6, <1>7 DEF RegNext

\* Bijection (spec section 8, property 4) under the tag handlers: however
\* their GetTagMan, Merge and ReleaseTagMan calls and restarts interleave,
\* an open dictionary's name -> id and id -> name maps are inverse.
THEOREM RegistryBijection ==
    RegSpec => []TagBijection
<1>1. RegInit => IInv
    BY EmptyType DEF RegInit, Init, IInv, TypeOK, TagBijection
<1>2. IInv /\ [RegNext]_allVars => IInv'
    BY RegStepIsServerStep, BijectionStep
<1>3. IInv => TagBijection
    BY DEF IInv
<1> QED
    BY <1>1, <1>2, <1>3, PTL DEF RegSpec

\* Durability under the tag handlers: when writes to tags.dat succeed,
\* however GetTagMan, Merge, ReleaseTagMan and restarts interleave, an open
\* dictionary's tags.dat has distinct lines and reloads to exactly its two
\* maps.
THEOREM RegistryFileMirrors ==
    ASSUME ~WriteFaults
    PROVE  RegSpec => []FileMirrorsMemory
<1>1. RegInit => MInv
    BY EmptyType DEF RegInit, Init, MInv, TypeOK, FileMirrorsMemory
<1>2. MInv /\ [RegNext]_allVars => MInv'
    BY RegStepIsServerStep, MirrorStep
<1>3. MInv => FileMirrorsMemory
    BY DEF MInv
<1> QED
    BY <1>1, <1>2, <1>3, PTL DEF RegSpec

\* The registry's state keeps its type: in particular the handles count
\* never exceeds the number of requests, since it counts holders.
THEOREM RegTypeCorrect ==
    ASSUME ~CloseFaults
    PROVE  RegSpec => []RegTypeOK
<1>1. RegInit => IInv /\ RegInv
    BY EmptyType, RegInvInit DEF RegInit, Init, IInv, TypeOK, TagBijection
<1>2. IInv /\ RegInv /\ [RegNext]_allVars => IInv' /\ RegInv'
    BY RegStepIsServerStep, BijectionStep, RegInvStep
<1>3. IInv /\ RegInv => RegTypeOK
    <2> SUFFICES ASSUME IInv, RegInv PROVE RegTypeOK
        OBVIOUS
    <2>1. handles \in 0..Cardinality(Requests)
        BY HoldersCount, HoldersIsHoldersOf DEF RegInv
    <2>2. present \in BOOLEAN /\ mgrOpen \in BOOLEAN
        BY DEF RegInv
    <2> QED
        BY <2>1, <2>2 DEF IInv, RegInv, RegTypeOK, PCs, Held
<1> QED
    BY <1>1, <1>2, <1>3, PTL DEF RegSpec

-----------------------------------------------------------------------------
(* The registry implements the handle-counted dictionary of HandleCount.  *)

\* Every registry step adds one request to the holders (a GetTagMan that
\* returns a handle), removes one (ReleaseTagMan), empties them (a
\* restart) or leaves them as they are.
LEMMA HoldersMove ==
    ASSUME RegInv, [RegNext]_allVars
    PROVE  \/ Holders' = Holders
           \/ \E r \in Requests : r \notin Holders /\ Holders' = Holders \cup {r}
           \/ \E r \in Requests : r \in Holders /\ Holders' = Holders \ {r}
           \/ Holders' = {}
<1>0. pc \in [Requests -> PCs]
    BY DEF RegInv
<1>1. ASSUME NEW r \in Requests, NEW next \in {"got", "release"},
             GetTagMan(r, next)
      PROVE  Holders' = Holders \/ (r \notin Holders /\ Holders' = Holders \cup {r})
    <2>1. r \notin Holders
        BY <1>1 DEF GetTagMan, Holders
    <2>2. pc' = pc \/ pc' = [pc EXCEPT ![r] = next]
        BY <1>1 DEF GetTagMan
    <2>3. HoldersOf([pc EXCEPT ![r] = next]) = Holders \cup {r}
        BY <1>0, HoldersUpdate, HoldersIsHoldersOf DEF PCs, Held
    <2> QED
        BY <2>1, <2>2, <2>3, HoldersIsHoldersOf DEF Holders
\* A handler that stays between its GetTagMan and its release.
<1>2. ASSUME NEW r \in Requests, r \in Holders, NEW s \in Held,
             pc' = [pc EXCEPT ![r] = s]
      PROVE  Holders' = Holders
    <2>1. s \in PCs /\ r \in HoldersOf(pc)
        BY <1>2, HoldersIsHoldersOf DEF PCs
    <2>2. HoldersOf([pc EXCEPT ![r] = s]) = HoldersOf(pc) \cup {r}
        BY <1>0, <1>2, <2>1, HoldersUpdate
    <2>3. HoldersOf(pc') = HoldersOf(pc)
        BY <1>2, <2>1, <2>2
    <2> QED
        BY <2>3, HoldersIsHoldersOf
<1>3. ASSUME NEW r \in Requests, NEW l \in TagLists, MergeCall(r, l)
      PROVE  Holders' = Holders
    <2>1. r \in Holders
        BY <1>3 DEF MergeCall, Holders
    <2> QED
        BY <1>2, <1>3, <2>1 DEF MergeCall, Held
<1>4. ASSUME NEW r \in Requests, MergeReturn(r)
      PROVE  Holders' = Holders
    <2>1. r \in Holders
        BY <1>4 DEF MergeReturn, Holders
    <2> QED
        BY <1>2, <1>4, <2>1 DEF MergeReturn, Held
<1>5. ASSUME NEW r \in Requests, ReleaseTagMan(r)
      PROVE  r \in Holders /\ Holders' = Holders \ {r}
    <2>1. r \in Holders /\ pc' = [pc EXCEPT ![r] = "idle"]
        BY <1>5 DEF ReleaseTagMan, Holders
    <2> QED
        BY <1>0, <2>1, HoldersUpdate, HoldersIsHoldersOf DEF PCs, Held
<1>6. CASE MergeLoop
    BY <1>6 DEF MergeLoop, Holders
<1>7. CASE Restart
    BY <1>7 DEF Restart, RegistryReset, Holders
<1>8. CASE UNCHANGED allVars
    BY <1>8 DEF allVars, regVars, Holders
<1> QED
    BY <1>1, <1>3, <1>4, <1>5, <1>6, <1>7, <1>8 DEF RegNext

\* With the invariant on both sides, a step that moves the holders in one
\* of those four ways is a step of HandleCount, or a stutter of it: the
\* dictionary is open exactly when the holders are not empty.
LEMMA HandleCountStep ==
    ASSUME RegInv, RegInv', [RegNext]_allVars
    PROVE  [HC!HCNext]_HC!hcVars
<1>0. active = (Holders # {}) /\ active' = (Holders' # {})
    BY DEF RegInv
<1>1. CASE Holders' = Holders
    BY <1>0, <1>1 DEF HC!hcVars
<1>2. CASE \E r \in Requests : r \notin Holders /\ Holders' = Holders \cup {r}
    <2>1. PICK r \in Requests : r \notin Holders /\ Holders' = Holders \cup {r}
        BY <1>2
    <2>2. active' = TRUE
        BY <1>0, <2>1
    <2> QED
        BY <2>1, <2>2 DEF HC!HCNext, HC!Acquire
<1>3. CASE \E r \in Requests : r \in Holders /\ Holders' = Holders \ {r}
    <2>1. PICK r \in Requests : r \in Holders /\ Holders' = Holders \ {r}
        BY <1>3
    <2> QED
        BY <1>0, <2>1 DEF HC!HCNext, HC!Release
<1>4. CASE Holders' = {}
    <2>1. active' = FALSE
        BY <1>0, <1>4
    <2> QED
        BY <1>4, <2>1 DEF HC!HCNext, HC!Reset
<1> QED
    BY <1>1, <1>2, <1>3, <1>4, HoldersMove

\* GetTagMan / ReleaseTagMan implement the handle-counted dictionary the
\* registry promises (spec 4.4): seen through the holders and the
\* instance's active flag, every behaviour of the tag handlers, restarts
\* included, is one of HandleCount -- the first handle opens the
\* dictionary, the last release closes it, and nothing else opens or
\* closes it.
THEOREM RegistryRefinesHandleCount ==
    ASSUME ~CloseFaults
    PROVE  RegSpec => HC!HCSpec
<1>1. RegInit => HC!HCInit
    <2> SUFFICES ASSUME RegInit PROVE HC!HCInit
        OBVIOUS
    <2>1. Holders = {}
        BY DEF RegInit, Holders
    <2> QED
        BY <2>1 DEF RegInit, Init, HC!HCInit
<1>2. RegInv /\ RegInv' /\ [RegNext]_allVars => [HC!HCNext]_HC!hcVars
    BY HandleCountStep
<1> QED
    BY <1>1, <1>2, RegInvInit, RegInvStep, PTL
       DEF RegSpec, HC!HCSpec

====
