----------------------------- MODULE TagRegistry -----------------------------
(***************************************************************************)
(* The process-wide tag-manager registry of package tags                   *)
(* (src/pkg/tags/manager.go) composed with the TagMan it hands out and     *)
(* with the HTTP handlers that use it: filestore GetTags, SyncTags and     *)
(* handler.HandleTagUpdate (src/unnamed/part_005, lines 284-366).          *)
(*                                                                         *)
(* One indexer key (cid, guid) is modelled: keys are independent of each   *)
(* other except for CloseTagSets, which ends at the first key with open    *)
(* handles.  The registry's map entry for the key is present/handles; its  *)
(* tm is the TagMan instance of module TagMan, open when active.  Every    *)
(* registry function runs under the registry mutex and is one atomic step  *)
(* (New and Close run inside it).  A request is one of the handlers:       *)
(*   GetTags:                GetTagMan, TagSet, ReleaseTagMan              *)
(*   SyncTags, HandleTagUpdate: GetTagMan, Merge, (TagSet,) ReleaseTagMan  *)
(* TagSet only reads under the TagMan mutex, so it is not a step.  A       *)
(* Merge holds the TagMan mutex across the per-pair steps of module        *)
(* TagMan; merger records the request whose Merge call is in progress.     *)
(*                                                                         *)
(* TagMan.Close fails when Funlock or the file's Close fails (CloseFaults), *)
(* and always on an instance already closed (its fout is nil); in both     *)
(* cases the instance is inactive afterwards.                              *)
(***************************************************************************)
EXTENDS TagMan, FiniteSets

CONSTANTS
    Requests,     \* concurrent HTTP handlers working on the indexer's tags
    NoReq,        \* no request
    CloseFaults   \* TRUE when TagMan.Close may return an error

ASSUME TagRegistryAssumptions ==
    /\ IsFiniteSet(Requests)
    /\ NoReq \notin Requests
    /\ CloseFaults \in BOOLEAN

VARIABLES
    mgrOpen,   \* tagSets != nil (CloseTagSets has not run)
    present,   \* tagSets holds an entry for the key
    handles,   \* that entry's handles count
    pc,        \* each request's place in its handler
    merger     \* the request whose tm.Merge call is in progress, or NoReq

regVars == <<mgrOpen, present, handles, pc, merger>>
tmVars == vars
allVars == <<vars, regVars>>

\* Requests that hold a handle obtained from GetTagMan.
Holders == {r \in Requests : pc[r] \in {"got", "merging", "release"}}

\* The registry forgets everything (process start).
RegistryReset ==
    /\ mgrOpen' = TRUE
    /\ present' = FALSE
    /\ handles' = 0
    /\ pc' = [r \in Requests |-> "idle"]
    /\ merger' = NoReq

-----------------------------------------------------------------------------

RegInit ==
    /\ Init
    /\ mgrOpen = TRUE
    /\ present = FALSE
    /\ handles = 0
    /\ pc = [r \in Requests |-> "idle"]
    /\ merger = NoReq

\* Mutant of GetTagMan: a second handle is returned without storing the
\* incremented entry back into tagSets.
GetTagManNoStore(r, next) ==
    /\ pc[r] = "idle"
    /\ mgrOpen
    /\ \/ /\ ~present \/ handles = 0
          /\ NewCreate \/ NewOpen
          /\ IF active'
             THEN present' = TRUE /\ handles' = handles + 1
                  /\ pc' = [pc EXCEPT ![r] = next]
             ELSE UNCHANGED <<present, handles, pc>>
       \/ /\ present /\ handles > 0
          /\ pc' = [pc EXCEPT ![r] = next]
          /\ UNCHANGED <<tmVars, present, handles>>
    /\ UNCHANGED <<mgrOpen, merger>>

\* GetTagMan(id, guid, basedir): a request starts its handler; next is
\* "got" for SyncTags and HandleTagUpdate, "release" for GetTags (whose
\* TagSet changes nothing).  With no entry, or one with no handles, New
\* opens tags.dat; a failed New or a closed manager is an error and the
\* handler returns without a handle (a failed NewCreate may leave a
\* partly seeded tags.dat).
GetTagMan(r, next) ==
    /\ pc[r] = "idle"
    /\ mgrOpen
    /\ \/ /\ ~present \/ handles = 0
          /\ NewCreate \/ NewOpen
          /\ IF active'
             THEN present' = TRUE /\ handles' = handles + 1
                  /\ pc' = [pc EXCEPT ![r] = next]
             ELSE UNCHANGED <<present, handles, pc>>
       \/ /\ present /\ handles > 0
          /\ handles' = handles + 1
          /\ pc' = [pc EXCEPT ![r] = next]
          /\ UNCHANGED <<tmVars, present>>
    /\ UNCHANGED <<mgrOpen, merger>>

\* tm.Merge(list) from SyncTags or HandleTagUpdate.  A list that fails
\* checkTagSet returns before the mutex; on a closed instance, or with an
\* empty list, Merge returns at once under the mutex.  Either way the
\* handler goes on to ReleaseTagMan.
MergeCall(r, l) ==
    /\ pc[r] = "got"
    /\ \/ /\ Merge(l)
          /\ merger' = r
          /\ pc' = [pc EXCEPT ![r] = "merging"]
       \/ /\ ~checkTagSet(l) \/ (op = "none" /\ (~active \/ l = <<>>))
          /\ pc' = [pc EXCEPT ![r] = "release"]
          /\ UNCHANGED <<tmVars, merger>>
    /\ UNCHANGED <<mgrOpen, present, handles>>

\* One pair of the Merge in progress; the last one returns from Merge.
MergeLoop ==
    /\ MergeStep
    /\ merger' = IF op' = "none" THEN NoReq ELSE merger
    /\ UNCHANGED <<mgrOpen, present, handles, pc>>

\* The handler whose Merge returned goes on to release its handle.
MergeReturn(r) ==
    /\ pc[r] = "merging"
    /\ merger # r
    /\ pc' = [pc EXCEPT ![r] = "release"]
    /\ UNCHANGED <<tmVars, mgrOpen, present, handles, merger>>

\* The last handle's Close: it waits for the TagMan mutex.  On success the
\* entry is deleted; on failure the decremented copy v is never stored, so
\* the entry keeps its handles and its (now closed) tm.
CloseLast ==
    \/ /\ active
       /\ Close
       /\ \/ present' = FALSE /\ handles' = 0
          \/ CloseFaults /\ UNCHANGED <<present, handles>>
    \/ /\ ~active
       /\ UNCHANGED <<tmVars, present, handles>>

\* Mutant of ReleaseTagMan: "handles <= 1" for "handles == 0" after the
\* decrement, so the tm is closed while one handle is still out.
ReleaseTagManEarly(r) ==
    /\ pc[r] = "release"
    /\ pc' = [pc EXCEPT ![r] = "idle"]
    /\ \/ /\ ~mgrOpen \/ ~present \/ handles = 0
          /\ UNCHANGED <<tmVars, present, handles>>
       \/ /\ mgrOpen /\ present /\ handles > 2
          /\ handles' = handles - 1
          /\ UNCHANGED <<tmVars, present>>
       \/ /\ mgrOpen /\ present /\ handles = 2
          /\ handles' = 1
          /\ (active /\ Close) \/ (~active /\ UNCHANGED tmVars)
          /\ UNCHANGED present
       \/ /\ mgrOpen /\ present /\ handles = 1
          /\ CloseLast
    /\ UNCHANGED <<mgrOpen, merger>>

\* Mutant of ReleaseTagMan: the last handle is decremented and stored back
\* like any other, without the Close.
ReleaseTagManNoClose(r) ==
    /\ pc[r] = "release"
    /\ pc' = [pc EXCEPT ![r] = "idle"]
    /\ \/ /\ ~mgrOpen \/ ~present \/ handles = 0
          /\ UNCHANGED <<tmVars, present, handles>>
       \/ /\ mgrOpen /\ present /\ handles > 0
          /\ handles' = handles - 1
          /\ UNCHANGED <<tmVars, present>>
    /\ UNCHANGED <<mgrOpen, merger>>

\* ReleaseTagMan(id, guid) at the end of the handler.  A closed manager
\* (ErrManagerClosed) or a missing entry (ErrNoActiveHandles) is an error
\* without effect.
ReleaseTagMan(r) ==
    /\ pc[r] = "release"
    /\ pc' = [pc EXCEPT ![r] = "idle"]
    /\ \/ /\ ~mgrOpen \/ ~present \/ handles = 0
          /\ UNCHANGED <<tmVars, present, handles>>
       \/ /\ mgrOpen /\ present /\ handles > 1
          /\ handles' = handles - 1
          /\ UNCHANGED <<tmVars, present>>
       \/ /\ mgrOpen /\ present /\ handles = 1
          /\ CloseLast
    /\ UNCHANGED <<mgrOpen, merger>>

\* CloseTagSets: an entry with handles stops the loop with ErrOpenHandles
\* (an entry present always has handles here); either way tagSets becomes
\* nil and every later GetTagMan and ReleaseTagMan fails.
CloseTagSets ==
    /\ mgrOpen
    /\ mgrOpen' = FALSE
    /\ UNCHANGED <<tmVars, present, handles, pc, merger>>

\* The server process dies and is started again: requests are gone, the
\* registry is empty, an open instance's lock is dropped.
Restart ==
    /\ \/ Crash
       \/ ~active /\ UNCHANGED tmVars
    /\ RegistryReset

\* The server: the three tag handlers on any number of requests.
RegNext ==
    \/ \E r \in Requests :
          \/ GetTagMan(r, "got") \/ GetTagMan(r, "release")
          \/ \E l \in TagLists : MergeCall(r, l)
          \/ MergeReturn(r)
          \/ ReleaseTagMan(r)
    \/ MergeLoop
    \/ Restart

\* The server together with the shutdown primitive.
FullNext == RegNext \/ CloseTagSets

\* Handlers run on their own goroutines and the Merge loop runs to its end.
\* A handler waiting for the TagMan mutex gets it eventually: sync.Mutex
\* hands the lock to a waiter that has waited over 1ms (starvation mode),
\* hence strong fairness for MergeCall.
Fairness ==
    /\ WF_allVars(MergeLoop)
    /\ \A r \in Requests :
          /\ SF_allVars(\E l \in TagLists : MergeCall(r, l))
          /\ WF_allVars(MergeReturn(r))
          /\ WF_allVars(ReleaseTagMan(r))

RegSpec == RegInit /\ [][RegNext]_allVars /\ Fairness
FullSpec == RegInit /\ [][FullNext]_allVars /\ Fairness

-----------------------------------------------------------------------------
(* Properties.                                                             *)

RegTypeOK ==
    /\ TypeOK
    /\ mgrOpen \in BOOLEAN
    /\ present \in BOOLEAN
    /\ handles \in 0..Cardinality(Requests)
    /\ pc \in [Requests -> {"idle", "got", "merging", "release"}]
    /\ merger \in Requests \cup {NoReq}

\* Reference count (spec 4.4): while the manager is open, the entry's
\* handles count is the number of handlers between their GetTagMan and
\* their ReleaseTagMan, and there is no entry when there is none -- across
\* handlers interleaving their Get, Merge and Release.
HandlesMatchHolders ==
    mgrOpen =>
        /\ present => handles = Cardinality(Holders)
        /\ ~present => Holders = {}

\* Every handler holding a handle holds an open dictionary: no ReleaseTagMan
\* of another handler closes it, and GetTagMan never returns a closed one.
HolderSeesActive ==
    \A r \in Holders : active

\* No orphan: the dictionary (and the lock on tags.dat) is open only while
\* some handler holds it -- the last ReleaseTagMan closes it (spec 4.4,
\* "on transition to zero the underlying file is closed").
NoOrphanInstance ==
    active => Holders # {}

\* The registry implements the handle-counted dictionary of module
\* HandleCount: the holders are the handlers between GetTagMan and
\* ReleaseTagMan, and "open" is the TagMan instance being active.  Every
\* GetTagMan that returns a handle is an Acquire, every ReleaseTagMan a
\* Release that closes the instance exactly when it leaves no holder, a
\* restart a Reset, and New failures, Merge calls and Merge steps stutter.
HC == INSTANCE HandleCount WITH held <- Holders, open <- active

\* Every handler that has started returns: Merge calls serialised on the
\* TagMan mutex, the Merge loop and the Close of the last release all end.
RequestsComplete ==
    \A r \in Requests : pc[r] # "idle" ~> pc[r] = "idle"

=============================================================================
