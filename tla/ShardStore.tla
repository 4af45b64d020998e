------------------------------ MODULE ShardStore ------------------------------
(***************************************************************************)
(* Shard directories of the filesystem backend under concurrent transfers: *)
(* the UploadTracker (src/unnamed/part_009), UnpackShard's claim, its      *)
(* search for a free name, MkdirAll, the unpack and its cleanup            *)
(* (src/unnamed/part_005 147-205), and PackShard's claim and readableDir   *)
(* check (part_005 207-282).                                               *)
(*                                                                         *)
(* A shard name is a sequence: <<b>> is "b", <<b, 1>> is "b.1", and a      *)
(* client may itself push "b.1", whose candidates are "b.1", "b.1.1", ...  *)
(* The unpack itself (ShardCodec) is abstracted to writing the files and   *)
(* ending well or badly.  One indexer and well; every request is a         *)
(* separate HTTP handler.                                                  *)
(***************************************************************************)
EXTENDS Integers, Sequences, FiniteSets

CONSTANTS
    Reqs,       \* request id -> [kind |-> "push" or "pull", name |-> shard name]
    MaxSuffix,  \* the loop's bound: candidates base, base.1, .., base.(MaxSuffix-1)
    Crashes     \* the server process may die and start again

ASSUME ShardStoreAssumptions ==
    /\ MaxSuffix \in Nat \ {0, 1}
    /\ Crashes \in BOOLEAN
    /\ \A r \in DOMAIN Reqs : Reqs[r].kind \in {"push", "pull"}

Requests == DOMAIN Reqs

\* The k-th name the collision loop tries for a push of nm:
\* fmt.Sprintf("%s.%d", base, k), or base itself for k = 0.
Candidate(nm, k) == IF k = 0 THEN nm ELSE Append(nm, k)

Dirs == {Candidate(Reqs[r].name, k) : r \in Requests, k \in 0..MaxSuffix - 1}
        \cup {Reqs[r].name : r \in Requests}

NoDir == <<>>

\* No candidate of one requested name is a candidate of another requested
\* name: no client asks for "b.1" while another's "b" may fall back to it.
\* Indexers name shards without dots, so their pushes satisfy this.
UnambiguousNames ==
    \A r1, r2 \in Requests, k1, k2 \in 0..MaxSuffix - 1 :
        Candidate(Reqs[r1].name, k1) = Candidate(Reqs[r2].name, k2)
            => Reqs[r1].name = Reqs[r2].name

VARIABLES
    tracker,  \* the UploadIDs in the UploadTracker (one customer, indexer, well)
    dirs,     \* each shard directory: "absent", "empty", "partial", "complete"
    pc,       \* each request's place in its handler
    k,        \* the candidate a push's loop is about to Stat
    target    \* the directory a push writes, or NoDir

vars == <<tracker, dirs, pc, k, target>>

-----------------------------------------------------------------------------

\* Mutant of EnterUpload: the claim is not checked.
EnterUploadNoCheck(r) ==
    /\ pc[r] = "idle"
    /\ tracker' = tracker \cup {Reqs[r].name}
    /\ pc' = [pc EXCEPT ![r] = IF Reqs[r].kind = "push" THEN "stat" ELSE "read"]
    /\ UNCHANGED <<dirs, k, target>>

\* EnterUpload(uid): a second transfer of the same shard name fails with
\* ErrUploadInProgress and the handler answers with an error.
EnterUpload(r) ==
    /\ pc[r] = "idle"
    /\ IF Reqs[r].name \in tracker
       THEN pc' = [pc EXCEPT ![r] = "done"] /\ UNCHANGED tracker
       ELSE /\ tracker' = tracker \cup {Reqs[r].name}
            /\ pc' = [pc EXCEPT ![r] = IF Reqs[r].kind = "push" THEN "stat" ELSE "read"]
    /\ UNCHANGED <<dirs, k, target>>

\* ExitUpload(uid).
ExitUpload(r) ==
    /\ pc[r] = "exit"
    /\ tracker' = tracker \ {Reqs[r].name}
    /\ pc' = [pc EXCEPT ![r] = "done"]
    /\ UNCHANGED <<dirs, k, target>>

\* Mutant of StatCandidate: the loop never looks past the base name.
StatCandidateBaseOnly(r) ==
    /\ pc[r] = "stat"
    /\ target' = [target EXCEPT ![r] = Reqs[r].name]
    /\ pc' = [pc EXCEPT ![r] = "mkdir"]
    /\ UNCHANGED <<tracker, dirs, k>>

\* One iteration of "for i := 1; i < 10000; i++": Stat the current name
\* and break if it does not exist, else move to base.i; after the last
\* iteration the loop ends on base.(MaxSuffix-1) without a Stat.
StatCandidate(r) ==
    LET nm == Candidate(Reqs[r].name, k[r]) IN
    /\ pc[r] = "stat"
    /\ IF dirs[nm] = "absent" \/ k[r] + 1 = MaxSuffix
       THEN /\ target' = [target EXCEPT ![r] = nm]
            /\ pc' = [pc EXCEPT ![r] = "mkdir"]
            /\ UNCHANGED k
       ELSE /\ k' = [k EXCEPT ![r] = k[r] + 1]
            /\ UNCHANGED <<pc, target>>
    /\ UNCHANGED <<tracker, dirs>>

\* os.MkdirAll(shardDir) succeeds whether or not the directory exists; on
\* an error (permissions, a full disk) the handler calls ExitUpload.
MkdirAll(r) ==
    /\ pc[r] = "mkdir"
    /\ \/ /\ dirs' = [dirs EXCEPT ![target[r]] = IF @ = "absent" THEN "empty" ELSE @]
          /\ pc' = [pc EXCEPT ![r] = "write"]
       \/ /\ pc' = [pc EXCEPT ![r] = "exit"]
          /\ UNCHANGED dirs
    /\ UNCHANGED <<tracker, k, target>>

\* Unpack's HandleFile calls create or truncate files in the directory.
WriteFiles(r) ==
    /\ pc[r] = "write"
    /\ dirs' = [dirs EXCEPT ![target[r]] = "partial"]
    /\ pc' = [pc EXCEPT ![r] = "unpacked"]
    /\ UNCHANGED <<tracker, k, target>>

\* Mutant of UnpackEnd: the error path leaves the directory in place.
UnpackEndNoRemove(r) ==
    /\ pc[r] = "unpacked"
    /\ \/ dirs' = [dirs EXCEPT ![target[r]] = "complete"]
       \/ UNCHANGED dirs
    /\ pc' = [pc EXCEPT ![r] = "exit"]
    /\ UNCHANGED <<tracker, k, target>>

\* Mutant of UnpackEnd: the error path removes the directory and returns
\* without ExitUpload.
UnpackEndNoExit(r) ==
    /\ pc[r] = "unpacked"
    /\ \/ dirs' = [dirs EXCEPT ![target[r]] = "complete"] /\ pc' = [pc EXCEPT ![r] = "exit"]
       \/ dirs' = [dirs EXCEPT ![target[r]] = "absent"] /\ pc' = [pc EXCEPT ![r] = "done"]
    /\ UNCHANGED <<tracker, k, target>>

\* Unpack returns: on success the directory holds the whole shard; on an
\* error os.RemoveAll(shardDir).  Either way ExitUpload follows.
UnpackEnd(r) ==
    /\ pc[r] = "unpacked"
    /\ \/ dirs' = [dirs EXCEPT ![target[r]] = "complete"]
       \/ dirs' = [dirs EXCEPT ![target[r]] = "absent"]
    /\ pc' = [pc EXCEPT ![r] = "exit"]
    /\ UNCHANGED <<tracker, k, target>>

\* PackShard: readableDir(shardDir) fails on a missing directory; otherwise
\* the packer streams the directory's files.  ExitUpload follows.
ReadShard(r) ==
    /\ pc[r] = "read"
    /\ pc' = [pc EXCEPT ![r] = "exit"]
    /\ UNCHANGED <<tracker, dirs, k, target>>

\* The process dies: handlers and the in-memory tracker are gone, the
\* directories stay as they are.
Crash ==
    /\ Crashes
    /\ \E r \in Requests : pc[r] \notin {"idle", "done"}
    /\ tracker' = {}
    /\ pc' = [r \in Requests |-> IF pc[r] = "idle" THEN "idle" ELSE "done"]
    /\ UNCHANGED <<dirs, k, target>>

-----------------------------------------------------------------------------

StoreInit ==
    /\ tracker = {}
    /\ dirs = [d \in Dirs |-> "absent"]
    /\ pc = [r \in Requests |-> "idle"]
    /\ k = [r \in Requests |-> 0]
    /\ target = [r \in Requests |-> NoDir]

StoreNext ==
    \/ \E r \in Requests :
          \/ EnterUpload(r) \/ StatCandidate(r) \/ MkdirAll(r) \/ WriteFiles(r)
          \/ UnpackEnd(r) \/ ReadShard(r) \/ ExitUpload(r)
    \/ Crash

\* Each handler runs on its own goroutine to its end.
StoreFairness ==
    \A r \in Requests :
       WF_vars(EnterUpload(r) \/ StatCandidate(r) \/ MkdirAll(r) \/ WriteFiles(r)
               \/ UnpackEnd(r) \/ ReadShard(r) \/ ExitUpload(r))

StoreSpec == StoreInit /\ [][StoreNext]_vars /\ StoreFairness

-----------------------------------------------------------------------------
(* Properties.                                                             *)

StoreTypeOK ==
    /\ tracker \subseteq {Reqs[r].name : r \in Requests}
    /\ dirs \in [Dirs -> {"absent", "empty", "partial", "complete"}]
    /\ pc \in [Requests -> {"idle", "stat", "mkdir", "write", "unpacked", "read", "exit", "done"}]
    /\ k \in [Requests -> 0..MaxSuffix - 1]
    /\ target \in [Requests -> Dirs \cup {NoDir}]

\* The directory a transfer works in, or NoDir.
ActiveDir(r) ==
    IF Reqs[r].kind = "push" /\ pc[r] \in {"mkdir", "write", "unpacked"} THEN target[r]
    ELSE IF Reqs[r].kind = "pull" /\ pc[r] = "read" THEN Reqs[r].name
    ELSE NoDir

\* At most one push or pull works in a shard directory at any instant
\* (spec section 5 and property 7): the tracker's claim on the requested
\* name must cover the directory the collision loop picks.
ExclusiveDir ==
    \A r1, r2 \in Requests :
        r1 # r2 /\ ActiveDir(r1) # NoDir => ActiveDir(r1) # ActiveDir(r2)

\* A stored shard is never written into or removed by a later push
\* (spec section 3: shard directories are never mutated; collisions get
\* the .N suffixes).
NoOverwrite ==
    [][\A d \in Dirs : dirs[d] = "complete" => dirs'[d] = "complete"]_vars

\* Every handler returns and the tracker empties: no id stays claimed.
TrackerDrains ==
    <>[](tracker = {} /\ \A r \in Requests : pc[r] \in {"idle", "done"})

\* Only a push at work leaves a directory empty or partial (spec 4.5: an
\* aborted unpack's partial state is cleaned up).
NoTornShard ==
    \A d \in Dirs : dirs[d] \in {"empty", "partial"} => \E r \in Requests : ActiveDir(r) = d

=============================================================================
