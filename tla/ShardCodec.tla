------------------------------ MODULE ShardCodec ------------------------------
(***************************************************************************)
(* The shard transport codec of package shardpacker: a Packer that writes  *)
(* typed entries into a tar-in-zlib stream over an io.Pipe                 *)
(* (src/pkg/shardpacker/packer.go), an Unpacker that reads them and hands  *)
(* them to a backend (src/pkg/shardpacker/unpacker.go), and the program    *)
(* that feeds a shard directory to a packer (AddShardFilesToPacker,        *)
(* src/pkg/util/shard.go, called by client asyncPackShard,                 *)
(* src/pkg/client/client.go 400-419, and by filestore PackShard).          *)
(*                                                                         *)
(* Data abstraction.  A tar entry is its name and whether it arrived       *)
(* whole ("whole"), cut short ("torn"), or was not a regular file          *)
(* ("nonreg").  A name is a pair <<stem, extension>> so that Filename and  *)
(* FilenameToType keep their string logic; the shard id is the model       *)
(* value ShardId.  A file on disk is "ok", "absent", "bad" (open or stat   *)
(* fails) or "short" (it ends before the size io.CopyN was given).  The    *)
(* pipe holds the entries written and not yet read, at most PipeCap of     *)
(* them: io.Pipe is synchronous and only the tar and zlib buffers let the  *)
(* writer run ahead.                                                       *)
(***************************************************************************)
EXTENDS Integers, Sequences, FiniteSets

CONSTANTS
    ShardId,      \* the shard id the stream is packed and unpacked for
    OtherId,      \* an id of another shard
    SendTags,     \* the producer is the client (AddTags, AddWellTags first)
    RawClient,    \* the producer is an arbitrary client writing any entries
    MergeFaults,  \* the backend's HandleTagUpdate may fail
    PipeCap,      \* entries the writer may be ahead of the reader
    MaxRaw        \* entries an arbitrary client writes

ASSUME ShardCodecAssumptions ==
    /\ ShardId # OtherId
    /\ SendTags \in BOOLEAN /\ RawClient \in BOOLEAN /\ MergeFaults \in BOOLEAN
    /\ PipeCap \in Nat \ {0}
    /\ MaxRaw \in Nat

\* Ftype values 1..8.
Ftypes == {"Store", "Index", "Verify", "AccelFile", "IndexAccelKeyFile",
           "IndexAccelDataFile", "TagsUpdate", "WellTags"}
FileTypes == Ftypes \ {"TagsUpdate", "WellTags"}

\* Ftype.Filename: typed shard files carry the id and an extension; the
\* tags entries and the indexed-accelerator parts have fixed names.
Ext == [Store |-> ".store", Index |-> ".index", Verify |-> ".verify",
        AccelFile |-> ".accel"]
Bare == [TagsUpdate |-> <<"tagsupdate", "">>, WellTags |-> <<"tags", "">>,
         IndexAccelKeyFile |-> <<"keys", "">>, IndexAccelDataFile |-> <<"data", "">>]
Filename(t, id) == IF t \in DOMAIN Ext THEN <<id, Ext[t]>> ELSE Bare[t]

\* Ftype.Filepath: the on-disk place, a <<directory, name>> pair; the
\* indexed-accelerator parts go inside the <id>.accel directory.
Filepath(t, id) ==
    IF t \in {"IndexAccelKeyFile", "IndexAccelDataFile"}
    THEN <<Filename("AccelFile", id), Filename(t, id)>>
    ELSE <<<<>>, Filename(t, id)>>

\* FilenameToType: the fixed names first, then the extension; anything
\* else is ErrInvalidFileType ("none").
FilenameToType(nm) ==
    IF \E t \in DOMAIN Bare : Bare[t] = nm THEN CHOOSE t \in DOMAIN Bare : Bare[t] = nm
    ELSE IF \E t \in DOMAIN Ext : Ext[t] = nm[2] THEN CHOOSE t \in DOMAIN Ext : Ext[t] = nm[2]
    ELSE "none"

\* Mutant of Rivals: the accelerator forms do not exclude each other.
RivalsSelf(t) == {t}

\* ftracker.hitType(t) fails when t, or an accelerator form that excludes
\* it, was hit before; it marks t hit in every case.
Rivals(t) ==
    CASE t = "AccelFile" -> {"AccelFile", "IndexAccelKeyFile", "IndexAccelDataFile"}
      [] t = "IndexAccelKeyFile" -> {"AccelFile", "IndexAccelKeyFile"}
      [] t = "IndexAccelDataFile" -> {"AccelFile", "IndexAccelDataFile"}
      [] OTHER -> {t}
hitTypeErr(hits, t) == hits \cap Rivals(t) # {}

\* ftracker.allFilesHit(strict) returns no error.
allFilesHit(hits, strict) ==
    /\ "Store" \in hits
    /\ strict => {"TagsUpdate", "WellTags", "Index", "Verify"} \subseteq hits
    /\ ("IndexAccelKeyFile" \in hits) <=> ("IndexAccelDataFile" \in hits)

\* The names an arbitrary client may give its entries.
RawNames == {Filename(t, ShardId) : t \in Ftypes} \cup {<<OtherId, ".store">>, <<"junk", "">>}
EntryNames == RawNames \cup {Filename(t, ShardId) : t \in Ftypes}
DiskStates == {"ok", "absent", "bad", "short"}

VARIABLES
    disk,       \* state of each shard file in the source directory
    diskAccel,  \* the <id>.accel entry there: "none", "file", "dir", "bad" (Stat error)
    hits,       \* the Packer's ftracker: the types hit
    ppc,        \* the producer's next step
    pres,       \* what the producer reported: "none", "ok", "err"
    nsent,      \* entries an arbitrary client has written
    stream,     \* entries written into the pipe, not yet read
    wEnd,       \* the pipe writer: "open", "eof" (Close), "err" (CloseWithError)
    uhits,      \* the Unpacker's ftracker
    ures,       \* Unpack's result: "none" while it runs, "ok", "err"
    stored,     \* files HandleFile created: [path, whole]
    merges      \* HandleTagUpdate calls that merged a tag set

packVars == <<disk, diskAccel, hits, ppc, pres, nsent>>
unpackVars == <<uhits, ures, stored, merges>>
codecVars == <<packVars, stream, wEnd, unpackVars>>

\* A write into the pipe fails: the writer was closed (the context of the
\* packer is cancelled at the same time).  The pipe's reader is never
\* closed: the client wraps it in a readTicker, the server in io.Copy.
Broken == wEnd # "open"

\* The shard files AddShardFilesToPacker may read, by the accelerator form.
DiskFiles ==
    {"Verify", "Index", "Store"}
    \cup (IF diskAccel = "file" THEN {"AccelFile"} ELSE {})
    \cup (IF diskAccel = "dir" THEN {"IndexAccelKeyFile", "IndexAccelDataFile"} ELSE {})

-----------------------------------------------------------------------------
(* The Packer.                                                             *)

\* NewPacker: a fresh pipe and no type hit.
PackerInit ==
    /\ hits = {}
    /\ stream = <<>>
    /\ wEnd = "open"

\* CloseWithError and Cancel: the pipe writer is closed with an error (io.Pipe
\* keeps the first close) and the context is cancelled.
CloseWithError ==
    wEnd' = IF wEnd = "open" THEN "err" ELSE wEnd

\* Mutant of WriteEntry: the writer does not wait for the reader.
WriteEntryNoBlock(nm, kind) ==
    /\ ~Broken
    /\ stream' = Append(stream, [name |-> nm, kind |-> kind])

\* The tar header and body of one entry go into the pipe (WriteHeader and
\* writeAll, or io.CopyN).  io.Pipe is synchronous: the writer waits while
\* the reader is PipeCap entries behind.
WriteEntry(nm, kind) ==
    /\ ~Broken
    /\ Len(stream) < PipeCap
    /\ stream' = Append(stream, [name |-> nm, kind |-> kind])

\* AddFile(tp, sz, rdr), and addByteStream behind AddTags and AddWellTags,
\* from a source in state st ("ok" or "short"): hitType under the lock
\* (the type is marked even when it fails), then the header and the copy.
\* ok is TRUE when it returns no error.  A short source leaves a torn entry.
AddFile(t, st, ok) ==
    /\ hits' = hits \cup {t}
    /\ \/ /\ hitTypeErr(hits, t) \/ Broken
          /\ ~ok
          /\ UNCHANGED stream
       \/ /\ ~hitTypeErr(hits, t)
          /\ WriteEntry(Filename(t, ShardId), IF st = "ok" THEN "whole" ELSE "torn")
          /\ ok = (st = "ok")

\* Close (closePipeline): the tar trailer and the zlib footer are written,
\* each write waiting for the reader, then the pipe is closed; a failed
\* write returns before the pipe is closed.  Flush, which the server calls
\* first, fails in the same states.
closePipeline(ok) ==
    \/ /\ Broken
       /\ ~ok
       /\ UNCHANGED <<stream, wEnd>>
    \/ /\ ~Broken
       /\ stream = <<>>
       /\ ok
       /\ wEnd' = "eof"
       /\ UNCHANGED stream

-----------------------------------------------------------------------------
(* The producer: client asyncPackShard, or the adder goroutine of          *)
(* filestore PackShard, both running AddShardFilesToPacker.                *)

\* Mutant of Fail: the error is reported but the packer is left open.
FailNoClose ==
    /\ pres' = "err"
    /\ ppc' = "done"
    /\ UNCHANGED <<stream, wEnd>>

\* The producer's error path: report err and CloseWithError(err).
Fail ==
    /\ CloseWithError
    /\ pres' = "err"
    /\ ppc' = "done"

\* addFile(spath, id, tp, pkr, optional) with getHandleAndSize, then the
\* step next.  An optional file that does not exist is skipped; any other
\* open or stat failure is an error without an AddFile.  After an AddFile
\* error the caller fails unless it is the keys file, whose error is
\* followed by CloseWithError and the data file (no return, shard.go:95).
addFile(t, optional, next) ==
    LET st == disk[t] IN
    \/ /\ st = "absent" /\ optional
       /\ ppc' = next
       /\ UNCHANGED <<hits, pres, stream, wEnd>>
    \/ /\ st = "bad" \/ (st = "absent" /\ ~optional)
       /\ IF t = "IndexAccelKeyFile"
          THEN CloseWithError /\ ppc' = next /\ UNCHANGED pres
          ELSE Fail
       /\ UNCHANGED <<hits, stream>>
    \/ /\ st \in {"ok", "short"}
       /\ \E ok \in BOOLEAN :
             /\ AddFile(t, st, ok)
             /\ IF ok THEN ppc' = next /\ UNCHANGED <<pres, wEnd>>
                ELSE IF t = "IndexAccelKeyFile"
                THEN CloseWithError /\ ppc' = next /\ UNCHANGED pres
                ELSE Fail

\* AddTags or AddWellTags (never short), then the step next.
addByteStream(t, next) ==
    \E ok \in BOOLEAN :
       /\ AddFile(t, "ok", ok)
       /\ IF ok THEN ppc' = next /\ UNCHANGED <<pres, wEnd>> ELSE Fail

\* One step of the producer's program: the client's AddTags, AddWellTags,
\* then AddShardFilesToPacker (verify, index, store, the accelerator as a
\* file or as keys and data), then Close.
ProduceStep ==
    /\ ~RawClient
    /\ \/ ppc = "AddTags" /\ addByteStream("TagsUpdate", "AddWellTags")
       \/ ppc = "AddWellTags" /\ addByteStream("WellTags", "Verify")
       \/ ppc = "Verify" /\ addFile("Verify", TRUE, "Index")
       \/ ppc = "Index" /\ addFile("Index", FALSE, "Store")
       \/ ppc = "Store" /\ addFile("Store", FALSE, "Accel")
       \/ /\ ppc = "Accel" /\ diskAccel \in {"none", "bad"}
          /\ IF diskAccel = "none"
             THEN ppc' = "Close" /\ UNCHANGED <<pres, stream, wEnd>>
             ELSE Fail
          /\ UNCHANGED <<hits, stream>>
       \/ ppc = "Accel" /\ diskAccel = "file" /\ addFile("AccelFile", FALSE, "Close")
       \/ ppc = "Accel" /\ diskAccel = "dir" /\ addFile("IndexAccelKeyFile", FALSE, "Data")
       \/ ppc = "Data" /\ addFile("IndexAccelDataFile", FALSE, "Close")
       \/ /\ ppc = "Close"
          /\ \E ok \in BOOLEAN :
                /\ closePipeline(ok)
                /\ pres' = IF ok THEN "ok" ELSE "err"
          /\ ppc' = "done"
          /\ UNCHANGED hits
    /\ UNCHANGED <<disk, diskAccel, nsent, unpackVars>>

\* An arbitrary client writes any regular or non-regular entry ...
RawWrite ==
    /\ RawClient /\ ppc = "raw" /\ nsent < MaxRaw
    /\ \E nm \in RawNames, kind \in {"whole", "nonreg"} : WriteEntry(nm, kind)
    /\ nsent' = nsent + 1
    /\ UNCHANGED <<disk, diskAccel, hits, ppc, pres, wEnd, unpackVars>>

\* ... and ends the stream with Close or CloseWithError.
RawEnd ==
    /\ RawClient /\ ppc = "raw"
    /\ \/ \E ok \in BOOLEAN : closePipeline(ok) /\ pres' = IF ok THEN "ok" ELSE "err"
       \/ Fail /\ UNCHANGED stream
    /\ ppc' = "done"
    /\ UNCHANGED <<disk, diskAccel, hits, nsent, unpackVars>>

-----------------------------------------------------------------------------
(* The Unpacker: Unpack with the filestore handler of UnpackShard.         *)

\* Mutant of StorePath: the file is created under its tar name.
StorePathName(t) == <<<<>>, Filename(t, ShardId)>>

\* Where Unpack has the handler create a file of type t: ft.Filepath(up.id),
\* up.id being the shard name without its ".N" version.
StorePath(t) == Filepath(t, ShardId)

\* handler.HandleFile: creates (or truncates) the file and copies the
\* entry's body into it; a torn body ends in the stream's error.
HandleFile(p, whole) ==
    /\ stored' = {s \in stored : s.path # p} \cup {[path |-> p, whole |-> whole]}
    /\ ures' = IF whole THEN "none" ELSE "err"
    /\ UNCHANGED merges

\* updateTags: gob-decode the entry, HandleTagUpdate (the registry's Merge,
\* which may refuse the set), and only then hitType(TagsUpdate).
updateTags(e) ==
    \/ /\ e.kind = "torn" \/ MergeFaults
       /\ ures' = "err"
       /\ UNCHANGED <<uhits, stored, merges>>
    \/ /\ e.kind = "whole"
       /\ merges' = merges + 1
       /\ uhits' = uhits \cup {"TagsUpdate"}
       /\ ures' = IF hitTypeErr(uhits, "TagsUpdate") THEN "err" ELSE "none"
       /\ UNCHANGED stored

\* One iteration of Unpack's loop on the next entry e: a non-regular entry
\* or an unknown name ends it; a tags update goes to updateTags; any other
\* entry is checked by hitType and handed to HandleFile.
ReadEntry(e) ==
    LET t == FilenameToType(e.name) IN
    \/ /\ e.kind = "nonreg" \/ (e.name # Bare.TagsUpdate /\ t = "none")
       /\ ures' = "err"
       /\ UNCHANGED <<uhits, stored, merges>>
    \/ /\ e.kind # "nonreg" /\ e.name = Bare.TagsUpdate
       /\ updateTags(e)
    \/ /\ e.kind # "nonreg" /\ e.name # Bare.TagsUpdate /\ t # "none"
       /\ \/ /\ hitTypeErr(uhits, t)
             /\ uhits' = uhits \cup {t}
             /\ ures' = "err"
             /\ UNCHANGED <<stored, merges>>
          \/ /\ ~hitTypeErr(uhits, t)
             /\ HandleFile(StorePath(t), e.kind = "whole")
             /\ uhits' = uhits \cup {t}

\* One step of Unpack: read an entry, or meet the end of the stream: EOF
\* after Close is checked by allFilesHit(false), an error ends with it.
UnpackStep ==
    /\ ures = "none"
    /\ \/ /\ stream # <<>>
          /\ ReadEntry(Head(stream))
          /\ stream' = Tail(stream)
       \/ /\ stream = <<>> /\ wEnd = "eof"
          /\ ures' = IF allFilesHit(uhits, FALSE) THEN "ok" ELSE "err"
          /\ UNCHANGED <<stream, uhits, stored, merges>>
       \/ /\ stream = <<>> /\ wEnd = "err"
          /\ ures' = "err"
          /\ UNCHANGED <<stream, uhits, stored, merges>>
    /\ UNCHANGED <<packVars, wEnd>>

\* The packer's owner sees the transfer fail and calls Cancel, which closes
\* the pipe writer with an error: PushShard on an error of the request.
CallerCancel ==
    /\ ures = "err"
    /\ wEnd = "open"
    /\ CloseWithError
    /\ UNCHANGED <<packVars, stream, unpackVars>>

-----------------------------------------------------------------------------
(* One transfer: a producer, the pipe and Unpack.                          *)

\* The packing goroutine starts with AddTags when the client sends tags
\* (asyncPackShard), else with AddShardFilesToPacker; a raw client writes
\* entries of its own.  The shard directory is in any state the disk allows.
CodecInit ==
    /\ diskAccel \in IF RawClient THEN {"none"} ELSE {"none", "file", "dir", "bad"}
    /\ disk \in {d \in [FileTypes -> DiskStates] :
                   /\ \A t \in FileTypes \ DiskFiles : d[t] = "absent"
                   /\ Cardinality({t \in FileTypes : d[t] \in {"bad", "short"}}) <= 1
                   /\ RawClient => \A t \in FileTypes : d[t] = "absent"}
    /\ ppc = IF RawClient THEN "raw" ELSE IF SendTags THEN "AddTags" ELSE "Verify"
    /\ pres = "none"
    /\ nsent = 0
    /\ PackerInit
    /\ uhits = {}
    /\ ures = "none"
    /\ stored = {}
    /\ merges = 0

CodecNext ==
    \/ ProduceStep
    \/ RawWrite
    \/ RawEnd
    \/ UnpackStep
    \/ CallerCancel

\* Each of the goroutines runs until it blocks.
CodecSpec ==
    /\ CodecInit /\ [][CodecNext]_codecVars
    /\ WF_codecVars(ProduceStep) /\ WF_codecVars(RawEnd)
    /\ WF_codecVars(UnpackStep) /\ WF_codecVars(CallerCancel)

-----------------------------------------------------------------------------
(* Properties.                                                             *)

Kinds == {"whole", "torn", "nonreg"}

CodecTypeOK ==
    /\ hits \subseteq Ftypes /\ uhits \subseteq Ftypes
    /\ pres \in {"none", "ok", "err"} /\ ures \in {"none", "ok", "err"}
    /\ wEnd \in {"open", "eof", "err"}
    /\ stream \in Seq([name : EntryNames, kind : Kinds])
    /\ Len(stream) <= PipeCap
    /\ merges \in Nat

\* The file types an accepted shard holds.
StoredTypes == {t \in FileTypes \cup {"WellTags"} : \E s \in stored : s.path = Filepath(t, ShardId)}

\* A stream Unpack accepts -- from any client, in any order -- leaves a
\* well-formed shard: a store file, no partial file, and one accelerator
\* form: a file or both halves of an indexed one (spec section 3 and
\* properties 2-3; hitType and allFilesHit(false) in unpacker.go).
UnpackValid ==
    ures = "ok" =>
        /\ "Store" \in StoredTypes
        /\ \A s \in stored : s.whole
        /\ "AccelFile" \in StoredTypes =>
               {"IndexAccelKeyFile", "IndexAccelDataFile"} \cap StoredTypes = {}
        /\ ("IndexAccelKeyFile" \in StoredTypes) <=> ("IndexAccelDataFile" \in StoredTypes)

\* What the packer read from the source directory.
SentTypes ==
    (IF SendTags THEN {"WellTags"} ELSE {}) \cup {t \in DiskFiles : disk[t] = "ok"}

\* Round trip (spec property 1): when both the client's packer and the
\* server's Unpack report success, the stored files are exactly the source
\* shard's files at the same relative paths, each whole, and the tag update
\* was merged once.
RoundTrip ==
    (~RawClient /\ pres = "ok" /\ ures = "ok") =>
        /\ stored = {[path |-> Filepath(t, ShardId), whole |-> TRUE] : t \in SentTypes}
        /\ merges = IF SendTags THEN 1 ELSE 0

\* Both ends of a transfer finish: no error path of the producer (the
\* missing return after the keys file included) leaves Unpack waiting on an
\* open pipe, and no failure of Unpack leaves the producer blocked on it.
Terminates == <>(ppc = "done" /\ ures # "none")

\* hitType's promise that nothing is added twice (packer.go:262-263) holds
\* for the tag update at unpack time: HandleTagUpdate runs at most once per
\* stream.
AtMostOneTagUpdate == merges <= 1

=============================================================================
