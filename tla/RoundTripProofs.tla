--------------------------- MODULE RoundTripProofs ---------------------------
(***************************************************************************)
(* Proof of the codec's round trip (spec property 1): when the client's    *)
(* producer (asyncPackShard running AddTags, AddWellTags and              *)
(* AddShardFilesToPacker, src/pkg/util/shard.go) and the server's Unpack   *)
(* (src/pkg/shardpacker/unpacker.go) both report success, the stored       *)
(* files are exactly the source shard's files, each whole, and the tag     *)
(* update was merged once -- for every pipe depth and constant value.      *)
(***************************************************************************)
EXTENDS ShardCodecProofs, SequenceTheorems

USE ShardCodecAssumptions

\* The places of the client's producer, in program order.
ProdPCs == {"AddTags", "AddWellTags", "Verify", "Index", "Store", "Accel",
            "Data", "Close", "done"}
Pos == [AddTags |-> 0, AddWellTags |-> 1, Verify |-> 2, Index |-> 3, Store |-> 4,
        Accel |-> 5, Data |-> 6, Close |-> 7, done |-> 8]

\* The producer's step that adds a file of each type.
TPos == [TagsUpdate |-> 0, WellTags |-> 1, Verify |-> 2, Index |-> 3, Store |-> 4,
         AccelFile |-> 5, IndexAccelKeyFile |-> 5, IndexAccelDataFile |-> 6]

\* The producer writes an entry of type t when its step comes: the tags
\* entries when it is the client, a file when the source has it whole.
Emits(t) == IF t \in {"TagsUpdate", "WellTags"} THEN SendTags ELSE disk[t] = "ok"

\* The types written by a producer that has reached place p without error.
WrittenAt(p) == {t \in Ftypes : TPos[t] < Pos[p] /\ Emits(t)}

\* The entry a well-behaved producer writes for type t.
Entry(t) == [name |-> Filename(t, ShardId), kind |-> "whole"]

Entries == {Entry(t) : t \in Ftypes}

\* The types of the entries in a pipe s, and in the pipe.
InPipeOf(s) == {FilenameToType(s[i].name) : i \in 1..Len(s)}
InPipe == InPipeOf(stream)

\* The entries of s carry distinct names.
Distinct(s) == \A i, j \in 1..Len(s) : i # j => s[i].name # s[j].name

\* The source directory: a file outside the accelerator form on disk is
\* absent.  Nothing changes it during a transfer.
DiskShape ==
    /\ diskAccel \in {"none", "file", "dir", "bad"}
    /\ disk \in [FileTypes -> DiskStates]
    /\ \A t \in FileTypes \ DiskFiles : disk[t] = "absent"

(***************************************************************************)
(* While neither end has failed, the honest producer has written exactly   *)
(* the entries of WrittenAt(ppc), whole and under distinct names; Unpack   *)
(* has read a prefix of them (uhits) and the pipe holds the rest; each     *)
(* file read was created whole at its own path and the tags update was     *)
(* merged once if read.                                                   *)
(***************************************************************************)
Core ==
    /\ ppc \in ProdPCs
    /\ ~SendTags => ppc \notin {"AddTags", "AddWellTags"}
    /\ ppc # "done" => wEnd = "open" /\ pres = "none"
    /\ ppc = "done" => wEnd = "eof" /\ pres = "ok"
    /\ hits = WrittenAt(ppc)
    /\ stream \in Seq(Entries)
    /\ Distinct(stream)
    /\ WrittenAt(ppc) = uhits \cup InPipe
    /\ uhits \cap InPipe = {}
    /\ stored = {[path |-> Filepath(t, ShardId), whole |-> TRUE] : t \in uhits \ {"TagsUpdate"}}
    /\ merges = IF "TagsUpdate" \in uhits THEN 1 ELSE 0
    /\ ures \in {"none", "ok"}
    /\ ures = "ok" => stream = <<>> /\ wEnd = "eof"

\* The transfers the round trip says nothing of, and that stay so: an
\* arbitrary client, a producer that failed (the pipe closed with an
\* error, never reported ok) and an Unpack that failed.
Gone == RawClient \/ (wEnd = "err" /\ pres # "ok") \/ ures = "err"

\* The inductive invariant.
RTInv == DiskShape /\ (Gone \/ Core)

-----------------------------------------------------------------------------
(* Lemmas on the names of the entries.                                     *)

\* FilenameToType inverts Ftype.Filename for the shard's own id.
LEMMA NameType ==
    ASSUME NEW t \in Ftypes
    PROVE  FilenameToType(Filename(t, ShardId)) = t
<1>1. DOMAIN Bare = {"TagsUpdate", "WellTags", "IndexAccelKeyFile", "IndexAccelDataFile"}
      /\ DOMAIN Ext = {"Store", "Index", "Verify", "AccelFile"}
    BY DEF Bare, Ext
\* (The bare names' second part is stated as "no extension": the SMT
\* backend does not relate an applied value to the empty string.)
<1>0. /\ Bare.TagsUpdate[1] = "tagsupdate" /\ Bare.WellTags[1] = "tags"
      /\ Bare.IndexAccelKeyFile[1] = "keys" /\ Bare.IndexAccelDataFile[1] = "data"
      /\ \A u \in DOMAIN Bare : Bare[u][2] \notin {".store", ".index", ".verify", ".accel"}
    <2>2. ASSUME NEW u \in DOMAIN Bare
          PROVE  Bare[u][2] \notin {".store", ".index", ".verify", ".accel"}
        <3>1. u \in {"TagsUpdate", "WellTags", "IndexAccelKeyFile", "IndexAccelDataFile"}
            BY <1>1
        <3>2. CASE u = "TagsUpdate"
            BY <3>2 DEF Bare
        <3>3. CASE u = "WellTags"
            BY <3>3 DEF Bare
        <3>4. CASE u = "IndexAccelKeyFile"
            BY <3>4 DEF Bare
        <3>5. CASE u = "IndexAccelDataFile"
            BY <3>5 DEF Bare
        <3> QED
            BY <3>1, <3>2, <3>3, <3>4, <3>5
    <2>3. /\ Bare.TagsUpdate[1] = "tagsupdate" /\ Bare.WellTags[1] = "tags"
          /\ Bare.IndexAccelKeyFile[1] = "keys" /\ Bare.IndexAccelDataFile[1] = "data"
        BY DEF Bare
    <2> QED
        BY <2>2, <2>3
<1>2. CASE t \in DOMAIN Bare
    <2>1. Filename(t, ShardId) = Bare[t]
        BY <1>1, <1>2 DEF Filename
    <2>2. ASSUME NEW u \in DOMAIN Bare, Bare[u] = Bare[t]
          PROVE  u = t
        <3>1. Bare[u][1] = Bare[t][1]
            BY <2>2
        <3> QED
            BY <1>0, <1>1, <1>2, <3>1
    <2>. DEFINE c == CHOOSE u \in DOMAIN Bare : Bare[u] = Bare[t]
    <2>3. c \in DOMAIN Bare /\ Bare[c] = Bare[t]
        BY <1>2
    <2>4. FilenameToType(Filename(t, ShardId)) = c
        BY <1>2, <2>1 DEF FilenameToType
    <2> QED
        BY <2>2, <2>3, <2>4
<1>3. CASE t \in DOMAIN Ext
    <2>1. Filename(t, ShardId) = <<ShardId, Ext[t]>>
        BY <1>3 DEF Filename
    <2>2. Ext[t] \in {".store", ".index", ".verify", ".accel"}
        BY <1>1, <1>3 DEF Ext
    <2>4. ~\E u \in DOMAIN Bare : Bare[u] = <<ShardId, Ext[t]>>
        <3> SUFFICES ASSUME NEW u \in DOMAIN Bare, Bare[u] = <<ShardId, Ext[t]>>
                     PROVE  FALSE
            OBVIOUS
        <3>1. Bare[u][2] = Ext[t]
            OBVIOUS
        <3> QED
            BY <1>0, <2>2, <3>1
    <2>5. \A u \in DOMAIN Ext : Ext[u] = Ext[t] => u = t
        BY <1>1, <1>3 DEF Ext
    <2>. DEFINE c == CHOOSE u \in DOMAIN Ext : Ext[u] = Ext[t]
    <2>6. c \in DOMAIN Ext /\ Ext[c] = Ext[t]
        BY <1>3
    <2>7. <<ShardId, Ext[t]>>[2] = Ext[t]
        OBVIOUS
    <2>8. FilenameToType(Filename(t, ShardId)) = c
        BY <1>3, <2>1, <2>4, <2>7 DEF FilenameToType
    <2> QED
        BY <2>5, <2>6, <2>8
<1> QED
    BY <1>1, <1>2, <1>3 DEF Ftypes

\* Distinct types have distinct entry names.
LEMMA NameInjective ==
    ASSUME NEW t1 \in Ftypes, NEW t2 \in Ftypes,
           Filename(t1, ShardId) = Filename(t2, ShardId)
    PROVE  t1 = t2
BY NameType

\* Only the tags update carries the name Unpack hands to updateTags.
LEMMA TagsName ==
    ASSUME NEW t \in Ftypes
    PROVE  (Filename(t, ShardId) = Bare.TagsUpdate) <=> (t = "TagsUpdate")
<1>1. Filename("TagsUpdate", ShardId) = Bare.TagsUpdate
    BY DEF Filename, Bare, Ext
<1> QED
    BY <1>1, NameInjective DEF Ftypes

-----------------------------------------------------------------------------
(* Lemmas on the producer's program order.                                 *)

\* The types whose step lies between places p (included) and q.
Pass(p, q) == {t \in Ftypes : Pos[p] <= TPos[t] /\ TPos[t] < Pos[q]}

LEMMA PosRange ==
    /\ \A p \in ProdPCs : Pos[p] \in 0..8
    /\ \A t \in Ftypes : TPos[t] \in 0..6
BY DEF ProdPCs, Pos, Ftypes, TPos

\* Moving on from p to q adds the types in between that the producer emits.
LEMMA WrittenSplit ==
    ASSUME NEW p \in ProdPCs, NEW q \in ProdPCs, Pos[p] <= Pos[q]
    PROVE  WrittenAt(q) = WrittenAt(p) \cup {t \in Pass(p, q) : Emits(t)}
BY PosRange DEF WrittenAt, Pass

\* The types each step of AddTags, AddWellTags and AddShardFilesToPacker
\* passes.
LEMMA PassValues ==
    /\ Pass("AddTags", "AddWellTags") = {"TagsUpdate"}
    /\ Pass("AddWellTags", "Verify") = {"WellTags"}
    /\ Pass("Verify", "Index") = {"Verify"}
    /\ Pass("Index", "Store") = {"Index"}
    /\ Pass("Store", "Accel") = {"Store"}
    /\ Pass("Accel", "Close") = {"AccelFile", "IndexAccelKeyFile", "IndexAccelDataFile"}
    /\ Pass("Accel", "Data") = {"AccelFile", "IndexAccelKeyFile"}
    /\ Pass("Data", "Close") = {"IndexAccelDataFile"}
    /\ Pass("Close", "done") = {}
<1>1. Pass("AddTags", "AddWellTags") = {"TagsUpdate"}
    BY DEF Pass, Pos, TPos, Ftypes
<1>2. Pass("AddWellTags", "Verify") = {"WellTags"}
    BY DEF Pass, Pos, TPos, Ftypes
<1>3. Pass("Verify", "Index") = {"Verify"}
    BY DEF Pass, Pos, TPos, Ftypes
<1>4. Pass("Index", "Store") = {"Index"}
    BY DEF Pass, Pos, TPos, Ftypes
<1>5. Pass("Store", "Accel") = {"Store"}
    BY DEF Pass, Pos, TPos, Ftypes
<1>6. Pass("Accel", "Close") = {"AccelFile", "IndexAccelKeyFile", "IndexAccelDataFile"}
    BY DEF Pass, Pos, TPos, Ftypes
<1>7. Pass("Accel", "Data") = {"AccelFile", "IndexAccelKeyFile"}
    BY DEF Pass, Pos, TPos, Ftypes
<1>8. Pass("Data", "Close") = {"IndexAccelDataFile"}
    BY DEF Pass, Pos, TPos, Ftypes
<1>9. Pass("Close", "done") = {}
    BY DEF Pass, Pos, TPos, Ftypes
<1> QED
    BY <1>1, <1>2, <1>3, <1>4, <1>5, <1>6, <1>7, <1>8, <1>9

\* The steps of the producer, each at the place of its type.
LEMMA StepOrder ==
    /\ {"AddTags", "AddWellTags", "Verify", "Index", "Store", "Accel", "Data",
        "Close"} \subseteq ProdPCs \ {"done"}
    /\ "done" \in ProdPCs
    /\ Pos["AddTags"] <= Pos["AddWellTags"] /\ TPos["TagsUpdate"] = Pos["AddTags"]
    /\ Pos["AddWellTags"] <= Pos["Verify"] /\ TPos["WellTags"] = Pos["AddWellTags"]
    /\ Pos["Verify"] <= Pos["Index"] /\ TPos["Verify"] = Pos["Verify"]
    /\ Pos["Index"] <= Pos["Store"] /\ TPos["Index"] = Pos["Index"]
    /\ Pos["Store"] <= Pos["Accel"] /\ TPos["Store"] = Pos["Store"]
    /\ Pos["Accel"] <= Pos["Close"] /\ TPos["AccelFile"] = Pos["Accel"]
    /\ Pos["Accel"] <= Pos["Data"] /\ TPos["IndexAccelKeyFile"] = Pos["Accel"]
    /\ Pos["Data"] <= Pos["Close"] /\ TPos["IndexAccelDataFile"] = Pos["Data"]
    /\ Pos["Close"] <= Pos["done"]
    /\ {"Verify", "Index", "Store", "AccelFile", "IndexAccelKeyFile",
        "IndexAccelDataFile"} \subseteq FileTypes
BY DEF ProdPCs, Pos, TPos, FileTypes, Ftypes

\* Once the producer is done it has written every type it emits.
LEMMA WrittenDone ==
    WrittenAt("done") = {t \in Ftypes : Emits(t)}
BY PosRange DEF WrittenAt, Pos, ProdPCs

-----------------------------------------------------------------------------
(* Lemmas on the pipe.                                                     *)

\* An entry of the pipe has the type its name says.
LEMMA EntryType ==
    ASSUME NEW t \in Ftypes
    PROVE  /\ FilenameToType(Entry(t).name) = t
           /\ Entry(t).kind = "whole"
BY NameType DEF Entry

\* Writing the entry of a type not yet in the pipe.
LEMMA AppendPipe ==
    ASSUME NEW s \in Seq(Entries), Distinct(s), NEW t \in Ftypes, t \notin InPipeOf(s)
    PROVE  /\ Append(s, Entry(t)) \in Seq(Entries)
           /\ Distinct(Append(s, Entry(t)))
           /\ InPipeOf(Append(s, Entry(t))) = InPipeOf(s) \cup {t}
<1>1. Entry(t) \in Entries
    BY DEF Entries
<1>2. ASSUME NEW i \in 1..Len(s) PROVE s[i].name # Entry(t).name
    <2>1. PICK u \in Ftypes : s[i] = Entry(u)
        BY DEF Entries
    <2>2. u \in InPipeOf(s)
        BY <2>1, EntryType DEF InPipeOf
    <2>3. u # t
        BY <2>2
    <2> QED
        BY <2>1, <2>3, NameInjective DEF Entry
<1>3. Distinct(Append(s, Entry(t)))
    BY <1>2 DEF Distinct
<1>4. InPipeOf(Append(s, Entry(t))) = InPipeOf(s) \cup {t}
    BY EntryType DEF InPipeOf
<1> QED
    BY <1>1, <1>3, <1>4

\* Reading the head of the pipe takes its type out of the pipe.
LEMMA TailPipe ==
    ASSUME NEW s \in Seq(Entries), Distinct(s), s # <<>>
    PROVE  /\ Tail(s) \in Seq(Entries)
           /\ Distinct(Tail(s))
           /\ FilenameToType(Head(s).name) \in Ftypes
           /\ Head(s) = Entry(FilenameToType(Head(s).name))
           /\ InPipeOf(Tail(s)) = InPipeOf(s) \ {FilenameToType(Head(s).name)}
<1>. DEFINE typ(i) == FilenameToType(s[i].name)
<1>1. \A i \in 1..Len(s) : typ(i) \in Ftypes /\ s[i] = Entry(typ(i))
    BY EntryType DEF Entries
<1>2. \A i, j \in 1..Len(s) : i # j => typ(i) # typ(j)
    BY <1>1 DEF Distinct, Entry
<1>3. /\ Len(s) >= 1 /\ Head(s) = s[1]
      /\ Tail(s) \in Seq(Entries)
      /\ Len(Tail(s)) = Len(s) - 1
      /\ \A i \in 1..Len(Tail(s)) : Tail(s)[i] = s[i+1]
    BY HeadTailProperties
<1>4. InPipeOf(Tail(s)) = {typ(i) : i \in 2..Len(s)}
    <2>1. ASSUME NEW i \in 1..Len(Tail(s))
          PROVE  FilenameToType(Tail(s)[i].name) = typ(i+1) /\ i + 1 \in 2..Len(s)
        BY <1>3
    <2>2. ASSUME NEW j \in 2..Len(s)
          PROVE  j - 1 \in 1..Len(Tail(s)) /\ typ(j) = FilenameToType(Tail(s)[j-1].name)
        BY <1>3
    <2>3. ASSUME NEW x \in InPipeOf(Tail(s)) PROVE x \in {typ(i) : i \in 2..Len(s)}
        <3>1. PICK i \in 1..Len(Tail(s)) : x = FilenameToType(Tail(s)[i].name)
            BY DEF InPipeOf
        <3> QED
            BY <3>1, <2>1
    <2>4. ASSUME NEW j \in 2..Len(s) PROVE typ(j) \in InPipeOf(Tail(s))
        BY <2>2 DEF InPipeOf
    <2> QED
        BY <2>3, <2>4
<1>5. InPipeOf(s) \ {typ(1)} = {typ(i) : i \in 2..Len(s)}
    <2>1. ASSUME NEW i \in 1..Len(s), typ(i) # typ(1) PROVE i \in 2..Len(s)
        BY <2>1
    <2>2. ASSUME NEW i \in 2..Len(s) PROVE typ(i) # typ(1)
        BY <1>2, <1>3
    <2>3. ASSUME NEW x \in InPipeOf(s) \ {typ(1)} PROVE x \in {typ(i) : i \in 2..Len(s)}
        <3>1. PICK i \in 1..Len(s) : x = typ(i)
            BY DEF InPipeOf
        <3> QED
            BY <3>1, <2>1
    <2>4. ASSUME NEW j \in 2..Len(s) PROVE typ(j) \in InPipeOf(s) \ {typ(1)}
        <3>1. j \in 1..Len(s)
            OBVIOUS
        <3> QED
            BY <3>1, <2>2 DEF InPipeOf
    <2> QED
        BY <2>3, <2>4
<1>6. Distinct(Tail(s))
    BY <1>3 DEF Distinct
<1>7. 1 \in 1..Len(s)
    BY <1>3
<1>8. typ(1) \in Ftypes /\ s[1] = Entry(typ(1))
    BY <1>1, <1>7
<1>9. FilenameToType(Head(s).name) = typ(1)
    BY <1>3
<1> QED
    BY <1>3, <1>4, <1>5, <1>6, <1>8, <1>9

-----------------------------------------------------------------------------
(* Frame lemmas.                                                           *)

\* No step touches the source directory.
LEMMA DiskStep ==
    ASSUME DiskShape, [CodecNext]_codecVars
    PROVE  /\ disk' = disk /\ diskAccel' = diskAccel
           /\ DiskShape'
<1>1. disk' = disk /\ diskAccel' = diskAccel
    BY DEF CodecNext, ProduceStep, RawWrite, RawEnd, UnpackStep, CallerCancel,
           codecVars, packVars
<1> QED
    BY <1>1 DEF DiskShape, DiskFiles

\* An arbitrary client stays one, a failed producer never reports success
\* afterwards, and a failed Unpack stays failed.
LEMMA GoneStep ==
    ASSUME Gone, [CodecNext]_codecVars
    PROVE  Gone'
<1>1. CASE RawClient
    BY <1>1 DEF Gone
<1>2. CASE ures = "err"
    <2>1. ures' = "err"
        BY <1>2 DEF CodecNext, ProduceStep, RawWrite, RawEnd, UnpackStep,
                    CallerCancel, codecVars, unpackVars
    <2> QED
        BY <2>1 DEF Gone
<1>3. CASE ~RawClient /\ wEnd = "err" /\ pres # "ok"
    <2>1. CASE ProduceStep
        <3>1. wEnd' = "err"
            BY <1>3, <2>1 DEF ProduceStep, addByteStream, addFile, AddFile,
                              Fail, CloseWithError, closePipeline, Broken
        <3>2. pres' # "ok"
            BY <1>3, <2>1 DEF ProduceStep, addByteStream, addFile, AddFile,
                              Fail, closePipeline, Broken
        <3> QED
            BY <3>1, <3>2 DEF Gone
    <2>2. CASE RawWrite \/ RawEnd
        BY <1>3, <2>2 DEF RawWrite, RawEnd
    <2>3. CASE UnpackStep \/ CallerCancel \/ UNCHANGED codecVars
        BY <1>3, <2>3 DEF UnpackStep, CallerCancel, codecVars, packVars, Gone
    <2> QED
        BY <2>1, <2>2, <2>3 DEF CodecNext
<1> QED
    BY <1>1, <1>2, <1>3 DEF Gone

-----------------------------------------------------------------------------
(* The producer's steps.                                                   *)

\* While the producer runs, the pipe is open, nothing is reported, and
\* Unpack has not succeeded (it needs the end of the stream).
LEMMA Running ==
    ASSUME Core, ppc # "done"
    PROVE  wEnd = "open" /\ pres = "none" /\ ures = "none"
BY DEF Core

\* A failed step of the producer closes the pipe with an error without
\* reporting success: the transfer is one the round trip says nothing of.
LEMMA FailGone ==
    ASSUME wEnd = "open", pres = "none", CloseWithError, pres' \in {"none", "err"}
    PROVE  Gone'
BY DEF CloseWithError, Gone

\* A step that writes the whole entry of a type not yet written, and moves
\* to the place whose written set adds that type, keeps Core.
LEMMA EmitKeeps ==
    ASSUME Core, NEW t \in Ftypes, NEW q \in ProdPCs \ {"done"},
           ppc # "done", t \notin WrittenAt(ppc),
           WrittenAt(q) = WrittenAt(ppc) \cup {t},
           ~SendTags => q \notin {"AddTags", "AddWellTags"},
           ppc' = q, disk' = disk, hits' = hits \cup {t},
           stream' = Append(stream, Entry(t)),
           wEnd' = wEnd, pres' = pres, UNCHANGED unpackVars
    PROVE  Core'
<1>1. WrittenAt(ppc)' = WrittenAt(q)
    BY DEF WrittenAt, Emits
<1>2. t \notin InPipe /\ t \notin uhits
    BY DEF Core
<1>3. /\ stream' \in Seq(Entries)
      /\ Distinct(stream')
      /\ InPipe' = InPipe \cup {t}
    BY <1>2, AppendPipe DEF Core, InPipe
<1>4. wEnd = "open" /\ pres = "none" /\ ures = "none"
    BY Running
<1> QED
    BY <1>1, <1>3, <1>4 DEF Core, unpackVars

\* A step that writes nothing and passes only types the producer does not
\* emit keeps Core.
LEMMA SkipKeeps ==
    ASSUME Core, NEW q \in ProdPCs \ {"done"}, ppc # "done",
           WrittenAt(q) = WrittenAt(ppc),
           ~SendTags => q \notin {"AddTags", "AddWellTags"},
           ppc' = q, disk' = disk,
           UNCHANGED <<hits, stream, wEnd, pres, unpackVars>>
    PROVE  Core'
<1>1. WrittenAt(ppc)' = WrittenAt(q)
    BY DEF WrittenAt, Emits
<1>2. wEnd = "open" /\ pres = "none" /\ ures = "none"
    BY Running
<1> QED
    BY <1>1, <1>2 DEF Core, unpackVars, InPipe, InPipeOf

\* addFile(t, optional, q) -- getHandleAndSize, then AddFile -- from the
\* step of type t to place q, where t is the only type in between that the
\* producer may emit: a missing optional file is skipped, a whole file is
\* written, and every other outcome closes the pipe with an error.
LEMMA AddFileCase ==
    ASSUME Core, DiskShape, NEW t \in FileTypes, NEW optional \in BOOLEAN,
           NEW q \in ProdPCs \ {"done"}, q \notin {"AddTags", "AddWellTags"},
           ppc \in ProdPCs \ {"done"}, Pos[ppc] <= Pos[q], TPos[t] = Pos[ppc],
           {u \in Pass(ppc, q) : Emits(u)} = IF disk[t] = "ok" THEN {t} ELSE {},
           addFile(t, optional, q), UNCHANGED <<disk, unpackVars>>, ~Gone'
    PROVE  Core'
<1>0. wEnd = "open" /\ pres = "none"
    BY Running
<1>1. WrittenAt(q) = WrittenAt(ppc) \cup (IF disk[t] = "ok" THEN {t} ELSE {})
    BY WrittenSplit
<1>2. t \in Ftypes /\ t \notin WrittenAt(ppc)
    BY PosRange DEF WrittenAt, FileTypes
<1>3. CASE disk[t] = "absent" /\ optional
           /\ ppc' = q /\ UNCHANGED <<hits, pres, stream, wEnd>>
    BY <1>1, <1>3, SkipKeeps
<1>4. CASE /\ disk[t] = "bad" \/ (disk[t] = "absent" /\ ~optional)
           /\ IF t = "IndexAccelKeyFile"
              THEN CloseWithError /\ ppc' = q /\ UNCHANGED pres
              ELSE Fail
    <2>1. CloseWithError /\ pres' \in {"none", "err"}
        BY <1>0, <1>4 DEF Fail
    <2> QED
        BY <1>0, <2>1, FailGone
<1>5. CASE /\ disk[t] \in {"ok", "short"}
           /\ \E ok \in BOOLEAN :
                 /\ AddFile(t, disk[t], ok)
                 /\ IF ok THEN ppc' = q /\ UNCHANGED <<pres, wEnd>>
                    ELSE IF t = "IndexAccelKeyFile"
                    THEN CloseWithError /\ ppc' = q /\ UNCHANGED pres
                    ELSE Fail
    <2>1. PICK ok \in BOOLEAN :
                 /\ AddFile(t, disk[t], ok)
                 /\ IF ok THEN ppc' = q /\ UNCHANGED <<pres, wEnd>>
                    ELSE IF t = "IndexAccelKeyFile"
                    THEN CloseWithError /\ ppc' = q /\ UNCHANGED pres
                    ELSE Fail
        BY <1>5
    <2>2. CASE ~ok
        <3>1. CloseWithError /\ pres' \in {"none", "err"}
            BY <1>0, <2>1, <2>2 DEF Fail
        <3> QED
            BY <1>0, <3>1, FailGone
    <2>3. CASE ok
        <3>1. /\ hits' = hits \cup {t}
              /\ disk[t] = "ok"
              /\ stream' = Append(stream, Entry(t))
            BY <1>0, <2>1, <2>3 DEF AddFile, WriteEntry, Broken, Entry
        <3>2. ppc' = q /\ pres' = pres /\ wEnd' = wEnd
            BY <2>1, <2>3
        <3> QED
            BY <1>1, <1>2, <3>1, <3>2, EmitKeeps
    <2> QED
        BY <2>2, <2>3
<1> QED
    BY <1>3, <1>4, <1>5 DEF addFile

\* addByteStream(t, q) -- AddTags or AddWellTags of the client.
LEMMA ByteStreamCase ==
    ASSUME Core, NEW t \in {"TagsUpdate", "WellTags"},
           NEW q \in ProdPCs \ {"done"}, SendTags,
           ppc \in ProdPCs \ {"done"}, Pos[ppc] <= Pos[q], TPos[t] = Pos[ppc],
           Pass(ppc, q) = {t},
           addByteStream(t, q), UNCHANGED <<disk, unpackVars>>, ~Gone'
    PROVE  Core'
<1>0. wEnd = "open" /\ pres = "none"
    BY Running
<1>1. WrittenAt(q) = WrittenAt(ppc) \cup {t}
    <2>1. Emits(t)
        BY DEF Emits
    <2> QED
        BY <2>1, WrittenSplit
<1>2. t \in Ftypes /\ t \notin WrittenAt(ppc)
    BY PosRange DEF WrittenAt, Ftypes
<1>3. PICK ok \in BOOLEAN :
          /\ AddFile(t, "ok", ok)
          /\ IF ok THEN ppc' = q /\ UNCHANGED <<pres, wEnd>> ELSE Fail
    BY DEF addByteStream
<1>4. CASE ~ok
    <2>1. CloseWithError /\ pres' \in {"none", "err"}
        BY <1>3, <1>4 DEF Fail
    <2> QED
        BY <1>0, <2>1, FailGone
<1>5. CASE ok
    <2>1. /\ hits' = hits \cup {t}
          /\ stream' = Append(stream, Entry(t))
        BY <1>0, <1>3, <1>5 DEF AddFile, WriteEntry, Broken, Entry
    <2>2. ppc' = q /\ pres' = pres /\ wEnd' = wEnd
        BY <1>3, <1>5
    <2> QED
        BY <1>1, <1>2, <2>1, <2>2, EmitKeeps
<1> QED
    BY <1>4, <1>5

\* Every step of the client's producer keeps Core, or leaves a transfer
\* the round trip says nothing of.
LEMMA ProduceCore ==
    ASSUME Core, DiskShape, ProduceStep, ~Gone'
    PROVE  Core'
<1>0. /\ UNCHANGED <<disk, diskAccel, unpackVars>>
      /\ ppc # "done"
      /\ wEnd = "open" /\ pres = "none"
    <2>1. UNCHANGED <<disk, diskAccel, unpackVars>> /\ ppc # "done"
        BY DEF ProduceStep
    <2> QED
        BY <2>1, Running
<1>1. CASE ppc = "AddTags" /\ addByteStream("TagsUpdate", "AddWellTags")
    <2>1. SendTags
        BY <1>1 DEF Core
    <2> QED
        BY <1>0, <1>1, <2>1, PassValues, StepOrder, ByteStreamCase
<1>2. CASE ppc = "AddWellTags" /\ addByteStream("WellTags", "Verify")
    <2>1. SendTags
        BY <1>2 DEF Core
    <2> QED
        BY <1>0, <1>2, <2>1, PassValues, StepOrder, ByteStreamCase
<1>3. CASE ppc = "Verify" /\ addFile("Verify", TRUE, "Index")
    <2>1. {u \in Pass(ppc, "Index") : Emits(u)} =
              IF disk["Verify"] = "ok" THEN {"Verify"} ELSE {}
        BY <1>3, PassValues DEF Emits
    <2> QED
        BY <1>0, <1>3, <2>1, StepOrder, AddFileCase
<1>4. CASE ppc = "Index" /\ addFile("Index", FALSE, "Store")
    <2>1. {u \in Pass(ppc, "Store") : Emits(u)} =
              IF disk["Index"] = "ok" THEN {"Index"} ELSE {}
        BY <1>4, PassValues DEF Emits
    <2> QED
        BY <1>0, <1>4, <2>1, StepOrder, AddFileCase
<1>5. CASE ppc = "Store" /\ addFile("Store", FALSE, "Accel")
    <2>1. {u \in Pass(ppc, "Accel") : Emits(u)} =
              IF disk["Store"] = "ok" THEN {"Store"} ELSE {}
        BY <1>5, PassValues DEF Emits
    <2> QED
        BY <1>0, <1>5, <2>1, StepOrder, AddFileCase
<1>6. CASE /\ ppc = "Accel" /\ diskAccel \in {"none", "bad"}
           /\ IF diskAccel = "none"
              THEN ppc' = "Close" /\ UNCHANGED <<pres, stream, wEnd>>
              ELSE Fail
           /\ UNCHANGED <<hits, stream>>
    <2>1. CASE diskAccel = "none"
        <3>1. \A u \in {"AccelFile", "IndexAccelKeyFile", "IndexAccelDataFile"} :
                 disk[u] = "absent"
            BY <2>1 DEF DiskShape, DiskFiles, FileTypes, Ftypes
        <3>2. {u \in Pass(ppc, "Close") : Emits(u)} = {}
            BY <1>6, <3>1, PassValues DEF Emits
        <3>3. WrittenAt("Close") = WrittenAt(ppc)
            BY <1>6, <3>2, StepOrder, WrittenSplit
        <3> QED
            BY <1>0, <1>6, <2>1, <3>3, StepOrder, SkipKeeps
    <2>5. CASE diskAccel = "bad"
        <3>1. CloseWithError /\ pres' \in {"none", "err"}
            BY <1>6, <2>5 DEF Fail
        <3> QED
            BY <1>0, <3>1, FailGone
    <2> QED
        BY <1>6, <2>1, <2>5
<1>7. CASE ppc = "Accel" /\ diskAccel = "file" /\ addFile("AccelFile", FALSE, "Close")
    <2>1. disk["IndexAccelKeyFile"] = "absent" /\ disk["IndexAccelDataFile"] = "absent"
        BY <1>7 DEF DiskShape, DiskFiles, FileTypes, Ftypes
    <2>2. {u \in Pass(ppc, "Close") : Emits(u)} =
              IF disk["AccelFile"] = "ok" THEN {"AccelFile"} ELSE {}
        BY <1>7, <2>1, PassValues DEF Emits
    <2> QED
        BY <1>0, <1>7, <2>2, StepOrder, AddFileCase
<1>8. CASE ppc = "Accel" /\ diskAccel = "dir" /\ addFile("IndexAccelKeyFile", FALSE, "Data")
    <2>1. disk["AccelFile"] = "absent"
        BY <1>8 DEF DiskShape, DiskFiles, FileTypes, Ftypes
    <2>2. {u \in Pass(ppc, "Data") : Emits(u)} =
              IF disk["IndexAccelKeyFile"] = "ok" THEN {"IndexAccelKeyFile"} ELSE {}
        BY <1>8, <2>1, PassValues DEF Emits
    <2> QED
        BY <1>0, <1>8, <2>2, StepOrder, AddFileCase
<1>9. CASE ppc = "Data" /\ addFile("IndexAccelDataFile", FALSE, "Close")
    <2>1. {u \in Pass(ppc, "Close") : Emits(u)} =
              IF disk["IndexAccelDataFile"] = "ok" THEN {"IndexAccelDataFile"} ELSE {}
        BY <1>9, PassValues DEF Emits
    <2> QED
        BY <1>0, <1>9, <2>1, StepOrder, AddFileCase
<1>10. CASE /\ ppc = "Close"
            /\ \E ok \in BOOLEAN :
                  /\ closePipeline(ok)
                  /\ pres' = IF ok THEN "ok" ELSE "err"
            /\ ppc' = "done"
            /\ UNCHANGED hits
    <2>1. PICK ok \in BOOLEAN : closePipeline(ok) /\ pres' = IF ok THEN "ok" ELSE "err"
        BY <1>10
    <2>0. wEnd = "open" /\ pres = "none" /\ ures = "none"
        BY <1>10, Running
    <2>2. ok /\ stream = <<>> /\ wEnd' = "eof" /\ pres' = "ok" /\ UNCHANGED stream
        BY <2>0, <2>1 DEF closePipeline, Broken
    <2>3. WrittenAt(ppc)' = WrittenAt(ppc)
        <3>0. /\ "Close" \in ProdPCs /\ "done" \in ProdPCs
              /\ Pos["Close"] <= Pos["done"]
            BY StepOrder
        <3>2. {t \in Pass("Close", "done") : Emits(t)} = {}
            BY PassValues
        <3>1. WrittenAt("done") = WrittenAt("Close")
            BY <3>0, <3>2, WrittenSplit
        <3> QED
            BY <1>0, <1>10, <3>1 DEF WrittenAt, Emits
    <2>4. ures = "none"
        BY <1>0, Running
    <2>5. UNCHANGED <<uhits, ures, stored, merges>>
        BY <1>0 DEF unpackVars
    <2>6. InPipe' = InPipe
        BY <2>2 DEF InPipe, InPipeOf
    <2>7. hits' = WrittenAt(ppc)'
        BY <1>10, <2>3 DEF Core
    <2> QED
        BY <1>10, <2>2, <2>4, <2>5, <2>6, <2>7 DEF Core, ProdPCs
<1> QED
    BY <1>1, <1>2, <1>3, <1>4, <1>5, <1>6, <1>7, <1>8, <1>9, <1>10
       DEF ProduceStep


-----------------------------------------------------------------------------
(* The steps of Unpack keep Core.                                          *)

\* The entry at the head of the pipe is one of the types in it.
LEMMA HeadInPipe ==
    ASSUME NEW s \in Seq(Entries), s # <<>>
    PROVE  FilenameToType(Head(s).name) \in InPipeOf(s)
<1>1. Len(s) >= 1 /\ Head(s) = s[1]
    BY HeadTailProperties
<1>2. 1 \in 1..Len(s)
    BY <1>1
<1> QED
    BY <1>1, <1>2 DEF InPipeOf

\* A step that leaves the producer alone leaves what it has written alone.
LEMMA PackFrame ==
    ASSUME UNCHANGED packVars
    PROVE  WrittenAt(ppc)' = WrittenAt(ppc)
BY DEF packVars, WrittenAt, Emits

\* One iteration of Unpack's loop on a whole entry of a type not yet hit:
\* a tags update is merged once, any other entry is created at its own
\* path, beside the files created before (Filepath is injective).
LEMMA UnpackRead ==
    ASSUME Core, ures = "none", stream # <<>>, ReadEntry(Head(stream)),
           stream' = Tail(stream), UNCHANGED <<packVars, wEnd>>, ~Gone'
    PROVE  Core'
<1> DEFINE t == FilenameToType(Head(stream).name)
<1>1. /\ stream' \in Seq(Entries) /\ Distinct(stream')
      /\ t \in Ftypes /\ Head(stream) = Entry(t)
      /\ InPipe' = InPipe \ {t}
    BY TailPipe DEF Core, InPipe
<1>2. t \in InPipe /\ t \notin uhits /\ uhits \subseteq Ftypes
    <2>1. t \in InPipe
        BY HeadInPipe DEF Core, InPipe
    <2>2. uhits \subseteq Ftypes
        BY DEF Core, WrittenAt
    <2> QED
        BY <2>1, <2>2 DEF Core
<1>3. Head(stream).kind = "whole" /\ Head(stream).name = Filename(t, ShardId)
    BY <1>1 DEF Entry
<1>4. (Head(stream).name = Bare.TagsUpdate) <=> (t = "TagsUpdate")
    BY <1>1, <1>3, TagsName
<1>5. /\ ppc' = ppc /\ hits' = hits /\ pres' = pres /\ wEnd' = wEnd
      /\ WrittenAt(ppc)' = WrittenAt(ppc)
    BY PackFrame DEF packVars
<1>6. ures' # "err"
    BY DEF Gone
<1>7. CASE t = "TagsUpdate"
    <2>1. /\ merges' = merges + 1 /\ uhits' = uhits \cup {"TagsUpdate"}
          /\ stored' = stored /\ ures' = "none"
        BY <1>3, <1>4, <1>6, <1>7 DEF ReadEntry, updateTags
    <2>2. merges = 0
        BY <1>2, <1>7 DEF Core
    <2>3. uhits' \ {"TagsUpdate"} = uhits \ {"TagsUpdate"}
        BY <2>1
    <2> QED
        BY <1>1, <1>2, <1>5, <1>7, <2>1, <2>2, <2>3 DEF Core
<1>8. CASE t # "TagsUpdate"
    <2>0. t # "none"
        BY <1>1 DEF Ftypes
    <2>1. /\ HandleFile(StorePath(t), TRUE)
          /\ uhits' = uhits \cup {t}
        BY <1>3, <1>4, <1>6, <1>8, <2>0 DEF ReadEntry
    <2>2. \A u \in uhits \ {"TagsUpdate"} : Filepath(u, ShardId) # Filepath(t, ShardId)
        <3> SUFFICES ASSUME NEW u \in uhits \ {"TagsUpdate"},
                            Filepath(u, ShardId) = Filepath(t, ShardId)
                     PROVE  FALSE
            OBVIOUS
        <3>1. u \in ShardTypes /\ t \in ShardTypes
            BY <1>1, <1>2, <1>8 DEF ShardTypes, FileTypes
        <3> QED
            BY <1>2, <3>1, FilepathInjective
    <2>3. /\ stored' = stored \cup {[path |-> Filepath(t, ShardId), whole |-> TRUE]}
          /\ ures' = "none" /\ merges' = merges
        <3>1. {x \in stored : x.path # Filepath(t, ShardId)} = stored
            BY <2>2 DEF Core
        <3> QED
            BY <2>1, <3>1 DEF HandleFile, StorePath
    <2>4. /\ uhits' \ {"TagsUpdate"} = (uhits \ {"TagsUpdate"}) \cup {t}
          /\ ("TagsUpdate" \in uhits') <=> ("TagsUpdate" \in uhits)
        BY <1>8, <2>1
    <2> QED
        BY <1>1, <1>2, <1>5, <2>1, <2>3, <2>4 DEF Core
<1> QED
    BY <1>7, <1>8

\* Every step of Unpack that does not fail keeps Core: reads by UnpackRead;
\* at EOF Unpack reports success with the pipe empty and closed; an error
\* end of the pipe cannot happen while Core holds.
LEMMA UnpackCore ==
    ASSUME Core, UnpackStep, ~Gone'
    PROVE  Core'
<1>1. ures = "none" /\ UNCHANGED <<packVars, wEnd>>
    BY DEF UnpackStep
<1>2. CASE stream # <<>> /\ ReadEntry(Head(stream)) /\ stream' = Tail(stream)
    BY <1>1, <1>2, UnpackRead
<1>3. CASE /\ stream = <<>> /\ wEnd = "eof"
           /\ ures' = IF allFilesHit(uhits, FALSE) THEN "ok" ELSE "err"
           /\ UNCHANGED <<stream, uhits, stored, merges>>
    <2>1. ures' = "ok"
        BY <1>3 DEF Gone
    <2>2. WrittenAt(ppc)' = WrittenAt(ppc) /\ ppc' = ppc /\ hits' = hits /\ pres' = pres
        BY <1>1, PackFrame DEF packVars
    <2>3. InPipe' = InPipe
        BY <1>3 DEF InPipe, InPipeOf
    <2> QED
        BY <1>1, <1>3, <2>1, <2>2, <2>3 DEF Core
<1>4. CASE stream = <<>> /\ wEnd = "err"
    BY <1>4 DEF Core
<1> QED
    BY <1>2, <1>3, <1>4 DEF UnpackStep

-----------------------------------------------------------------------------
(* The invariant and the round trip.                                       *)

\* Every initial state is a producer about to start, or an arbitrary client.
LEMMA RTInvInit ==
    ASSUME CodecInit
    PROVE  RTInv
<1>1. DiskShape
    BY DEF CodecInit, DiskShape
<1>2. CASE ~RawClient
    <2>1. \/ SendTags /\ ppc = "AddTags"
          \/ ~SendTags /\ ppc = "Verify"
        BY <1>2 DEF CodecInit
    <2>2. WrittenAt(ppc) = {}
        <3> SUFFICES ASSUME NEW t \in Ftypes, TPos[t] < Pos[ppc], Emits(t)
                     PROVE  FALSE
            BY DEF WrittenAt
        <3>1. TPos[t] \in 0..6
            BY PosRange
        <3>2. CASE SendTags /\ ppc = "AddTags"
            BY <3>1, <3>2 DEF Pos
        <3>3. CASE ~SendTags /\ ppc = "Verify"
            <4>1. t \in {"TagsUpdate", "WellTags"}
                BY <3>3 DEF Pos, TPos, Ftypes
            <4> QED
                BY <3>3, <4>1 DEF Emits
        <3> QED
            BY <2>1, <3>2, <3>3
    <2>3. InPipe = {} /\ Distinct(stream) /\ stream \in Seq(Entries)
        BY DEF CodecInit, PackerInit, InPipe, InPipeOf, Distinct
    <2>4. /\ uhits = {} /\ stored = {} /\ merges = 0 /\ ures = "none"
          /\ hits = {} /\ wEnd = "open" /\ pres = "none"
        BY DEF CodecInit, PackerInit
    <2>5. {[path |-> Filepath(t, ShardId), whole |-> TRUE] : t \in uhits \ {"TagsUpdate"}} = {}
        BY <2>4
    <2>6. ppc \in ProdPCs /\ ppc # "done"
        BY <2>1 DEF ProdPCs
    <2>7. ~SendTags => ppc \notin {"AddTags", "AddWellTags"}
        BY <2>1
    <2>8. /\ merges = IF "TagsUpdate" \in uhits THEN 1 ELSE 0
          /\ uhits \cap InPipe = {} /\ WrittenAt(ppc) = uhits \cup InPipe
          /\ hits = WrittenAt(ppc)
        BY <2>2, <2>3, <2>4
    <2>9. stored = {[path |-> Filepath(t, ShardId), whole |-> TRUE] : t \in uhits \ {"TagsUpdate"}}
        BY <2>4, <2>5
    <2>10. ures = "none" /\ ures \in {"none", "ok"} /\ (ppc # "done" => wEnd = "open" /\ pres = "none")
        BY <2>4
    <2> QED
        BY <1>1, <2>3, <2>6, <2>7, <2>8, <2>9, <2>10 DEF Core, RTInv
<1> QED
    BY <1>1, <1>2 DEF RTInv, Gone

\* RTInv is inductive: a transfer already gone stays gone (GoneStep), and
\* each step of the producer or of Unpack that does not make it gone keeps
\* Core; an arbitrary client and CallerCancel are gone already.
LEMMA RTInvStep ==
    ASSUME RTInv, [CodecNext]_codecVars
    PROVE  RTInv'
<1>1. DiskShape'
    BY DiskStep DEF RTInv
<1>2. CASE Gone
    BY <1>1, <1>2, GoneStep DEF RTInv
<1>3. CASE ~Gone /\ Gone'
    BY <1>1, <1>3 DEF RTInv
<1>4. CASE ~Gone /\ ~Gone'
    <2>1. Core /\ DiskShape
        BY <1>4 DEF RTInv
    <2>2. CASE ProduceStep
        BY <1>1, <1>4, <2>1, <2>2, ProduceCore DEF RTInv
    <2>3. CASE RawWrite \/ RawEnd
        BY <1>4, <2>3 DEF RawWrite, RawEnd, Gone
    <2>6. CASE CallerCancel
        BY <1>4, <2>6 DEF CallerCancel, Gone
    <2>4. CASE UnpackStep
        BY <1>1, <1>4, <2>1, <2>4, UnpackCore DEF RTInv
    <2>5. CASE UNCHANGED codecVars
        <3>1. /\ WrittenAt(ppc)' = WrittenAt(ppc) /\ InPipe' = InPipe
              /\ Distinct(stream') = Distinct(stream)
            BY <2>5, PackFrame DEF codecVars, InPipe, InPipeOf, Distinct
        <3> QED
            BY <1>1, <2>1, <2>5, <3>1 DEF codecVars, packVars, unpackVars, Core, RTInv
    <2> QED
        BY <2>2, <2>3, <2>4, <2>5, <2>6 DEF CodecNext
<1> QED
    BY <1>2, <1>3, <1>4

\* What a finished producer has written is what it read from the source
\* directory, and the tags update exactly when it is the client.
LEMMA SentDone ==
    ASSUME DiskShape
    PROVE  /\ WrittenAt("done") \ {"TagsUpdate"} = SentTypes
           /\ ("TagsUpdate" \in WrittenAt("done")) <=> SendTags
<1>1. WrittenAt("done") = {t \in Ftypes : Emits(t)}
    BY WrittenDone
<1>2. ASSUME NEW t \in FileTypes
      PROVE  (t \in SentTypes) <=> disk[t] = "ok"
    BY DEF DiskShape, SentTypes, FileTypes, Ftypes
<1>3. SentTypes \subseteq Ftypes \ {"TagsUpdate"}
    BY DEF SentTypes, DiskFiles, Ftypes
<1>4. "WellTags" \in SentTypes <=> SendTags
    BY DEF SentTypes, DiskFiles
<1> QED
    BY <1>1, <1>2, <1>3, <1>4 DEF Emits, FileTypes, Ftypes

\* A transfer Unpack finished well, whose pipe was not closed with an error
\* before the producer reported success, delivered the source shard: the
\* producer reported success, the pipe ended cleanly, the stored files
\* are the source shard's and the tag update was merged once.
LEMMA Delivered ==
    ASSUME RTInv, ~RawClient, ures = "ok", wEnd # "err" \/ pres = "ok"
    PROVE  /\ pres = "ok" /\ wEnd = "eof"
           /\ stored = {[path |-> Filepath(t, ShardId), whole |-> TRUE] : t \in SentTypes}
           /\ merges = IF SendTags THEN 1 ELSE 0
<1>1. Core /\ DiskShape
    BY DEF RTInv, Gone
<1>2. ppc = "done" /\ stream = <<>> /\ pres = "ok" /\ wEnd = "eof"
    BY <1>1 DEF Core
<1>3. InPipe = {}
    BY <1>2 DEF InPipe, InPipeOf
<1>4. uhits = WrittenAt("done")
    BY <1>1, <1>2, <1>3 DEF Core
<1> QED
    BY <1>1, <1>2, <1>4, SentDone DEF Core

\* Round trip (spec property 1) for every shard and every pipe capacity:
\* when the client's packer and the server's Unpack both report success,
\* the stored files are the source shard's files at their paths, each
\* whole, and the tag update was merged once.
THEOREM RoundTripHolds == CodecSpec => []RoundTrip
<1>1. RTInv => RoundTrip
    BY Delivered DEF RoundTrip
<1> QED
    BY <1>1, RTInvInit, RTInvStep, PTL DEF CodecSpec

-----------------------------------------------------------------------------
(* The codec's steps inside a transfer.                                    *)

\* A step that leaves the codec alone keeps RTInv.
LEMMA RTInvFrame ==
    ASSUME RTInv, UNCHANGED codecVars
    PROVE  RTInv'
BY RTInvStep

\* A cancellation (the client's Cancel, the handler's CloseWithError)
\* closes the pipe with an error and moves nothing else of the codec: a
\* running producer's transfer is gone, a finished one is unchanged.
LEMMA CancelKeeps ==
    ASSUME RTInv, CloseWithError, UNCHANGED <<packVars, stream, unpackVars>>
    PROVE  RTInv'
<1>1. DiskShape'
    BY DEF RTInv, DiskShape, DiskFiles, packVars
<1>2. CASE Gone
    BY <1>1, <1>2 DEF RTInv, Gone, CloseWithError, packVars, unpackVars
<1>3. CASE ~Gone /\ wEnd = "open"
    <2>1. pres = "none" /\ wEnd' = "err" /\ pres' = pres
        BY <1>3 DEF RTInv, Core, CloseWithError, packVars
    <2> QED
        BY <1>1, <2>1 DEF RTInv, Gone
<1>4. CASE wEnd # "open"
    BY <1>4, RTInvFrame DEF CloseWithError, codecVars
<1> QED
    BY <1>2, <1>3, <1>4

\* A read on a dead connection, or after the idle timeout, fails Unpack.
LEMMA ReadFailKeeps ==
    ASSUME RTInv, ures' = "err", UNCHANGED <<packVars, stream, wEnd, uhits, stored, merges>>
    PROVE  RTInv'
BY DEF RTInv, DiskShape, DiskFiles, Gone, packVars

\* UnpackShard after Unpack returned: the files stay after a good Unpack
\* and are removed after a failed one, which is gone for good.
LEMMA FinishKeeps ==
    ASSUME RTInv, ures # "none", stored' = IF ures = "ok" THEN stored ELSE {},
           UNCHANGED <<packVars, stream, wEnd, uhits, ures, merges>>
    PROVE  RTInv'
<1>1. CASE ures = "ok"
    BY <1>1, RTInvFrame DEF codecVars, unpackVars
<1>2. CASE ures # "ok"
    <2>1. Gone
        BY <1>2 DEF RTInv, Core
    <2> QED
        BY <2>1 DEF RTInv, DiskShape, DiskFiles, Gone, packVars
<1> QED
    BY <1>1, <1>2

\* Once the producer reports, it is done.
PresSettled == pres # "none" => ppc = "done"

\* An arbitrary client never closes the pipe cleanly nor reports success
\* in a transfer, whose producer is the program.
RawQuiet == RawClient => pres = "none" /\ wEnd # "eof"

\* A step of the producer is one of a program still running, and it
\* reports only when it ends.
LEMMA ProduceSettles ==
    ASSUME ProduceStep
    PROVE  /\ ppc # "done" /\ ~RawClient
           /\ pres' = pres \/ ppc' = "done"
<1>1. ppc # "done" /\ ~RawClient
    BY DEF ProduceStep
<1>2. ASSUME NEW t, NEW o, NEW q, q # "done", addFile(t, o, q)
      PROVE  pres' = pres \/ ppc' = "done"
    BY <1>2 DEF addFile, Fail
<1>3. ASSUME NEW t, NEW q, q # "done", addByteStream(t, q)
      PROVE  pres' = pres \/ ppc' = "done"
    BY <1>3 DEF addByteStream, Fail
<1>4. pres' = pres \/ ppc' = "done"
    BY <1>2, <1>3 DEF ProduceStep, Fail
<1> QED
    BY <1>1, <1>4

\* Steps that leave the producer's report alone keep PresSettled; a
\* step that leaves wEnd alone or closes it with an error keeps RawQuiet.
LEMMA SettledStep ==
    ASSUME PresSettled, RawQuiet,
           \/ ProduceStep
           \/ UNCHANGED <<pres, ppc>> /\ (UNCHANGED wEnd \/ CloseWithError)
    PROVE  PresSettled' /\ RawQuiet'
<1>1. CASE ProduceStep
    BY <1>1, ProduceSettles DEF PresSettled, RawQuiet
<1>2. CASE UNCHANGED <<pres, ppc>> /\ (UNCHANGED wEnd \/ CloseWithError)
    BY <1>2 DEF PresSettled, RawQuiet, CloseWithError
<1> QED
    BY <1>1, <1>2

\* A pipe closed cleanly stays so: io.Pipe keeps the first close.
LEMMA EofStays ==
    ASSUME ProduceStep, wEnd = "eof"
    PROVE  wEnd' = "eof"
<1>1. ASSUME NEW t, NEW o, NEW q, addFile(t, o, q)
      PROVE  wEnd' = "eof"
    BY <1>1 DEF addFile, AddFile, Fail, CloseWithError
<1>2. ASSUME NEW t, NEW q, addByteStream(t, q)
      PROVE  wEnd' = "eof"
    BY <1>2 DEF addByteStream, AddFile, Fail, CloseWithError
<1>3. ASSUME NEW ok \in BOOLEAN, closePipeline(ok)
      PROVE  wEnd' = "eof"
    BY <1>3 DEF closePipeline, Broken
<1> QED
    BY <1>1, <1>2, <1>3 DEF ProduceStep, Fail, CloseWithError

-----------------------------------------------------------------------------
(* Type correctness of the codec.                                          *)

\* FilenameToType names a type or fails with ErrInvalidFileType.
LEMMA TypeRange ==
    ASSUME NEW nm
    PROVE  FilenameToType(nm) \in Ftypes \cup {"none"}
<1>1. DOMAIN Bare \subseteq Ftypes /\ DOMAIN Ext \subseteq Ftypes
    <2>1. DOMAIN Bare = {"TagsUpdate", "WellTags", "IndexAccelKeyFile", "IndexAccelDataFile"}
          /\ DOMAIN Ext = {"Store", "Index", "Verify", "AccelFile"}
        BY DEF Bare, Ext
    <2> QED
        BY <2>1 DEF Ftypes
<1> QED
    BY <1>1, Zenon DEF FilenameToType

\* A step of the producer on type t marks at most t hit and writes at most
\* one entry of t, whole or torn, into a pipe that has room.
ProdShape(t) ==
    /\ hits' \subseteq hits \cup {t}
    /\ \/ stream' = stream
       \/ /\ Len(stream) < PipeCap
          /\ \E k \in {"whole", "torn"} :
                stream' = Append(stream, [name |-> Filename(t, ShardId), kind |-> k])
    /\ pres' \in {pres, "err"}
    /\ wEnd' \in {wEnd, "err"}

LEMMA AddFileShape ==
    ASSUME NEW t, NEW o, NEW q, addFile(t, o, q)
    PROVE  ProdShape(t)
BY DEF addFile, AddFile, WriteEntry, Fail, CloseWithError, ProdShape

LEMMA ByteStreamShape ==
    ASSUME NEW t, NEW q, addByteStream(t, q)
    PROVE  ProdShape(t)
BY DEF addByteStream, AddFile, WriteEntry, Fail, CloseWithError, ProdShape

LEMMA ProduceType ==
    ASSUME CodecTypeOK, ProduceStep
    PROVE  CodecTypeOK'
<1>1. CASE ppc = "Close"
    <2>1. /\ hits' = hits /\ stream' = stream
          /\ pres' \in {"ok", "err"} /\ wEnd' \in {wEnd, "eof"}
        BY <1>1 DEF ProduceStep, closePipeline
    <2> QED
        BY <2>1 DEF ProduceStep, CodecTypeOK, unpackVars
<1>2. CASE ppc # "Close"
    <2>1. PICK t \in Ftypes : ProdShape(t)
        <3>1. CASE ppc = "Accel" /\ diskAccel \in {"none", "bad"}
            <4>1. ProdShape("Store")
                BY <3>1 DEF ProduceStep, Fail, CloseWithError, ProdShape
            <4> QED
                BY <4>1 DEF Ftypes
        <3> QED
            BY <1>2, <3>1, AddFileShape, ByteStreamShape DEF ProduceStep, Ftypes
    <2>2. CASE stream' = stream
        BY <2>1, <2>2 DEF ProduceStep, CodecTypeOK, ProdShape, unpackVars
    <2>3. CASE stream' # stream
        <3>1. PICK k \in {"whole", "torn"} :
                  /\ Len(stream) < PipeCap
                  /\ stream' = Append(stream, [name |-> Filename(t, ShardId), kind |-> k])
            BY <2>1, <2>3 DEF ProdShape
        <3>2. [name |-> Filename(t, ShardId), kind |-> k] \in [name : EntryNames, kind : Kinds]
            BY DEF EntryNames, Kinds
        <3>3. stream' \in Seq([name : EntryNames, kind : Kinds]) /\ Len(stream') <= PipeCap
            BY <3>1, <3>2 DEF CodecTypeOK
        <3> QED
            BY <2>1, <3>3 DEF ProduceStep, CodecTypeOK, ProdShape, unpackVars
    <2> QED
        BY <2>2, <2>3
<1> QED
    BY <1>1, <1>2

LEMMA UnpackType ==
    ASSUME CodecTypeOK, UnpackStep
    PROVE  CodecTypeOK'
<1>1. CASE stream # <<>> /\ ReadEntry(Head(stream)) /\ stream' = Tail(stream)
    <2>1. /\ Tail(stream) \in Seq([name : EntryNames, kind : Kinds])
          /\ Len(Tail(stream)) = Len(stream) - 1
        BY <1>1, HeadTailProperties DEF CodecTypeOK
    <2> DEFINE t == FilenameToType(Head(stream).name)
    <2>2. t \in Ftypes \cup {"none"}
        BY TypeRange
    <2>3. /\ uhits' \subseteq uhits \cup ({t, "TagsUpdate"} \ {"none"})
          /\ merges' \in {merges, merges + 1}
          /\ ures' \in {"none", "err"}
        BY <1>1 DEF ReadEntry, updateTags, HandleFile
    <2>4. "TagsUpdate" \in Ftypes
        BY DEF Ftypes
    <2>5. uhits' \subseteq Ftypes /\ merges' \in Nat
        BY <2>2, <2>3, <2>4 DEF CodecTypeOK
    <2>6. stream' \in Seq([name : EntryNames, kind : Kinds]) /\ Len(stream') <= PipeCap
        BY <1>1, <2>1 DEF CodecTypeOK
    <2>7. UNCHANGED <<hits, pres, wEnd>>
        BY <1>1 DEF UnpackStep, packVars
    <2> QED
        BY <2>3, <2>5, <2>6, <2>7 DEF CodecTypeOK
<1>2. CASE stream = <<>> /\ UNCHANGED <<stream, uhits, stored, merges>>
           /\ ures' \in {"ok", "err"}
    BY <1>2 DEF UnpackStep, CodecTypeOK, packVars
<1> QED
    BY <1>1, <1>2 DEF UnpackStep

LEMMA CodecTypeStep ==
    ASSUME CodecTypeOK, [CodecNext]_codecVars
    PROVE  CodecTypeOK'
<1>1. CASE ProduceStep
    BY <1>1, ProduceType
<1>2. CASE UnpackStep
    BY <1>2, UnpackType
<1>3. CASE RawWrite
    <2>1. PICK nm \in RawNames, kind \in {"whole", "nonreg"} : WriteEntry(nm, kind)
        BY <1>3 DEF RawWrite
    <2>2. [name |-> nm, kind |-> kind] \in [name : EntryNames, kind : Kinds]
        BY DEF EntryNames, Kinds
    <2> QED
        BY <1>3, <2>1, <2>2 DEF RawWrite, WriteEntry, CodecTypeOK, unpackVars
<1>4. CASE RawEnd
    BY <1>4 DEF RawEnd, closePipeline, Fail, CloseWithError, CodecTypeOK, unpackVars
<1>5. CASE CallerCancel \/ UNCHANGED codecVars
    BY <1>5 DEF CallerCancel, CloseWithError, CodecTypeOK, codecVars, packVars, unpackVars
<1> QED
    BY <1>1, <1>2, <1>3, <1>4, <1>5 DEF CodecNext

LEMMA CodecTypeInit ==
    ASSUME CodecInit
    PROVE  CodecTypeOK
BY DEF CodecInit, PackerInit, CodecTypeOK

\* The codec stays typed for every pipe depth: the pipe never holds more
\* than PipeCap entries, each named and of a kind Unpack knows, and both
\* trackers mark only file types.
THEOREM CodecTypeCorrect == CodecSpec => []CodecTypeOK
BY CodecTypeInit, CodecTypeStep, PTL DEF CodecSpec

\* A cancellation, a failed read or a step of the transfer around the
\* codec keeps it typed.
LEMMA CodecTypeFrame ==
    ASSUME CodecTypeOK, UNCHANGED <<hits, pres, stream, uhits, merges>>,
           wEnd' \in {wEnd, "err"}, ures' \in {ures, "err"}
    PROVE  CodecTypeOK'
BY DEF CodecTypeOK

====
