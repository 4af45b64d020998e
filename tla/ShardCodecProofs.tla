--------------------------- MODULE ShardCodecProofs ---------------------------
(***************************************************************************)
(* Proof that Unpack (src/pkg/shardpacker/unpacker.go) accepts only       *)
(* streams that leave a well-formed shard, whatever the client wrote and  *)
(* in whatever order, for every pipe depth and every number of entries.   *)
(***************************************************************************)
EXTENDS ShardCodec, TLAPS

USE ShardCodecAssumptions

\* The types Unpack may hand to HandleFile.
ShardTypes == FileTypes \cup {"WellTags"}

\* A file of type t has been created.
Has(t) == \E s \in stored : s.path = Filepath(t, ShardId)

(***************************************************************************)
(* The inductive invariant.  Until Unpack fails, every file it created     *)
(* arrived whole, the files created are exactly those of the types its    *)
(* ftracker has hit, and the ftracker never holds an accelerator file     *)
(* next to a part of an indexed accelerator; Unpack reports success only *)
(* when allFilesHit(false) held.                                          *)
(***************************************************************************)
UInv ==
    /\ ures \in {"none", "ok", "err"}
    /\ ures # "err" =>
          /\ \A s \in stored : s.whole
          /\ \A t \in ShardTypes : Has(t) <=> t \in uhits
          /\ "AccelFile" \in uhits =>
                {"IndexAccelKeyFile", "IndexAccelDataFile"} \cap uhits = {}
    /\ ures = "ok" => allFilesHit(uhits, FALSE)

-----------------------------------------------------------------------------
(* Lemmas on the helpers.                                                  *)

\* Ftype.Filepath gives each type of a shard its own place.
LEMMA FilepathInjective ==
    ASSUME NEW t1 \in ShardTypes, NEW t2 \in ShardTypes,
           Filepath(t1, ShardId) = Filepath(t2, ShardId)
    PROVE  t1 = t2
<1>. DEFINE ext(t) == Filepath(t, ShardId)[2][2]
            stem(t) == Filepath(t, ShardId)[2][1]
<1>1. /\ ext("Store") = ".store" /\ ext("Index") = ".index"
      /\ ext("Verify") = ".verify" /\ ext("AccelFile") = ".accel"
      /\ ext("WellTags") = "" /\ ext("IndexAccelKeyFile") = ""
      /\ ext("IndexAccelDataFile") = ""
    BY DEF Filepath, Filename, Ext, Bare
<1>2. /\ stem("WellTags") = "tags" /\ stem("IndexAccelKeyFile") = "keys"
      /\ stem("IndexAccelDataFile") = "data"
    BY DEF Filepath, Filename, Ext, Bare
<1>3. ext(t1) = ext(t2) /\ stem(t1) = stem(t2)
    OBVIOUS
<1>4. /\ t1 \in {"Store", "Index", "Verify", "AccelFile", "WellTags",
                  "IndexAccelKeyFile", "IndexAccelDataFile"}
      /\ t2 \in {"Store", "Index", "Verify", "AccelFile", "WellTags",
                  "IndexAccelKeyFile", "IndexAccelDataFile"}
    BY DEF ShardTypes, FileTypes, Ftypes
<1> QED
    BY <1>1, <1>2, <1>3, <1>4

\* FilenameToType of a name other than the tags update is a type Unpack
\* hands to HandleFile, or none.
LEMMA FilenameToTypeRange ==
    ASSUME NEW nm, nm # Bare.TagsUpdate, FilenameToType(nm) # "none"
    PROVE  FilenameToType(nm) \in ShardTypes
<1>1. DOMAIN Bare = {"TagsUpdate", "WellTags", "IndexAccelKeyFile", "IndexAccelDataFile"}
      /\ DOMAIN Ext = {"Store", "Index", "Verify", "AccelFile"}
    BY DEF Bare, Ext
<1>2. CASE \E t \in DOMAIN Bare : Bare[t] = nm
    <2>. DEFINE c == CHOOSE t \in DOMAIN Bare : Bare[t] = nm
    <2>1. c \in DOMAIN Bare /\ Bare[c] = nm /\ FilenameToType(nm) = c
        BY <1>2 DEF FilenameToType
    <2>2. c # "TagsUpdate"
        BY <2>1
    <2> QED
        BY <1>1, <2>1, <2>2 DEF ShardTypes, FileTypes, Ftypes
<1>3. CASE ~\E t \in DOMAIN Bare : Bare[t] = nm
    <2>1. \E t \in DOMAIN Ext : Ext[t] = nm[2]
        BY <1>3 DEF FilenameToType
    <2>. DEFINE c == CHOOSE t \in DOMAIN Ext : Ext[t] = nm[2]
    <2>2. c \in DOMAIN Ext /\ FilenameToType(nm) = c
        BY <1>3, <2>1 DEF FilenameToType
    <2> QED
        BY <1>1, <2>2 DEF ShardTypes, FileTypes, Ftypes
<1> QED
    BY <1>2, <1>3

\* The types each type excludes in the ftracker.
LEMMA RivalsValues ==
    /\ Rivals("AccelFile") = {"AccelFile", "IndexAccelKeyFile", "IndexAccelDataFile"}
    /\ Rivals("IndexAccelKeyFile") = {"AccelFile", "IndexAccelKeyFile"}
    /\ Rivals("IndexAccelDataFile") = {"AccelFile", "IndexAccelDataFile"}
    /\ \A t : t \notin {"AccelFile", "IndexAccelKeyFile", "IndexAccelDataFile"} =>
          Rivals(t) = {t}
BY DEF Rivals

-----------------------------------------------------------------------------
(* One iteration of Unpack's loop.                                         *)

\* A step that ends Unpack with an error keeps the invariant.
LEMMA FailKeeps ==
    ASSUME ures' = "err"
    PROVE  UInv'
BY DEF UInv

\* HandleFile of a whole entry of a type not hit before, and of none of
\* its rivals, keeps the files and the ftracker in step.
LEMMA HandleFileStep ==
    ASSUME UInv, ures = "none", NEW t \in ShardTypes,
           ~hitTypeErr(uhits, t),
           HandleFile(StorePath(t), TRUE),
           uhits' = uhits \cup {t}
    PROVE  UInv'
<1>0. /\ \A s \in stored : s.whole
      /\ \A t2 \in ShardTypes : Has(t2) <=> t2 \in uhits
      /\ "AccelFile" \in uhits =>
            {"IndexAccelKeyFile", "IndexAccelDataFile"} \cap uhits = {}
    BY DEF UInv
<1>1. /\ stored' = {s \in stored : s.path # Filepath(t, ShardId)}
                   \cup {[path |-> Filepath(t, ShardId), whole |-> TRUE]}
      /\ ures' = "none"
    BY DEF HandleFile, StorePath
<1>2. Rivals(t) \cap uhits = {} /\ t \in Rivals(t)
    BY RivalsValues DEF hitTypeErr
<1>3. \A s \in stored' : s.whole
    BY <1>0, <1>1
<1>4. ASSUME NEW t2 \in ShardTypes PROVE Has(t2)' <=> t2 \in uhits'
    <2>1. CASE t2 = t
        <3>1. [path |-> Filepath(t, ShardId), whole |-> TRUE] \in stored'
            BY <1>1
        <3>2. Has(t)'
            BY <3>1 DEF Has
        <3> QED
            BY <2>1, <3>2
    <2>2. CASE t2 # t
        <3>1. Filepath(t2, ShardId) # Filepath(t, ShardId)
            BY <2>2, FilepathInjective
        <3>2. Has(t2)' <=> Has(t2)
            BY <1>1, <3>1 DEF Has
        <3> QED
            BY <1>0, <2>2, <3>2
    <2> QED
        BY <2>1, <2>2
<1>5. "AccelFile" \in uhits' =>
         {"IndexAccelKeyFile", "IndexAccelDataFile"} \cap uhits' = {}
    <2>1. CASE t = "AccelFile"
        BY <1>2, <2>1, RivalsValues
    <2>2. CASE t \in {"IndexAccelKeyFile", "IndexAccelDataFile"}
        BY <1>2, <2>2, RivalsValues
    <2>3. CASE t \notin {"AccelFile", "IndexAccelKeyFile", "IndexAccelDataFile"}
        BY <1>0, <2>3
    <2> QED
        BY <2>1, <2>2, <2>3
<1> QED
    BY <1>1, <1>3, <1>4, <1>5 DEF UInv

\* ReadEntry on any entry, whatever its name and kind.
LEMMA ReadEntryStep ==
    ASSUME UInv, ures = "none", NEW e, ReadEntry(e)
    PROVE  UInv'
<1>. DEFINE t == FilenameToType(e.name)
<1>1. CASE /\ e.kind = "nonreg" \/ (e.name # Bare.TagsUpdate /\ t = "none")
           /\ ures' = "err"
    BY <1>1, FailKeeps
<1>2. CASE e.kind # "nonreg" /\ e.name = Bare.TagsUpdate /\ updateTags(e)
    <2>1. CASE ures' = "err"
        BY <2>1, FailKeeps
    <2>2. CASE ures' # "err"
        <3>1. /\ uhits' = uhits \cup {"TagsUpdate"}
              /\ ures' = "none"
              /\ UNCHANGED stored
            BY <1>2, <2>2 DEF updateTags
        <3>2. "TagsUpdate" \notin ShardTypes
            BY DEF ShardTypes, FileTypes, Ftypes
        <3>3. \A t2 \in ShardTypes : Has(t2)' = Has(t2)
            BY <3>1 DEF Has
        <3> QED
            BY <3>1, <3>2, <3>3 DEF UInv
    <2> QED
        BY <2>1, <2>2
<1>3. CASE /\ e.kind # "nonreg" /\ e.name # Bare.TagsUpdate /\ t # "none"
           /\ \/ hitTypeErr(uhits, t) /\ ures' = "err"
              \/ /\ ~hitTypeErr(uhits, t)
                 /\ HandleFile(StorePath(t), e.kind = "whole")
                 /\ uhits' = uhits \cup {t}
    <2>0. t \in ShardTypes
        BY <1>3, FilenameToTypeRange
    <2>1. CASE ures' = "err"
        BY <2>1, FailKeeps
    <2>2. CASE ures' # "err"
        <3>1. /\ ~hitTypeErr(uhits, t)
              /\ HandleFile(StorePath(t), e.kind = "whole")
              /\ uhits' = uhits \cup {t}
            BY <1>3, <2>2
        <3>2. e.kind = "whole"
            BY <2>2, <3>1 DEF HandleFile
        <3>3. HandleFile(StorePath(t), TRUE)
            BY <3>1, <3>2
        <3> QED
            BY <2>0, <3>1, <3>3, HandleFileStep
    <2> QED
        BY <2>1, <2>2
<1> QED
    BY <1>1, <1>2, <1>3 DEF ReadEntry

\* Every step of the transfer keeps the invariant: the producer, an
\* arbitrary client and the caller's Cancel do not touch the unpacker.
LEMMA UInvStep ==
    UInv /\ [CodecNext]_codecVars => UInv'
<1> SUFFICES ASSUME UInv, [CodecNext]_codecVars PROVE UInv'
    OBVIOUS
<1>1. CASE UNCHANGED <<uhits, ures, stored>>
    BY <1>1 DEF UInv, Has
<1>2. CASE UnpackStep
    <2>1. ures = "none"
        BY <1>2 DEF UnpackStep
    <2>2. CASE stream # <<>> /\ ReadEntry(Head(stream))
        BY <2>1, <2>2, ReadEntryStep
    <2>3. CASE /\ stream = <<>> /\ wEnd = "eof"
               /\ ures' = IF allFilesHit(uhits, FALSE) THEN "ok" ELSE "err"
               /\ UNCHANGED <<stream, uhits, stored, merges>>
        BY <2>1, <2>3 DEF UInv, Has
    <2>4. CASE ures' = "err"
        BY <2>4, FailKeeps
    <2>5. \/ stream # <<>> /\ ReadEntry(Head(stream))
          \/ /\ stream = <<>> /\ wEnd = "eof"
             /\ ures' = IF allFilesHit(uhits, FALSE) THEN "ok" ELSE "err"
             /\ UNCHANGED <<stream, uhits, stored, merges>>
          \/ ures' = "err"
        BY <1>2 DEF UnpackStep
    <2> QED
        BY <2>2, <2>3, <2>4, <2>5
<1> QED
    BY <1>1, <1>2 DEF CodecNext, ProduceStep, RawWrite, RawEnd, CallerCancel,
                      codecVars, unpackVars

\* Any stream Unpack accepts (spec section 3, properties 2-3) leaves a
\* well-formed shard: a store file, no partial file, and one accelerator
\* form -- for every client, however it names, orders, repeats or cuts
\* short its entries, and however deep the pipe.
THEOREM UnpackValidHolds ==
    CodecSpec => []UnpackValid
<1>1. CodecInit => UInv
    BY DEF CodecInit, UInv, Has
<1>2. UInv /\ [CodecNext]_codecVars => UInv'
    BY UInvStep
<1>3. UInv => UnpackValid
    <2> SUFFICES ASSUME UInv, ures = "ok" PROVE UnpackValid
        BY DEF UnpackValid
    <2>1. /\ \A s \in stored : s.whole
          /\ \A t \in ShardTypes : Has(t) <=> t \in uhits
          /\ "AccelFile" \in uhits =>
                {"IndexAccelKeyFile", "IndexAccelDataFile"} \cap uhits = {}
          /\ allFilesHit(uhits, FALSE)
        BY DEF UInv
    <2>2. \A t \in ShardTypes : t \in StoredTypes <=> t \in uhits
        BY <2>1 DEF StoredTypes, Has, ShardTypes
    <2>3. {"Store", "AccelFile", "IndexAccelKeyFile", "IndexAccelDataFile"} \subseteq ShardTypes
        BY DEF ShardTypes, FileTypes, Ftypes
    <2> QED
        BY <2>1, <2>2, <2>3 DEF UnpackValid, allFilesHit
<1> QED
    BY <1>1, <1>2, <1>3, PTL DEF CodecSpec

====
