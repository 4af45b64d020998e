------------------------------- MODULE TagMan -------------------------------
(***************************************************************************)
(* The per-indexer tag dictionary: type TagMan of package tags             *)
(* (src/unnamed/part_010, lines 376-928) together with its backing file    *)
(* tags.dat.                                                               *)
(*                                                                         *)
(* An open instance keeps two Go maps, tags (name -> id) and tagKeys       *)
(* (id -> name), the allocation cursor nextTag, and an open handle on      *)
(* tags.dat that carries an exclusive fcntl lock.  Every mutation of the   *)
(* maps is followed by one Fprintf of a "name=id" line; ResetOverride      *)
(* truncates the file first.  Every exported method except EnsureTag runs  *)
(* under the instance mutex, so a method that loops over a list (Merge,    *)
(* ImportTags, ResetOverride) is modelled as a start action and one step   *)
(* per list element, with op/pending recording the call that holds the     *)
(* mutex; no other locked method can run in between.                       *)
(*                                                                         *)
(* Data abstraction: tag names are model values.  BadNames are names       *)
(* ingest.CheckTag rejects and parseLine cannot read back (empty, or       *)
(* containing '=').  Ids are 0..MaxTag, where MaxTag stands for            *)
(* entry.GravwellTagId = 0xFFFF; entry.EntryTag is a uint16, so nextTag++  *)
(* wraps modulo MaxTag + 1.  A write to tags.dat either succeeds or fails  *)
(* as a whole; WriteFaults says whether it may fail.                       *)
(***************************************************************************)
EXTENDS Integers, Sequences, SequencesExt

CONSTANTS
    Names,           \* ordinary tag names accepted by ingest.CheckTag
    BadNames,        \* names rejected by CheckTag and by parseLine
    DefaultTagName,  \* entry.DefaultTagName, reserved with id 0
    GravwellTagName, \* entry.GravwellTagName, reserved with id MaxTag
    NoName,          \* an id absent from tagKeys
    MaxTag,          \* entry.GravwellTagId (0xFFFF in the code)
    MaxList,         \* longest tag list handed to Merge, ImportTags, ResetOverride
    WriteFaults      \* TRUE when a write to tags.dat may fail

ReservedNames == {DefaultTagName, GravwellTagName}
AllNames == Names \cup BadNames \cup ReservedNames
Ids == 0..MaxTag
DefaultTagId == 0
GravwellTagId == MaxTag
NoTag == -1

ASSUME TagManAssumptions ==
    /\ MaxTag \in Nat /\ MaxTag >= 2
    /\ MaxList \in Nat
    /\ WriteFaults \in BOOLEAN
    /\ DefaultTagName # GravwellTagName
    /\ ReservedNames \cap (Names \cup BadNames) = {}
    /\ Names \cap BadNames = {}
    /\ NoName \notin AllNames

VARIABLES
    exists,   \* tags.dat exists on disk
    file,     \* the lines of tags.dat, each <<name, id>>
    active,   \* an instance is open (it holds the file and its lock)
    tags,     \* TagMan.tags: name -> id, NoTag where absent
    tagKeys,  \* TagMan.tagKeys: id -> name, NoName where absent
    nextTag,  \* TagMan.nextTag
    op,       \* the list method holding the mutex: "none", "merge", "import", "reset"
    pending   \* the part of that method's list not yet processed

vars == <<exists, file, active, tags, tagKeys, nextTag, op, pending>>

Pair == AllNames \X Ids
TagLists == BoundedSeq(Pair, MaxList)
NameLists == BoundedSeq(AllNames, MaxList)

NoTags == [n \in AllNames |-> NoTag]
NoKeys == [i \in Ids |-> NoName]
Seed == << <<DefaultTagName, DefaultTagId>>, <<GravwellTagName, GravwellTagId>> >>

\* The name -> id and id -> name maps that a set of pairs defines.
TagsOf(P) == [n \in AllNames |-> IF \E p \in P : p[1] = n
                                 THEN (CHOOSE p \in P : p[1] = n)[2] ELSE NoTag]
KeysOf(P) == [i \in Ids |-> IF \E p \in P : p[2] = i
                           THEN (CHOOSE p \in P : p[2] = i)[1] ELSE NoName]

ReservedPairs == {Seed[1], Seed[2]}
FilePairs(f) == {f[k] : k \in 1..Len(f)}

\* The file after the Fprintf of line l, when k of its 1 write succeeded.
AppendLine(f, l, k) == IF k = 1 THEN Append(f, l) ELSE f

\* The number of writes that succeed among n writes issued in sequence:
\* the first failure ends the method with an error.
WritesDone(n) == IF WriteFaults THEN 0..n ELSE {n}

\* findNextAvailableTag: the lowest id in [1, 0xFFFF) absent from tagKeys;
\* it returns 0 together with an error when there is none.
FreeIds(keys) == {i \in 1..(MaxTag - 1) : keys[i] = NoName}
findNextAvailableTag(keys) == IF FreeIds(keys) = {} THEN 0 ELSE Min(FreeIds(keys))

\* parseLine and the checks of loadTags on one line: the name reads back
\* and the reserved names and ids appear only with each other.
parseLine(l) ==
    /\ l[1] \notin BadNames
    /\ (l[1] = DefaultTagName) <=> (l[2] = DefaultTagId)
    /\ (l[1] = GravwellTagName) <=> (l[2] = GravwellTagId)

\* No two lines share a name or an id ("tag id/name already exists").
DistinctLines(f) ==
    \A j, k \in 1..Len(f) : j # k => f[j][1] # f[k][1] /\ f[j][2] # f[k][2]

\* loadTags succeeds on file contents f.
loadOK(f) ==
    /\ \A k \in 1..Len(f) : parseLine(f[k])
    /\ DistinctLines(f)
    /\ FreeIds(KeysOf(FilePairs(f) \cup ReservedPairs)) # {}

\* The maps loadTags builds: the file's lines, then ensureTag of the two
\* reserved pairs.
LoadedTags(f) == TagsOf(FilePairs(f) \cup ReservedPairs)
LoadedKeys(f) == KeysOf(FilePairs(f) \cup ReservedPairs)

\* The end of New: the instance is active with maps t, ks and nextTag set
\* by loadTags.
Opened(t, ks) ==
    /\ active' = TRUE
    /\ tags' = t
    /\ tagKeys' = ks
    /\ nextTag' = findNextAvailableTag(ks)

\* No instance is open any more.
Discarded ==
    /\ active' = FALSE
    /\ tags' = NoTags
    /\ tagKeys' = NoKeys
    /\ nextTag' = 0

\* Mutant of Continue: the loop does not stop after its last element.
ContinuePastEnd(ok) ==
    IF ok
    THEN op' = op /\ pending' = Tail(pending)
    ELSE op' = "none" /\ pending' = <<>>

\* Mutant of Continue: the loop does not advance past an element that
\* succeeded.
ContinueNoAdvance(ok) ==
    IF ok /\ Len(pending) > 1
    THEN op' = op /\ pending' = pending
    ELSE op' = "none" /\ pending' = <<>>

\* The list method in progress moves to its next element if the current
\* one succeeded, and returns otherwise.
Continue(ok) ==
    IF ok /\ Len(pending) > 1
    THEN op' = op /\ pending' = Tail(pending)
    ELSE op' = "none" /\ pending' = <<>>

-----------------------------------------------------------------------------
(* Operations.                                                             *)

Init ==
    /\ exists = FALSE
    /\ file = <<>>
    /\ active = FALSE
    /\ tags = NoTags
    /\ tagKeys = NoKeys
    /\ nextTag = 0
    /\ op = "none"
    /\ pending = <<>>

\* New on a missing tags.dat: create it and seed the two reserved lines;
\* a failed write closes the handle and returns the error.
NewCreate ==
    /\ ~active
    /\ ~exists
    /\ exists' = TRUE
    /\ \E k \in WritesDone(2) :
          /\ file' = SubSeq(Seed, 1, k)
          /\ \/ k = 2 /\ Opened(TagsOf(ReservedPairs), KeysOf(ReservedPairs))
             \/ k < 2 /\ UNCHANGED <<active, tags, tagKeys, nextTag>>
    /\ UNCHANGED <<op, pending>>

\* New on an existing tags.dat: lock it and load it with loadTags; a file
\* loadTags rejects makes New fail and leaves everything as it was.
NewOpen ==
    /\ ~active
    /\ exists
    /\ loadOK(file)
    /\ Opened(LoadedTags(file), LoadedKeys(file))
    /\ UNCHANGED <<exists, file, op, pending>>

\* Mutant of allocateTag: nextTag is used without the test that it is
\* still free.
allocateTagNoRecheck(n, ok) ==
    \/ /\ n \in BadNames
       /\ ~ok
       /\ UNCHANGED <<file, tags, tagKeys, nextTag>>
    \/ /\ n \notin BadNames
       /\ tags' = [tags EXCEPT ![n] = nextTag]
       /\ tagKeys' = [tagKeys EXCEPT ![nextTag] = n]
       /\ \E k \in WritesDone(1) :
             /\ ok = (k = 1)
             /\ file' = AppendLine(file, <<n, nextTag>>, k)
             /\ nextTag' = IF k = 1 THEN (nextTag + 1) % (MaxTag + 1) ELSE nextTag

\* allocateTag(name): ok is TRUE when it returns no error.
allocateTag(n, ok) ==
    LET slot == IF tagKeys[nextTag] # NoName
                THEN findNextAvailableTag(tagKeys) ELSE nextTag
    IN \/ /\ n \in BadNames
          /\ ~ok
          /\ UNCHANGED <<file, tags, tagKeys, nextTag>>
       \/ /\ n \notin BadNames
          /\ tagKeys[nextTag] # NoName
          /\ FreeIds(tagKeys) = {}
          /\ ~ok
          /\ nextTag' = 0
          /\ UNCHANGED <<file, tags, tagKeys>>
       \/ /\ n \notin BadNames
          /\ tagKeys[nextTag] = NoName \/ FreeIds(tagKeys) # {}
          /\ tags' = [tags EXCEPT ![n] = slot]
          /\ tagKeys' = [tagKeys EXCEPT ![slot] = n]
          /\ \E k \in WritesDone(1) :
                /\ ok = (k = 1)
                /\ file' = AppendLine(file, <<n, slot>>, k)
                /\ nextTag' = IF k = 1 THEN (slot + 1) % (MaxTag + 1) ELSE slot

\* assignTag(name, value): the caller has checked that neither is present.
assignTag(n, i, ok) ==
    \/ /\ n \in BadNames
       /\ ~ok
       /\ UNCHANGED <<file, tags, tagKeys>>
    \/ /\ n \notin BadNames
       /\ tags' = [tags EXCEPT ![n] = i]
       /\ tagKeys' = [tagKeys EXCEPT ![i] = n]
       /\ \E k \in WritesDone(1) :
             /\ ok = (k = 1)
             /\ file' = AppendLine(file, <<n, i>>, k)

\* getAndPopulateNoLock(name): a present name is returned as it is.
getAndPopulateNoLock(n, ok) ==
    \/ /\ tags[n] # NoTag
       /\ ok
       /\ UNCHANGED <<file, tags, tagKeys, nextTag>>
    \/ /\ tags[n] = NoTag
       /\ allocateTag(n, ok)

\* AddTag(name); a name already present is an error without effect.
AddTag(n) ==
    /\ active
    /\ op = "none"
    /\ tags[n] = NoTag
    /\ \E ok \in BOOLEAN : allocateTag(n, ok)
    /\ UNCHANGED <<exists, active, op, pending>>

\* GetAndPopulate(name).
GetAndPopulate(n) ==
    /\ active
    /\ op = "none"
    /\ \E ok \in BOOLEAN : getAndPopulateNoLock(n, ok)
    /\ UNCHANGED <<exists, active, op, pending>>

\* ImportTags(list) takes the mutex; it does not test active, but on a
\* closed instance every allocation fails on the nil file before any map
\* is touched, so only an open instance changes state.
ImportTags(l) ==
    /\ active
    /\ op = "none"
    /\ l # <<>>
    /\ op' = "import"
    /\ pending' = l
    /\ UNCHANGED <<exists, file, active, tags, tagKeys, nextTag>>

\* One iteration of the loop of ImportTags.
ImportStep ==
    /\ op = "import"
    /\ \E ok \in BOOLEAN :
          /\ getAndPopulateNoLock(Head(pending), ok)
          /\ Continue(ok)
    /\ UNCHANGED <<exists, active>>

\* checkTagSet: the reserved names may only carry their reserved ids.
checkTagSet(l) ==
    \A k \in 1..Len(l) :
        /\ l[k][1] = DefaultTagName => l[k][2] = DefaultTagId
        /\ l[k][1] = GravwellTagName => l[k][2] = GravwellTagId

\* Merge(list): checkTagSet without the lock, then the mutex and the
\* active test.
Merge(l) ==
    /\ checkTagSet(l)
    /\ active
    /\ op = "none"
    /\ l # <<>>
    /\ op' = "merge"
    /\ pending' = l
    /\ UNCHANGED <<exists, file, active, tags, tagKeys, nextTag>>

\* Mutant of MergeStep: only the id side of a pair is checked.
MergeStepIdOnly ==
    /\ op = "merge"
    /\ LET n == Head(pending)[1]
           i == Head(pending)[2]
       IN \/ /\ tagKeys[i] \notin {NoName, n}
             /\ Continue(FALSE)
             /\ UNCHANGED <<file, tags, tagKeys>>
          \/ /\ tagKeys[i] = n
             /\ Continue(TRUE)
             /\ UNCHANGED <<file, tags, tagKeys>>
          \/ /\ tagKeys[i] = NoName
             /\ \E ok \in BOOLEAN : assignTag(n, i, ok) /\ Continue(ok)
    /\ UNCHANGED <<exists, active, nextTag>>

\* Mutant of MergeStep: the "if !hit" test is lost, so a pair already
\* present is assigned (and written) again.
MergeStepNoHit ==
    /\ op = "merge"
    /\ LET n == Head(pending)[1]
           i == Head(pending)[2]
           conflict == tagKeys[i] \notin {NoName, n} \/ tags[n] \notin {NoTag, i}
       IN \/ /\ conflict
             /\ Continue(FALSE)
             /\ UNCHANGED <<file, tags, tagKeys>>
          \/ /\ ~conflict
             /\ \E ok \in BOOLEAN : assignTag(n, i, ok) /\ Continue(ok)
    /\ UNCHANGED <<exists, active, nextTag>>

\* One iteration of the loop of Merge: a pair whose id or name is present
\* with a different partner ends Merge with an error; a pair already
\* present is skipped; a new pair is assigned.
MergeStep ==
    /\ op = "merge"
    /\ LET n == Head(pending)[1]
           i == Head(pending)[2]
           conflict == tagKeys[i] \notin {NoName, n} \/ tags[n] \notin {NoTag, i}
           hit == tagKeys[i] = n \/ tags[n] = i
       IN \/ /\ conflict
             /\ Continue(FALSE)
             /\ UNCHANGED <<file, tags, tagKeys>>
          \/ /\ ~conflict /\ hit
             /\ Continue(TRUE)
             /\ UNCHANGED <<file, tags, tagKeys>>
          \/ /\ ~conflict /\ ~hit
             /\ \E ok \in BOOLEAN : assignTag(n, i, ok) /\ Continue(ok)
    /\ UNCHANGED <<exists, active, nextTag>>

\* ResetOverride(list): checkTagSet without the lock; then the maps are
\* emptied, the file truncated, the reserved pairs put back in the maps and
\* written.  Three writes: the truncation and the two reserved lines.
ResetOverride(l) ==
    /\ checkTagSet(l)
    /\ active
    /\ op = "none"
    /\ \E k \in WritesDone(3) :
          /\ tags' = IF k = 0 THEN NoTags ELSE TagsOf(ReservedPairs)
          /\ tagKeys' = IF k = 0 THEN NoKeys ELSE KeysOf(ReservedPairs)
          /\ file' = IF k = 0 THEN file ELSE SubSeq(Seed, 1, k - 1)
          /\ IF k = 3 /\ l # <<>>
             THEN op' = "reset" /\ pending' = l
             ELSE UNCHANGED <<op, pending>>
    /\ UNCHANGED <<exists, active, nextTag>>

\* Mutant of ResetStep: pairs with a reserved id are not skipped.
ResetStepNoSkip ==
    /\ op = "reset"
    /\ LET n == Head(pending)[1]
           i == Head(pending)[2]
       IN /\ tags' = [tags EXCEPT ![n] = i]
          /\ tagKeys' = [tagKeys EXCEPT ![i] = n]
          /\ \E k \in WritesDone(1) :
                /\ file' = AppendLine(file, <<n, i>>, k)
                /\ Continue(k = 1)
    /\ UNCHANGED <<exists, active, nextTag>>

\* One iteration of the loop of ResetOverride: reserved ids are skipped,
\* any other pair is stored in both maps and written, unchecked.
ResetStep ==
    /\ op = "reset"
    /\ LET n == Head(pending)[1]
           i == Head(pending)[2]
       IN \/ /\ i \in {DefaultTagId, GravwellTagId}
             /\ Continue(TRUE)
             /\ UNCHANGED <<file, tags, tagKeys>>
          \/ /\ i \notin {DefaultTagId, GravwellTagId}
             /\ tags' = [tags EXCEPT ![n] = i]
             /\ tagKeys' = [tagKeys EXCEPT ![i] = n]
             /\ \E k \in WritesDone(1) :
                   /\ file' = AppendLine(file, <<n, i>>, k)
                   /\ Continue(k = 1)
    /\ UNCHANGED <<exists, active, nextTag>>

\* EnsureTag(id, name) = ensureTag: no mutex and no active test.  When
\* neither the id nor the name is present the pair is added to the maps
\* only; every other outcome leaves the state alone.  It is enabled
\* while a list method holds the mutex, as the code allows.
EnsureTag(i, n) ==
    /\ active
    /\ tagKeys[i] = NoName
    /\ tags[n] = NoTag
    /\ tags' = [tags EXCEPT ![n] = i]
    /\ tagKeys' = [tagKeys EXCEPT ![i] = n]
    /\ UNCHANGED <<exists, file, active, nextTag, op, pending>>

\* Close: waits for the mutex, marks the instance inactive, unlocks and
\* closes the file.  The closed instance is dropped by its only holder
\* (the registry), so its maps are modelled as discarded.
Close ==
    /\ active
    /\ op = "none"
    /\ Discarded
    /\ UNCHANGED <<exists, file, op, pending>>

\* The process dies, in the middle of a list method or not: the instance
\* is gone, the kernel drops the lock, tags.dat keeps what was written.
Crash ==
    /\ active
    /\ Discarded
    /\ op' = "none"
    /\ pending' = <<>>
    /\ UNCHANGED <<exists, file>>

\* The operations the HTTP server reaches (filestore and ftpstore SyncTags,
\* GetTags and HandleTagUpdate through GetTagMan / ReleaseTagMan).
ServerNext ==
    \/ NewCreate \/ NewOpen
    \/ \E l \in TagLists : Merge(l)
    \/ MergeStep
    \/ Close \/ Crash

\* Every exported operation of TagMan.
Next ==
    \/ ServerNext
    \/ \E n \in AllNames : AddTag(n) \/ GetAndPopulate(n)
    \/ \E l \in NameLists : ImportTags(l)
    \/ ImportStep
    \/ \E l \in TagLists : ResetOverride(l)
    \/ ResetStep
    \/ \E i \in Ids, n \in AllNames : EnsureTag(i, n)

Spec == Init /\ [][Next]_vars
ServerSpec == Init /\ [][ServerNext]_vars

-----------------------------------------------------------------------------
(* Properties.                                                             *)

\* Type invariant.
TypeOK ==
    /\ exists \in BOOLEAN
    /\ file \in Seq(Pair)
    /\ active \in BOOLEAN
    /\ tags \in [AllNames -> Ids \cup {NoTag}]
    /\ tagKeys \in [Ids -> AllNames \cup {NoName}]
    /\ nextTag \in Ids
    /\ op \in {"none", "merge", "import", "reset"}
    /\ op = "import" => pending \in Seq(AllNames)
    /\ op # "import" => pending \in Seq(Pair)
    /\ (op = "none") <=> (pending = <<>>)

\* Bijection (spec section 8, property 4): while an instance is open, its
\* two maps are inverse to each other, so ReverseLookup(GetTag(n)) = n and
\* no two names share an id -- across Merge's early returns, reloads of
\* the file and crashes.
TagBijection ==
    active =>
        /\ \A n \in AllNames : tags[n] # NoTag => tagKeys[tags[n]] = n
        /\ \A i \in Ids : tagKeys[i] # NoName => tags[tagKeys[i]] = i

\* Reserved tags (spec section 8, property 5): an open instance maps
\* "default" to 0 and "gravwell" to 0xFFFF in both maps, also after
\* ResetOverride emptied them.
ReservedIntact ==
    active =>
        /\ tags[DefaultTagName] = DefaultTagId
        /\ tags[GravwellTagName] = GravwellTagId
        /\ tagKeys[DefaultTagId] = DefaultTagName
        /\ tagKeys[GravwellTagId] = GravwellTagName

\* Durability: every mapping an open instance holds is in tags.dat, once,
\* and reloading the file yields exactly the instance's maps -- so a tag
\* id handed out survives Close and a process restart.
FileMirrorsMemory ==
    active =>
        /\ DistinctLines(file)
        /\ LoadedTags(file) = tags
        /\ LoadedKeys(file) = tagKeys

\* The file can be reopened: while an instance is open, New on tags.dat
\* as it stands would succeed.
Reopenable ==
    active => loadOK(file)

\* A step of ResetOverride (its start or one iteration of its loop).  A
\* start that does not enter the loop changes the state exactly as
\* ResetOverride(<<>>) does, whatever its list.
ResetStepTaken ==
    op = "reset" \/ op' = "reset" \/ ResetOverride(<<>>)

\* Append-only: outside ResetOverride no step of an open instance changes
\* or removes a mapping, or rewrites a line already in tags.dat -- the
\* allocator never reuses an id (nextTag after a wrap or after Merge
\* placed a client-chosen id under it) and Merge never overwrites.
AppendOnly ==
    [][active /\ active' /\ ~ResetStepTaken =>
          /\ IsPrefix(file, file')
          /\ \A n \in AllNames : tags[n] # NoTag => tags'[n] = tags[n]
          /\ \A i \in Ids : tagKeys[i] # NoName => tagKeys'[i] = tagKeys[i]]_vars

=============================================================================
