------------------------- MODULE TagManSafetyProofs -------------------------
(***************************************************************************)
(* Proofs of the reserved tags and of the append-only discipline of the   *)
(* tag dictionary (module TagMan, src/pkg/tags/manager.go), over every    *)
(* exported operation and for every value of the constants.               *)
(***************************************************************************)
EXTENDS TagManProofs

USE TagManAssumptions

\* The four reserved entries of a pair of maps.
ReservedIn(t, ks) ==
    /\ t[DefaultTagName] = DefaultTagId
    /\ t[GravwellTagName] = GravwellTagId
    /\ ks[DefaultTagId] = DefaultTagName
    /\ ks[GravwellTagId] = GravwellTagName

\* The list ResetOverride is working through passed checkTagSet.
ResetChecked == op = "reset" => checkTagSet(pending)

\* The inductive invariant of ReservedIntact.
RInv == TypeOK /\ ReservedIntact /\ ResetChecked

-----------------------------------------------------------------------------
(* Lemmas.                                                                 *)

LEMMA ReservedIntactIsReservedIn ==
    /\ ReservedIntact = (active => ReservedIn(tags, tagKeys))
    /\ ReservedIntact' = (active' => ReservedIn(tags', tagKeys'))
BY DEF ReservedIntact, ReservedIn

\* The maps built from a consistent set of pairs that holds the reserved
\* pairs carry the reserved entries: what New's loadTags and ensureTag of
\* the reserved pairs, and ResetOverride's re-seeding, produce.
LEMMA ConsistentReserved ==
    ASSUME NEW P \in SUBSET Pair, Consistent(P), ReservedPairs \subseteq P
    PROVE  ReservedIn(TagsOf(P), KeysOf(P))
<1>1. Seed[1] \in P /\ Seed[2] \in P
    BY DEF ReservedPairs
<1>2. Seed[1] = <<DefaultTagName, DefaultTagId>>
      /\ Seed[2] = <<GravwellTagName, GravwellTagId>>
    BY DEF Seed
<1>3. TagsOf(P)[DefaultTagName] = DefaultTagId
    <2>1. \E p \in P : p[1] = DefaultTagName
        BY <1>1, <1>2
    <2>. DEFINE p == CHOOSE p \in P : p[1] = DefaultTagName
    <2>2. p \in P /\ p[1] = DefaultTagName /\ TagsOf(P)[DefaultTagName] = p[2]
        BY <2>1 DEF TagsOf, AllNames, ReservedNames
    <2>. QED  BY <1>1, <1>2, <2>2 DEF Consistent
<1>4. TagsOf(P)[GravwellTagName] = GravwellTagId
    <2>1. \E p \in P : p[1] = GravwellTagName
        BY <1>1, <1>2
    <2>. DEFINE p == CHOOSE p \in P : p[1] = GravwellTagName
    <2>2. p \in P /\ p[1] = GravwellTagName /\ TagsOf(P)[GravwellTagName] = p[2]
        BY <2>1 DEF TagsOf, AllNames, ReservedNames
    <2>. QED  BY <1>1, <1>2, <2>2 DEF Consistent
<1>5. KeysOf(P)[DefaultTagId] = DefaultTagName
    <2>1. \E p \in P : p[2] = DefaultTagId
        BY <1>1, <1>2
    <2>. DEFINE p == CHOOSE p \in P : p[2] = DefaultTagId
    <2>2. p \in P /\ p[2] = DefaultTagId /\ KeysOf(P)[DefaultTagId] = p[1]
        BY <2>1 DEF KeysOf, Ids, DefaultTagId
    <2>. QED  BY <1>1, <1>2, <2>2 DEF Consistent
<1>6. KeysOf(P)[GravwellTagId] = GravwellTagName
    <2>1. \E p \in P : p[2] = GravwellTagId
        BY <1>1, <1>2
    <2>. DEFINE p == CHOOSE p \in P : p[2] = GravwellTagId
    <2>2. p \in P /\ p[2] = GravwellTagId /\ KeysOf(P)[GravwellTagId] = p[1]
        BY <2>1 DEF KeysOf, Ids, GravwellTagId
    <2>. QED  BY <1>1, <1>2, <2>2 DEF Consistent
<1> QED
    BY <1>3, <1>4, <1>5, <1>6 DEF ReservedIn

\* The reserved pairs alone, and a file loadTags accepts together with
\* them, give maps with the reserved entries.
LEMMA SeededReserved ==
    /\ ReservedIn(TagsOf(ReservedPairs), KeysOf(ReservedPairs))
    /\ \A f \in Seq(Pair) : loadOK(f) => ReservedIn(LoadedTags(f), LoadedKeys(f))
<1>1. ReservedIn(TagsOf(ReservedPairs), KeysOf(ReservedPairs))
    <2>1. ReservedPairs \in SUBSET Pair
        BY LinesType, EmptyType DEF FilePairs
    <2> QED
        BY <2>1, ReservedConsistent, ConsistentReserved
<1>2. ASSUME NEW f \in Seq(Pair), loadOK(f)
      PROVE  ReservedIn(LoadedTags(f), LoadedKeys(f))
    BY <1>2, LoadedConsistent, LinesType, ConsistentReserved
       DEF LoadedTags, LoadedKeys
<1> QED
    BY <1>1, <1>2

\* Storing a pair whose name and id are not reserved leaves the reserved
\* entries alone.
LEMMA OutsideReserved ==
    ASSUME NEW t, NEW ks, ReservedIn(t, ks),
           NEW n, NEW i, n \notin ReservedNames,
           i \notin {DefaultTagId, GravwellTagId}
    PROVE  ReservedIn([t EXCEPT ![n] = i], [ks EXCEPT ![i] = n])
BY DEF ReservedIn, ReservedNames

\* Storing a pair whose name and id are both absent leaves the reserved
\* entries alone: they are present, so neither side can be reserved.
LEMMA FreshPairReserved ==
    ASSUME NEW t, NEW ks, ReservedIn(t, ks),
           NEW n, NEW i, t[n] = NoTag, ks[i] = NoName
    PROVE  ReservedIn([t EXCEPT ![n] = i], [ks EXCEPT ![i] = n])
<1>1. n \notin ReservedNames
    BY DEF ReservedIn, ReservedNames, NoTag, DefaultTagId, GravwellTagId
<1>2. i \notin {DefaultTagId, GravwellTagId}
    <2>1. DefaultTagName \in AllNames /\ GravwellTagName \in AllNames
        BY DEF AllNames, ReservedNames
    <2>2. NoName # DefaultTagName /\ NoName # GravwellTagName
        BY <2>1
    <2> QED
        BY <2>2 DEF ReservedIn
<1> QED
    BY <1>1, <1>2, OutsideReserved

\* The slot allocateTag writes to is a free id: nextTag when free, else
\* the lowest free id findNextAvailableTag returns.
LEMMA FreeSlot ==
    ASSUME TypeOK,
           tagKeys[nextTag] = NoName \/ FreeIds(tagKeys) # {}
    PROVE  LET slot == IF tagKeys[nextTag] # NoName
                       THEN findNextAvailableTag(tagKeys) ELSE nextTag
           IN  slot \in Ids /\ tagKeys[slot] = NoName
<1>1. CASE tagKeys[nextTag] = NoName
    BY <1>1 DEF TypeOK
<1>2. CASE tagKeys[nextTag] # NoName
    <2>1. FreeIds(tagKeys) \in SUBSET Nat /\ FreeIds(tagKeys) # {}
        BY <1>2 DEF FreeIds
    <2>2. Min(FreeIds(tagKeys)) \in FreeIds(tagKeys)
        BY <2>1, MinInSet
    <2>3. findNextAvailableTag(tagKeys) = Min(FreeIds(tagKeys))
        BY <2>1 DEF findNextAvailableTag
    <2>4. Min(FreeIds(tagKeys)) \in Ids /\ tagKeys[Min(FreeIds(tagKeys))] = NoName
        BY <2>2 DEF FreeIds, Ids
    <2> QED
        BY <1>2, <2>3, <2>4
<1> QED
    BY <1>1, <1>2

\* allocateTag stores a name that is absent under a free id.
LEMMA AllocReserved ==
    ASSUME TypeOK, ReservedIn(tags, tagKeys), NEW n \in AllNames,
           tags[n] = NoTag, NEW ok, allocateTag(n, ok)
    PROVE  ReservedIn(tags', tagKeys')
<1>. DEFINE slot == IF tagKeys[nextTag] # NoName
                    THEN findNextAvailableTag(tagKeys) ELSE nextTag
<1>1. CASE UNCHANGED <<tags, tagKeys>>
    BY <1>1
<1>2. CASE /\ tagKeys[nextTag] = NoName \/ FreeIds(tagKeys) # {}
           /\ tags' = [tags EXCEPT ![n] = slot]
           /\ tagKeys' = [tagKeys EXCEPT ![slot] = n]
    <2>1. tagKeys[slot] = NoName
        BY <1>2, FreeSlot
    <2> QED
        BY <1>2, <2>1, FreshPairReserved
<1> QED
    BY <1>1, <1>2 DEF allocateTag

\* ResetOverride's loop stores a pair with a reserved name only under its
\* reserved id, which it skips: checkTagSet of the list ran first.
LEMMA ResetHead ==
    ASSUME TypeOK, op = "reset", checkTagSet(pending),
           Head(pending)[2] \notin {DefaultTagId, GravwellTagId}
    PROVE  Head(pending)[1] \notin ReservedNames
<1>1. pending \in Seq(Pair) /\ pending # <<>>
    BY DEF TypeOK
<1>2. Len(pending) >= 1 /\ Head(pending) = pending[1]
    BY <1>1
<1> QED
    BY <1>2 DEF checkTagSet, ReservedNames

\* What is left of a checked list is checked.
LEMMA CheckTail ==
    ASSUME NEW l \in Seq(Pair), l # <<>>, checkTagSet(l)
    PROVE  checkTagSet(Tail(l))
<1>1. Len(Tail(l)) = Len(l) - 1 /\ \A k \in 1..Len(Tail(l)) : Tail(l)[k] = l[k + 1]
    BY HeadTailProperties
<1> QED
    BY <1>1 DEF checkTagSet

\* Continue keeps the method in progress, on the rest of its list, or
\* ends it.
LEMMA ContinueOp ==
    ASSUME NEW ok, Continue(ok)
    PROVE  \/ op' = op /\ pending' = Tail(pending)
           \/ op' = "none"
BY DEF Continue

-----------------------------------------------------------------------------
(* Reserved tags.                                                          *)

\* Every operation keeps the reserved entries of an open dictionary and
\* the check of ResetOverride's list, when writes to tags.dat succeed.
LEMMA RInvStep ==
    ASSUME ~WriteFaults
    PROVE  RInv /\ [Next]_vars => RInv'
<1> SUFFICES ASSUME RInv, [Next]_vars PROVE RInv'
    OBVIOUS
<1>0. TypeOK /\ (active => ReservedIn(tags, tagKeys)) /\ ResetChecked
    BY ReservedIntactIsReservedIn DEF RInv
<1>a. TypeOK'
    BY TypeStep DEF RInv
<1> DEFINE Goal == (active' => ReservedIn(tags', tagKeys')) /\ ResetChecked'
<1> SUFFICES Goal
    BY <1>a, ReservedIntactIsReservedIn DEF RInv
<1>1. CASE NewCreate
    <2>1. PICK k \in WritesDone(2) :
             /\ \/ Opened(TagsOf(ReservedPairs), KeysOf(ReservedPairs))
                \/ UNCHANGED <<active, tags, tagKeys, nextTag>>
        BY <1>1 DEF NewCreate
    <2>2. active' => ReservedIn(tags', tagKeys')
        BY <1>1, <2>1, SeededReserved DEF Opened, NewCreate
    <2> QED
        BY <1>0, <1>1, <2>2 DEF NewCreate, ResetChecked
<1>2. CASE NewOpen
    <2>1. ReservedIn(LoadedTags(file), LoadedKeys(file))
        BY <1>0, <1>2, SeededReserved DEF NewOpen, TypeOK
    <2> QED
        BY <1>0, <1>2, <2>1 DEF NewOpen, Opened, ResetChecked
<1>3. ASSUME NEW l \in TagLists, Merge(l) PROVE Goal
    BY <1>0, <1>3 DEF Merge, ResetChecked
<1>4. CASE MergeStep
    <2>. DEFINE n == Head(pending)[1]
                i == Head(pending)[2]
    <2>1. op = "merge" /\ active' = active
        BY <1>4 DEF MergeStep
    <2>2. ResetChecked'
        BY <1>4, <2>1, ContinueOp DEF MergeStep, ResetChecked
    <2>3. CASE UNCHANGED <<tags, tagKeys>>
        BY <1>0, <2>1, <2>2, <2>3
    <2>4. CASE ~UNCHANGED <<tags, tagKeys>>
        <3>1. /\ tagKeys[i] = NoName /\ tags[n] = NoTag
              /\ tags' = [tags EXCEPT ![n] = i]
              /\ tagKeys' = [tagKeys EXCEPT ![i] = n]
            <4>1. /\ ~(tagKeys[i] \notin {NoName, n} \/ tags[n] \notin {NoTag, i})
                  /\ ~(tagKeys[i] = n \/ tags[n] = i)
                  /\ \E ok \in BOOLEAN : assignTag(n, i, ok)
                BY <1>4, <2>4 DEF MergeStep
            <4>2. /\ tags' = [tags EXCEPT ![n] = i]
                  /\ tagKeys' = [tagKeys EXCEPT ![i] = n]
                BY <2>4, <4>1 DEF assignTag
            <4> QED
                BY <4>1, <4>2
        <3> QED
            BY <1>0, <2>1, <2>2, <3>1, FreshPairReserved
    <2> QED
        BY <2>3, <2>4
<1>5. CASE Close \/ Crash
    BY <1>5 DEF Close, Crash, Discarded, ResetChecked
<1>6. ASSUME NEW n \in AllNames, AddTag(n) PROVE Goal
    <2>1. PICK ok \in BOOLEAN : allocateTag(n, ok)
        BY <1>6 DEF AddTag
    <2>2. active => ReservedIn(tags', tagKeys')
        BY <1>0, <1>6, <2>1, AllocReserved DEF AddTag
    <2> QED
        BY <1>0, <1>6, <2>2 DEF AddTag, ResetChecked
<1>7. ASSUME NEW n \in AllNames, GetAndPopulate(n) PROVE Goal
    <2>1. PICK ok \in BOOLEAN : getAndPopulateNoLock(n, ok)
        BY <1>7 DEF GetAndPopulate
    <2>2. active => ReservedIn(tags', tagKeys')
        BY <1>0, <2>1, AllocReserved DEF getAndPopulateNoLock
    <2> QED
        BY <1>0, <1>7, <2>2 DEF GetAndPopulate, ResetChecked
<1>8. ASSUME NEW l \in NameLists, ImportTags(l) PROVE Goal
    BY <1>0, <1>8 DEF ImportTags, ResetChecked
<1>9. CASE ImportStep
    <2>1. op = "import" /\ active' = active /\ Head(pending) \in AllNames
        BY <1>0, <1>9, HeadType DEF ImportStep
    <2>2. PICK ok \in BOOLEAN :
             getAndPopulateNoLock(Head(pending), ok) /\ Continue(ok)
        BY <1>9 DEF ImportStep
    <2>3. active => ReservedIn(tags', tagKeys')
        BY <1>0, <2>1, <2>2, AllocReserved DEF getAndPopulateNoLock
    <2>4. ResetChecked'
        BY <2>1, <2>2, ContinueOp DEF ResetChecked
    <2> QED
        BY <2>1, <2>3, <2>4
<1>10. ASSUME NEW l \in TagLists, ResetOverride(l) PROVE Goal
    <2>1. /\ checkTagSet(l) /\ active' = active
          /\ tags' = TagsOf(ReservedPairs)
          /\ tagKeys' = KeysOf(ReservedPairs)
          /\ IF l # <<>>
             THEN op' = "reset" /\ pending' = l
             ELSE UNCHANGED <<op, pending>>
        BY <1>10 DEF ResetOverride, WritesDone
    <2>2. op = "none"
        BY <1>10 DEF ResetOverride
    <2> QED
        BY <2>1, <2>2, SeededReserved DEF ResetChecked
<1>11. CASE ResetStep
    <2>. DEFINE n == Head(pending)[1]
                i == Head(pending)[2]
    <2>1. /\ op = "reset" /\ checkTagSet(pending) /\ active' = active
          /\ pending \in Seq(Pair) /\ pending # <<>>
        BY <1>0, <1>11 DEF ResetStep, ResetChecked, TypeOK
    <2>2. ASSUME NEW ok, Continue(ok) PROVE ResetChecked'
        BY <2>1, <2>2, ContinueOp, CheckTail DEF ResetChecked
    <2>3. CASE i \in {DefaultTagId, GravwellTagId}
        <3>1. Continue(TRUE) /\ UNCHANGED <<tags, tagKeys>>
            BY <1>11, <2>3 DEF ResetStep
        <3> QED
            BY <1>0, <2>1, <2>2, <3>1
    <2>4. CASE i \notin {DefaultTagId, GravwellTagId}
        <3>1. /\ tags' = [tags EXCEPT ![n] = i]
              /\ tagKeys' = [tagKeys EXCEPT ![i] = n]
              /\ \E k \in WritesDone(1) : Continue(k = 1)
            BY <1>11, <2>4 DEF ResetStep
        <3>2. n \notin ReservedNames
            BY <1>0, <2>1, <2>4, ResetHead
        <3> QED
            BY <1>0, <2>1, <2>2, <2>4, <3>1, <3>2, OutsideReserved
    <2> QED
        BY <2>3, <2>4
<1>12. ASSUME NEW i \in Ids, NEW n \in AllNames, EnsureTag(i, n) PROVE Goal
    BY <1>0, <1>12, FreshPairReserved DEF EnsureTag, ResetChecked
<1>13. CASE UNCHANGED vars
    BY <1>0, <1>13 DEF vars, ResetChecked
<1> QED
    BY <1>1, <1>2, <1>3, <1>4, <1>5, <1>6, <1>7, <1>8, <1>9, <1>10,
       <1>11, <1>12, <1>13 DEF Next, ServerNext

\* Reserved tags (spec section 8, property 5): as long as writes to
\* tags.dat succeed, every open dictionary maps "default" to 0 and
\* "gravwell" to 0xFFFF both ways, through every exported operation --
\* including ResetOverride, whose list may name them, and ensureTag,
\* which runs without the mutex.  (A failed truncate in ResetOverride
\* leaves empty maps: the run tagman_fault_reserved.)
THEOREM ReservedHolds ==
    ASSUME ~WriteFaults
    PROVE  Spec => []ReservedIntact
<1>1. Init => RInv
    BY EmptyType DEF Init, RInv, TypeOK, ReservedIntact, ResetChecked
<1>2. RInv /\ [Next]_vars => RInv'
    BY RInvStep
<1>3. RInv => ReservedIntact
    BY DEF RInv
<1> QED
    BY <1>1, <1>2, <1>3, PTL DEF Spec

-----------------------------------------------------------------------------
(* Append-only.                                                            *)

\* What a step of an open dictionary outside ResetOverride must keep.
Grows ==
    /\ IsPrefix(file, file')
    /\ \A n \in AllNames : tags[n] # NoTag => tags'[n] = tags[n]
    /\ \A i \in Ids : tagKeys[i] # NoName => tagKeys'[i] = tagKeys[i]

\* The step formula of AppendOnly.
Kept == active /\ active' /\ ~ResetStepTaken => Grows

LEMMA AppendOnlyIsKept == AppendOnly <=> [][Kept]_vars
BY DEF AppendOnly, Kept, Grows

\* An Fprintf of one line, done or failed, keeps what the file held.
LEMMA PrefixAppend ==
    ASSUME NEW f \in Seq(Pair), NEW p, NEW k
    PROVE  IsPrefix(f, AppendLine(f, p, k)) /\ IsPrefix(f, f)
BY DEF IsPrefix, AppendLine

\* Storing a pair whose name and id are absent changes no mapping.
LEMMA FreshKeeps ==
    ASSUME TypeOK, NEW n \in AllNames, NEW i \in Ids,
           tags[n] = NoTag, tagKeys[i] = NoName
    PROVE  /\ \A m \in AllNames : tags[m] # NoTag =>
                  [tags EXCEPT ![n] = i][m] = tags[m]
           /\ \A j \in Ids : tagKeys[j] # NoName =>
                  [tagKeys EXCEPT ![i] = n][j] = tagKeys[j]
BY DEF TypeOK

\* A step that stores nothing and writes nothing keeps everything.
LEMMA UnchangedGrows ==
    ASSUME TypeOK, UNCHANGED <<file, tags, tagKeys>>
    PROVE  Grows
BY PrefixAppend DEF Grows, TypeOK

\* allocateTag stores and writes only a fresh pair.
LEMMA AllocGrows ==
    ASSUME TypeOK, NEW n \in AllNames, tags[n] = NoTag,
           NEW ok, allocateTag(n, ok)
    PROVE  Grows
<1>. DEFINE slot == IF tagKeys[nextTag] # NoName
                    THEN findNextAvailableTag(tagKeys) ELSE nextTag
<1>1. CASE UNCHANGED <<file, tags, tagKeys>>
    BY <1>1, UnchangedGrows
<1>2. CASE /\ tagKeys[nextTag] = NoName \/ FreeIds(tagKeys) # {}
           /\ tags' = [tags EXCEPT ![n] = slot]
           /\ tagKeys' = [tagKeys EXCEPT ![slot] = n]
           /\ \E k \in WritesDone(1) : file' = AppendLine(file, <<n, slot>>, k)
    <2>1. slot \in Ids /\ tagKeys[slot] = NoName
        BY <1>2, FreeSlot
    <2>2. IsPrefix(file, file')
        BY <1>2, PrefixAppend DEF TypeOK
    <2> QED
        BY <1>2, <2>1, <2>2, FreshKeeps DEF Grows
<1> QED
    BY <1>1, <1>2 DEF allocateTag

\* A ResetOverride that does not enter its loop is ResetOverride(<<>>).
LEMMA ResetWithoutLoop ==
    ASSUME NEW l, ResetOverride(l), op' # "reset"
    PROVE  ResetOverride(<<>>)
<1>1. PICK k \in WritesDone(3) :
         /\ tags' = IF k = 0 THEN NoTags ELSE TagsOf(ReservedPairs)
         /\ tagKeys' = IF k = 0 THEN NoKeys ELSE KeysOf(ReservedPairs)
         /\ file' = IF k = 0 THEN file ELSE SubSeq(Seed, 1, k - 1)
         /\ IF k = 3 /\ l # <<>>
            THEN op' = "reset" /\ pending' = l
            ELSE UNCHANGED <<op, pending>>
    BY DEF ResetOverride
<1>2. UNCHANGED <<op, pending>>
    BY <1>1
<1>3. checkTagSet(<<>>)
    BY DEF checkTagSet
<1> QED
    BY <1>1, <1>2, <1>3 DEF ResetOverride

\* Every step of an open dictionary outside ResetOverride only adds.
LEMMA KeptStep ==
    TypeOK /\ [Next]_vars => [Kept]_vars
<1> SUFFICES ASSUME TypeOK, [Next]_vars, active, active', ~ResetStepTaken
             PROVE  Grows
    BY DEF Kept
<1>1. CASE NewCreate \/ NewOpen
    BY <1>1 DEF NewCreate, NewOpen
<1>2. ASSUME NEW l \in TagLists, Merge(l) PROVE Grows
    BY <1>2, UnchangedGrows DEF Merge
<1>3. CASE MergeStep
    <2>. DEFINE n == Head(pending)[1]
                i == Head(pending)[2]
    <2>1. n \in AllNames /\ i \in Ids
        BY <1>3, HeadType DEF MergeStep, Pair
    <2>2. CASE UNCHANGED <<file, tags, tagKeys>>
        BY <2>2, UnchangedGrows
    <2>3. CASE ~UNCHANGED <<file, tags, tagKeys>>
        <3>1. /\ tagKeys[i] = NoName /\ tags[n] = NoTag
              /\ \E ok \in BOOLEAN : assignTag(n, i, ok)
            BY <1>3, <2>3 DEF MergeStep
        <3>2. /\ tags' = [tags EXCEPT ![n] = i]
              /\ tagKeys' = [tagKeys EXCEPT ![i] = n]
              /\ \E k \in WritesDone(1) : file' = AppendLine(file, <<n, i>>, k)
            BY <2>3, <3>1 DEF assignTag
        <3>3. IsPrefix(file, file')
            BY <3>2, PrefixAppend DEF TypeOK
        <3> QED
            BY <2>1, <3>1, <3>2, <3>3, FreshKeeps DEF Grows
    <2> QED
        BY <2>2, <2>3
<1>4. CASE Close \/ Crash
    BY <1>4 DEF Close, Crash, Discarded
<1>5. ASSUME NEW n \in AllNames, AddTag(n) PROVE Grows
    BY <1>5, AllocGrows DEF AddTag
<1>6. ASSUME NEW n \in AllNames, GetAndPopulate(n) PROVE Grows
    BY <1>6, AllocGrows, UnchangedGrows DEF GetAndPopulate, getAndPopulateNoLock
<1>7. ASSUME NEW l \in NameLists, ImportTags(l) PROVE Grows
    BY <1>7, UnchangedGrows DEF ImportTags
<1>8. CASE ImportStep
    <2>1. Head(pending) \in AllNames
        BY <1>8, HeadType DEF ImportStep
    <2> QED
        BY <1>8, <2>1, AllocGrows, UnchangedGrows DEF ImportStep, getAndPopulateNoLock
<1>9. ASSUME NEW l \in TagLists, ResetOverride(l) PROVE Grows
    <2>1. op' # "reset" /\ ~ResetOverride(<<>>)
        BY DEF ResetStepTaken
    <2> QED
        BY <1>9, <2>1, ResetWithoutLoop
<1>10. CASE ResetStep
    BY <1>10 DEF ResetStep, ResetStepTaken
<1>11. ASSUME NEW i \in Ids, NEW n \in AllNames, EnsureTag(i, n) PROVE Grows
    <2>1. IsPrefix(file, file')
        BY <1>11, PrefixAppend DEF EnsureTag, TypeOK
    <2> QED
        BY <1>11, <2>1, FreshKeeps DEF EnsureTag, Grows
<1>12. CASE UNCHANGED vars
    BY <1>12, UnchangedGrows DEF vars
<1> QED
    BY <1>1, <1>2, <1>3, <1>4, <1>5, <1>6, <1>7, <1>8, <1>9, <1>10,
       <1>11, <1>12 DEF Next, ServerNext

\* Append-only: outside ResetOverride, no step of an open dictionary --
\* AddTag, GetAndPopulate, ImportTags, Merge, ensureTag, with or without
\* failing writes -- changes or removes a mapping or a line of tags.dat:
\* the allocator's slot is free even after the uint16 wrap of nextTag or
\* after Merge placed a client-chosen id under it.
THEOREM AppendOnlyHolds ==
    Spec => AppendOnly
<1>1. TypeOK /\ [Next]_vars => [Kept]_vars
    BY KeptStep
<1>2. Spec => []TypeOK
    BY TypeCorrect
<1>3. Spec => [][Kept]_vars
    BY <1>1, <1>2, PTL DEF Spec
<1> QED
    BY <1>3, AppendOnlyIsKept

====
