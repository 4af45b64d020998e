---------------------------- MODULE TagManProofs ----------------------------
(***************************************************************************)
(* Proofs about the tag dictionary of module TagMan, for every value of    *)
(* the constants allowed by TagManAssumptions.                             *)
(***************************************************************************)
EXTENDS TagMan, WellFoundedInduction, SequenceTheorems, TLAPS

USE TagManAssumptions

-----------------------------------------------------------------------------
(* Lemmas about the helpers of the model.                                  *)

\* A non-empty set of naturals holds its minimum: the id findNextAvailableTag
\* returns is one of the free ids its loop scans.
LEMMA MinInSet ==
    ASSUME NEW S \in SUBSET Nat, S # {}
    PROVE  Min(S) \in S /\ \A y \in S : Min(S) <= y
<1>1. \E x \in S : \A y \in S : ~(<<y, x>> \in OpToRel(<, Nat))
    BY WFMin, NatLessThanWellFounded
<1>2. \E x \in S : \A y \in S : x <= y
    <2>1. PICK x \in S : \A y \in S : ~(<<y, x>> \in OpToRel(<, Nat))
        BY <1>1
    <2>2. ASSUME NEW y \in S PROVE x <= y
        <3>1. ~(<<y, x>> \in {ss \in Nat \X Nat : ss[1] < ss[2]})
            BY <2>1 DEF OpToRel
        <3>. QED  BY <3>1
    <2>. QED  BY <2>2
<1>. QED  BY <1>2 DEF Min

\* findNextAvailableTag returns an id below 0xFFFF.
LEMMA FindNextType ==
    ASSUME NEW keys
    PROVE  findNextAvailableTag(keys) \in 0..(MaxTag - 1)
<1>1. FreeIds(keys) \in SUBSET Nat
    BY DEF FreeIds
<1>2. CASE FreeIds(keys) # {}
    <2>1. Min(FreeIds(keys)) \in FreeIds(keys)
        BY <1>1, <1>2, MinInSet
    <2>. QED  BY <1>2, <2>1 DEF findNextAvailableTag, FreeIds
<1>. QED  BY <1>2 DEF findNextAvailableTag

\* The maps built from a set of pairs are typed like TagMan's maps.
LEMMA MapsOfPairsType ==
    ASSUME NEW P \in SUBSET Pair
    PROVE  /\ TagsOf(P) \in [AllNames -> Ids \cup {NoTag}]
           /\ KeysOf(P) \in [Ids -> AllNames \cup {NoName}]
<1>1. TagsOf(P) \in [AllNames -> Ids \cup {NoTag}]
    BY DEF TagsOf, Pair
<1>2. KeysOf(P) \in [Ids -> AllNames \cup {NoName}]
    BY DEF KeysOf, Pair
<1>. QED  BY <1>1, <1>2

\* The lines of a typed file are pairs, and so are the reserved ones.
LEMMA LinesType ==
    ASSUME NEW f \in Seq(Pair)
    PROVE  FilePairs(f) \cup ReservedPairs \in SUBSET Pair
BY DEF FilePairs, ReservedPairs, Seed, Pair, Ids, AllNames, ReservedNames,
       DefaultTagId, GravwellTagId

\* The lists handed to Merge, ResetOverride and ImportTags are sequences.
LEMMA ListsType ==
    /\ TagLists \subseteq Seq(Pair)
    /\ NameLists \subseteq Seq(AllNames)
BY DEF TagLists, NameLists, BoundedSeq, SeqOf

\* A sequence of positive length is not the empty sequence.
LEMMA NonEmptySeq ==
    ASSUME NEW S, NEW s \in Seq(S), Len(s) > 0
    PROVE  s # <<>>
OBVIOUS

\* The element a list method is working on has the type of its list.
LEMMA HeadType ==
    ASSUME TypeOK, op # "none"
    PROVE  /\ op = "import" => Head(pending) \in AllNames
           /\ op # "import" => Head(pending) \in Pair
BY DEF TypeOK

\* Continue keeps the link between op and its list and the list's type.
LEMMA ContinueType ==
    ASSUME TypeOK, op # "none", NEW ok \in BOOLEAN, Continue(ok)
    PROVE  /\ op' \in {"none", "merge", "import", "reset"}
           /\ (op' = "none") <=> (pending' = <<>>)
           /\ op' = "import" => pending' \in Seq(AllNames)
           /\ op' # "import" => pending' \in Seq(Pair)
<1>1. CASE ok /\ Len(pending) > 1
    <2>1. op' = op /\ pending' = Tail(pending)
        BY <1>1 DEF Continue
    <2>2. op = "import" => Tail(pending) \in Seq(AllNames)
        BY DEF TypeOK
    <2>3. op # "import" => Tail(pending) \in Seq(Pair)
        BY DEF TypeOK
    <2>4. Tail(pending) # <<>>
        <3>1. CASE op = "import"
            <4>1. Len(Tail(pending)) = Len(pending) - 1
                BY <1>1, <3>1, HeadTailProperties DEF TypeOK
            <4>2. Len(pending) > 1
                BY <1>1
            <4>3. Tail(pending) \in Seq(AllNames \cup Pair)
                BY HeadTailProperties DEF TypeOK
            <4>4. pending \in Seq(AllNames \cup Pair)
                BY DEF TypeOK
            <4>5. Len(Tail(pending)) > 0
                BY <4>1, <4>2, <4>4
            <4>. QED  BY <4>3, <4>5, NonEmptySeq, Zenon
        <3>2. CASE op # "import"
            <4>1. Len(Tail(pending)) = Len(pending) - 1
                BY <1>1, <3>2, HeadTailProperties DEF TypeOK
            <4>2. Len(pending) > 1
                BY <1>1
            <4>3. Tail(pending) \in Seq(AllNames \cup Pair)
                BY HeadTailProperties DEF TypeOK
            <4>4. pending \in Seq(AllNames \cup Pair)
                BY DEF TypeOK
            <4>5. Len(Tail(pending)) > 0
                BY <4>1, <4>2, <4>4
            <4>. QED  BY <4>3, <4>5, NonEmptySeq, Zenon
        <3>. QED  BY <3>1, <3>2
    <2>. QED  BY <2>1, <2>2, <2>3, <2>4 DEF TypeOK
<1>2. CASE ~(ok /\ Len(pending) > 1)
    <2>1. op' = "none" /\ pending' = <<>>
        BY <1>2 DEF Continue
    <2>2. <<>> \in Seq(Pair)
        OBVIOUS
    <2>. QED  BY <2>1, <2>2
<1>. QED  BY <1>1, <1>2

\* One Fprintf of a pair, done (k = 1) or failed (k = 0), keeps the file a
\* sequence of pairs.
LEMMA AppendLineType ==
    ASSUME NEW f \in Seq(Pair), NEW p \in Pair, NEW k
    PROVE  AppendLine(f, p, k) \in Seq(Pair)
BY DEF AppendLine

\* The seed lines written so far are a sequence of pairs.
LEMMA SeedPrefixType ==
    ASSUME NEW k \in 0..2
    PROVE  SubSeq(Seed, 1, k) \in Seq(Pair)
<1>1. \A i \in 1..2 : Seed[i] \in Pair
    BY DEF Seed, Pair, Ids, AllNames, ReservedNames, DefaultTagId, GravwellTagId
<1>2. \A i \in 1..k : Seed[i] \in Pair
    BY <1>1
<1>. QED  BY <1>2, SubSeqProperties

\* assignTag keeps the file and the maps typed.
LEMMA AssignType ==
    ASSUME TypeOK, NEW n \in AllNames, NEW i \in Ids, NEW ok,
           assignTag(n, i, ok)
    PROVE  /\ file' \in Seq(Pair)
           /\ tags' \in [AllNames -> Ids \cup {NoTag}]
           /\ tagKeys' \in [Ids -> AllNames \cup {NoName}]
<1>1. <<n, i>> \in Pair
    BY DEF Pair
<1>2. CASE n \in BadNames /\ UNCHANGED <<file, tags, tagKeys>>
    BY <1>2 DEF TypeOK
<1>3. CASE /\ n \notin BadNames
           /\ tags' = [tags EXCEPT ![n] = i]
           /\ tagKeys' = [tagKeys EXCEPT ![i] = n]
           /\ \E k \in 0..1 : file' = AppendLine(file, <<n, i>>, k)
    BY <1>1, <1>3, AppendLineType DEF TypeOK
<1>. QED  BY <1>2, <1>3 DEF assignTag, WritesDone

\* allocateTag keeps the file, the maps and the cursor typed.
LEMMA AllocType ==
    ASSUME TypeOK, NEW n \in AllNames, NEW ok, allocateTag(n, ok)
    PROVE  /\ file' \in Seq(Pair)
           /\ tags' \in [AllNames -> Ids \cup {NoTag}]
           /\ tagKeys' \in [Ids -> AllNames \cup {NoName}]
           /\ nextTag' \in Ids
<1>. DEFINE slot == IF tagKeys[nextTag] # NoName
                    THEN findNextAvailableTag(tagKeys) ELSE nextTag
<1>1. slot \in Ids
    BY FindNextType DEF TypeOK, Ids
<1>2. <<n, slot>> \in Pair
    BY <1>1 DEF Pair
<1>3. (slot + 1) % (MaxTag + 1) \in Ids
    BY <1>1 DEF Ids
<1>4. CASE UNCHANGED <<file, tags, tagKeys, nextTag>>
    BY <1>4 DEF TypeOK
<1>5. CASE nextTag' = 0 /\ UNCHANGED <<file, tags, tagKeys>>
    BY <1>5 DEF TypeOK, Ids
<1>6. CASE /\ tags' = [tags EXCEPT ![n] = slot]
           /\ tagKeys' = [tagKeys EXCEPT ![slot] = n]
           /\ \E k \in 0..1 :
                 /\ file' = AppendLine(file, <<n, slot>>, k)
                 /\ nextTag' = IF k = 1 THEN (slot + 1) % (MaxTag + 1) ELSE slot
    BY <1>1, <1>2, <1>3, <1>6, AppendLineType DEF TypeOK
<1>. QED  BY <1>4, <1>5, <1>6 DEF allocateTag, WritesDone

\* The empty maps, the cursor 0 and the empty file and list are typed.
LEMMA EmptyType ==
    /\ NoTags \in [AllNames -> Ids \cup {NoTag}]
    /\ NoKeys \in [Ids -> AllNames \cup {NoName}]
    /\ 0 \in Ids
    /\ <<>> \in Seq(Pair)
BY DEF NoTags, NoKeys, Ids

-----------------------------------------------------------------------------
(* Type correctness.                                                       *)

\* Every step of TagMan keeps the state typed.
LEMMA TypeStep == TypeOK /\ [Next]_vars => TypeOK'
<1> SUFFICES ASSUME TypeOK, [Next]_vars PROVE TypeOK'
    OBVIOUS
<1>1. CASE NewCreate
    <2>1. PICK k \in 0..2 :
             /\ file' = SubSeq(Seed, 1, k)
             /\ \/ Opened(TagsOf(ReservedPairs), KeysOf(ReservedPairs))
                \/ UNCHANGED <<active, tags, tagKeys, nextTag>>
        BY <1>1 DEF NewCreate, WritesDone
    <2>2. file' \in Seq(Pair)
        BY <2>1, SeedPrefixType
    <2>3. /\ TagsOf(ReservedPairs) \in [AllNames -> Ids \cup {NoTag}]
          /\ KeysOf(ReservedPairs) \in [Ids -> AllNames \cup {NoName}]
        BY LinesType, MapsOfPairsType, EmptyType DEF FilePairs
    <2>4. /\ active' \in BOOLEAN
          /\ tags' \in [AllNames -> Ids \cup {NoTag}]
          /\ tagKeys' \in [Ids -> AllNames \cup {NoName}]
          /\ nextTag' \in Ids
        <3>1. CASE Opened(TagsOf(ReservedPairs), KeysOf(ReservedPairs))
            BY <3>1, <2>3, FindNextType DEF Opened, Ids
        <3>2. CASE UNCHANGED <<active, tags, tagKeys, nextTag>>
            BY <3>2 DEF TypeOK
        <3>. QED  BY <2>1, <3>1, <3>2
    <2>. QED  BY <1>1, <2>2, <2>4 DEF NewCreate, TypeOK
<1>2. CASE NewOpen
    <2>1. /\ LoadedTags(file) \in [AllNames -> Ids \cup {NoTag}]
          /\ LoadedKeys(file) \in [Ids -> AllNames \cup {NoName}]
        BY LinesType, MapsOfPairsType DEF TypeOK, LoadedTags, LoadedKeys
    <2>. QED  BY <1>2, <2>1, FindNextType DEF NewOpen, Opened, TypeOK, Ids
<1>3. ASSUME NEW l \in TagLists, Merge(l) PROVE TypeOK'
    BY <1>3, ListsType DEF Merge, TypeOK
<1>4. CASE MergeStep
    <2>1. Head(pending) \in Pair /\ op # "import" /\ op # "none"
        BY <1>4, HeadType DEF MergeStep
    <2>2. /\ Head(pending)[1] \in AllNames
          /\ Head(pending)[2] \in Ids
        BY <2>1 DEF Pair
    <2>3. PICK ok \in BOOLEAN :
             /\ Continue(ok)
             /\ \/ UNCHANGED <<file, tags, tagKeys>>
                \/ assignTag(Head(pending)[1], Head(pending)[2], ok)
        BY <1>4 DEF MergeStep
    <2>4. /\ file' \in Seq(Pair)
          /\ tags' \in [AllNames -> Ids \cup {NoTag}]
          /\ tagKeys' \in [Ids -> AllNames \cup {NoName}]
        BY <2>2, <2>3, AssignType DEF TypeOK
    <2>. QED  BY <1>4, <2>1, <2>3, <2>4, ContinueType DEF MergeStep, TypeOK
<1>5. CASE Close
    BY <1>5, EmptyType DEF Close, Discarded, TypeOK
<1>6. CASE Crash
    BY <1>6, EmptyType DEF Crash, Discarded, TypeOK
<1>7. ASSUME NEW n \in AllNames, AddTag(n) PROVE TypeOK'
    BY <1>7, AllocType DEF AddTag, TypeOK
<1>8. ASSUME NEW n \in AllNames, GetAndPopulate(n) PROVE TypeOK'
    BY <1>8, AllocType DEF GetAndPopulate, getAndPopulateNoLock, TypeOK
<1>9. ASSUME NEW l \in NameLists, ImportTags(l) PROVE TypeOK'
    BY <1>9, ListsType DEF ImportTags, TypeOK
<1>10. CASE ImportStep
    <2>1. Head(pending) \in AllNames /\ op = "import"
        BY <1>10, HeadType DEF ImportStep
    <2>2. PICK ok \in BOOLEAN :
             /\ getAndPopulateNoLock(Head(pending), ok)
             /\ Continue(ok)
        BY <1>10 DEF ImportStep
    <2>3. /\ file' \in Seq(Pair)
          /\ tags' \in [AllNames -> Ids \cup {NoTag}]
          /\ tagKeys' \in [Ids -> AllNames \cup {NoName}]
          /\ nextTag' \in Ids
        BY <2>1, <2>2, AllocType DEF getAndPopulateNoLock, TypeOK
    <2>. QED  BY <1>10, <2>1, <2>2, <2>3, ContinueType DEF ImportStep, TypeOK
<1>11. ASSUME NEW l \in TagLists, ResetOverride(l) PROVE TypeOK'
    <2>1. PICK k \in 0..3 :
             /\ tags' = IF k = 0 THEN NoTags ELSE TagsOf(ReservedPairs)
             /\ tagKeys' = IF k = 0 THEN NoKeys ELSE KeysOf(ReservedPairs)
             /\ file' = IF k = 0 THEN file ELSE SubSeq(Seed, 1, k - 1)
             /\ IF k = 3 /\ l # <<>>
                THEN op' = "reset" /\ pending' = l
                ELSE UNCHANGED <<op, pending>>
        BY <1>11 DEF ResetOverride, WritesDone
    <2>2. /\ TagsOf(ReservedPairs) \in [AllNames -> Ids \cup {NoTag}]
          /\ KeysOf(ReservedPairs) \in [Ids -> AllNames \cup {NoName}]
        BY LinesType, MapsOfPairsType, EmptyType DEF FilePairs
    <2>3. /\ tags' \in [AllNames -> Ids \cup {NoTag}]
          /\ tagKeys' \in [Ids -> AllNames \cup {NoName}]
        BY <2>1, <2>2, EmptyType
    <2>4. file' \in Seq(Pair)
        <3>1. CASE k = 0
            BY <2>1, <3>1 DEF TypeOK
        <3>2. CASE k # 0
            BY <2>1, <3>2, SeedPrefixType
        <3>. QED  BY <3>1, <3>2
    <2>5. /\ op' \in {"none", "merge", "import", "reset"}
          /\ (op' = "none") <=> (pending' = <<>>)
          /\ op' = "import" => pending' \in Seq(AllNames)
          /\ op' # "import" => pending' \in Seq(Pair)
        <3>1. CASE k = 3 /\ l # <<>>
            BY <2>1, <3>1, ListsType
        <3>2. CASE ~(k = 3 /\ l # <<>>)
            BY <2>1, <3>2 DEF TypeOK
        <3>. QED  BY <3>1, <3>2
    <2>. QED  BY <1>11, <2>3, <2>4, <2>5 DEF ResetOverride, TypeOK
<1>12. CASE ResetStep
    <2>1. Head(pending) \in Pair /\ op = "reset"
        BY <1>12, HeadType DEF ResetStep
    <2>2. /\ Head(pending)[1] \in AllNames
          /\ Head(pending)[2] \in Ids
          /\ <<Head(pending)[1], Head(pending)[2]>> \in Pair
        BY <2>1 DEF Pair
    <2>3. CASE Head(pending)[2] \in {DefaultTagId, GravwellTagId}
        <3>1. Continue(TRUE) /\ UNCHANGED <<file, tags, tagKeys>>
            BY <1>12, <2>3 DEF ResetStep
        <3>. QED  BY <1>12, <2>1, <3>1, ContinueType DEF ResetStep, TypeOK
    <2>4. CASE Head(pending)[2] \notin {DefaultTagId, GravwellTagId}
        <3>0. /\ tags' = [tags EXCEPT ![Head(pending)[1]] = Head(pending)[2]]
              /\ tagKeys' = [tagKeys EXCEPT ![Head(pending)[2]] = Head(pending)[1]]
              /\ \E k \in WritesDone(1) :
                    /\ file' = AppendLine(file, <<Head(pending)[1], Head(pending)[2]>>, k)
                    /\ Continue(k = 1)
            BY <1>12, <2>4 DEF ResetStep
        <3>1. PICK k \in 0..1 :
                 /\ tags' = [tags EXCEPT ![Head(pending)[1]] = Head(pending)[2]]
                 /\ tagKeys' = [tagKeys EXCEPT ![Head(pending)[2]] = Head(pending)[1]]
                 /\ file' = AppendLine(file, <<Head(pending)[1], Head(pending)[2]>>, k)
                 /\ Continue(k = 1)
            BY <3>0 DEF WritesDone
        <3>2. file' \in Seq(Pair)
            BY <2>2, <3>1, AppendLineType DEF TypeOK
        <3>3. /\ tags' \in [AllNames -> Ids \cup {NoTag}]
              /\ tagKeys' \in [Ids -> AllNames \cup {NoName}]
            BY <2>2, <3>1 DEF TypeOK
        <3>4. /\ op' \in {"none", "merge", "import", "reset"}
              /\ (op' = "none") <=> (pending' = <<>>)
              /\ op' = "import" => pending' \in Seq(AllNames)
              /\ op' # "import" => pending' \in Seq(Pair)
            BY <2>1, <3>1, ContinueType
        <3>. QED  BY <1>12, <3>2, <3>3, <3>4 DEF ResetStep, TypeOK
    <2>. QED  BY <2>3, <2>4
<1>13. ASSUME NEW i \in Ids, NEW n \in AllNames, EnsureTag(i, n) PROVE TypeOK'
    BY <1>13 DEF EnsureTag, TypeOK
<1>14. CASE UNCHANGED vars
    BY <1>14 DEF vars, TypeOK
<1>. QED  BY <1>1, <1>2, <1>3, <1>4, <1>5, <1>6, <1>7, <1>8, <1>9, <1>10,
             <1>11, <1>12, <1>13, <1>14 DEF Next, ServerNext

\* Every reachable state is typed: in particular the allocation cursor
\* stays a 16-bit id across the uint16 wrap of nextTag++, and a list
\* method always works on an element of its own list.
THEOREM TypeCorrect == Spec => []TypeOK
<1>1. Init => TypeOK
    BY EmptyType DEF Init, TypeOK
<1>2. TypeOK /\ [Next]_vars => TypeOK'
    BY TypeStep
<1>. QED  BY <1>1, <1>2, PTL DEF Spec

-----------------------------------------------------------------------------
(* The bijection of the server's dictionary.                               *)

\* A set of pairs in which two pairs share a name exactly when they share
\* an id.
Consistent(P) == \A p, q \in P : (p[1] = q[1]) <=> (p[2] = q[2])

\* The maps built from a consistent set of pairs are inverse to each other.
LEMMA ConsistentInverse ==
    ASSUME NEW P \in SUBSET Pair, Consistent(P)
    PROVE  /\ \A n \in AllNames : TagsOf(P)[n] # NoTag => KeysOf(P)[TagsOf(P)[n]] = n
           /\ \A i \in Ids : KeysOf(P)[i] # NoName => TagsOf(P)[KeysOf(P)[i]] = i
<1>1. ASSUME NEW n \in AllNames, TagsOf(P)[n] # NoTag
      PROVE  KeysOf(P)[TagsOf(P)[n]] = n
    <2>1. \E p \in P : p[1] = n
        BY <1>1 DEF TagsOf
    <2>. DEFINE p == CHOOSE p \in P : p[1] = n
    <2>2. p \in P /\ p[1] = n /\ TagsOf(P)[n] = p[2] /\ p[2] \in Ids
        BY <2>1 DEF TagsOf, Pair
    <2>. DEFINE q == CHOOSE q \in P : q[2] = p[2]
    <2>3. q \in P /\ q[2] = p[2] /\ KeysOf(P)[p[2]] = q[1]
        BY <2>2 DEF KeysOf
    <2>4. q[1] = n
        BY <2>2, <2>3 DEF Consistent
    <2>. QED  BY <2>2, <2>3, <2>4
<1>2. ASSUME NEW i \in Ids, KeysOf(P)[i] # NoName
      PROVE  TagsOf(P)[KeysOf(P)[i]] = i
    <2>1. \E p \in P : p[2] = i
        BY <1>2 DEF KeysOf
    <2>. DEFINE p == CHOOSE p \in P : p[2] = i
    <2>2. p \in P /\ p[2] = i /\ KeysOf(P)[i] = p[1] /\ p[1] \in AllNames
        BY <2>1 DEF KeysOf, Pair
    <2>. DEFINE q == CHOOSE q \in P : q[1] = p[1]
    <2>3. q \in P /\ q[1] = p[1] /\ TagsOf(P)[p[1]] = q[2]
        BY <2>2 DEF TagsOf
    <2>4. q[2] = i
        BY <2>2, <2>3 DEF Consistent
    <2>. QED  BY <2>2, <2>3, <2>4
<1>. QED  BY <1>1, <1>2

\* The reserved pairs are consistent.
LEMMA ReservedConsistent == Consistent(ReservedPairs)
BY DEF Consistent, ReservedPairs, Seed, DefaultTagId, GravwellTagId

\* A file loadTags accepts, together with the reserved pairs it ensures,
\* is consistent: DistinctLines rules out two lines sharing a name or an
\* id, and parseLine's checks tie "default" to 0 and "gravwell" to 0xFFFF.
LEMMA LoadedConsistent ==
    ASSUME NEW f \in Seq(Pair), loadOK(f)
    PROVE  Consistent(FilePairs(f) \cup ReservedPairs)
<1> SUFFICES ASSUME NEW p \in FilePairs(f) \cup ReservedPairs,
                    NEW q \in FilePairs(f) \cup ReservedPairs
             PROVE  (p[1] = q[1]) <=> (p[2] = q[2])
    BY DEF Consistent
<1>1. CASE p \in FilePairs(f) /\ q \in FilePairs(f)
    <2>1. PICK j \in 1..Len(f), k \in 1..Len(f) : p = f[j] /\ q = f[k]
        BY <1>1 DEF FilePairs
    <2>2. CASE j = k
        BY <2>1, <2>2
    <2>3. CASE j # k
        BY <2>1, <2>3 DEF loadOK, DistinctLines
    <2>. QED  BY <2>2, <2>3
<1>2. ASSUME NEW l \in FilePairs(f), NEW r \in ReservedPairs
      PROVE  (l[1] = r[1]) <=> (l[2] = r[2])
    <2>1. PICK k \in 1..Len(f) : l = f[k]
        BY DEF FilePairs
    <2>2. parseLine(l)
        BY <2>1 DEF loadOK
    <2>. QED  BY <2>2 DEF parseLine, ReservedPairs, Seed
<1>3. CASE p \in ReservedPairs /\ q \in ReservedPairs
    BY <1>3, ReservedConsistent DEF Consistent
<1>. QED  BY <1>1, <1>2, <1>3

\* The inductive invariant of the server's dictionary.
IInv == TypeOK /\ TagBijection

\* Merge, New, Close and a crash keep the two maps of an open instance
\* inverse to each other.
LEMMA BijectionStep == IInv /\ [ServerNext]_vars => IInv'
<1> SUFFICES ASSUME IInv, [ServerNext]_vars PROVE IInv'
    OBVIOUS
<1>1. TypeOK'
    BY TypeStep DEF IInv, Next, ServerNext, vars
<1>2. TagBijection'
    <2>1. CASE NewCreate
        <3>1. Consistent(ReservedPairs) /\ ReservedPairs \in SUBSET Pair
            BY ReservedConsistent, LinesType, EmptyType DEF FilePairs
        <3>2. CASE Opened(TagsOf(ReservedPairs), KeysOf(ReservedPairs))
            BY <3>1, <3>2, ConsistentInverse DEF Opened, TagBijection
        <3>3. CASE UNCHANGED <<active, tags, tagKeys, nextTag>>
            BY <2>1, <3>3 DEF NewCreate, TagBijection
        <3>. QED  BY <2>1, <3>2, <3>3 DEF NewCreate
    <2>2. CASE NewOpen
        <3>1. /\ Consistent(FilePairs(file) \cup ReservedPairs)
              /\ FilePairs(file) \cup ReservedPairs \in SUBSET Pair
            BY <2>2, LoadedConsistent, LinesType DEF NewOpen, IInv, TypeOK
        <3>. QED  BY <2>2, <3>1, ConsistentInverse
                  DEF NewOpen, Opened, TagBijection, LoadedTags, LoadedKeys
    <2>3. ASSUME NEW l \in TagLists, Merge(l) PROVE TagBijection'
        BY <2>3 DEF Merge, IInv, TagBijection
    <2>4. CASE MergeStep
        <3>. DEFINE n == Head(pending)[1]
                    i == Head(pending)[2]
        <3>1. n \in AllNames /\ i \in Ids
            BY <2>4, HeadType DEF MergeStep, IInv, Pair
        <3>2. CASE UNCHANGED <<active, tags, tagKeys>>
            BY <3>2 DEF IInv, TagBijection
        <3>3. CASE ~UNCHANGED <<active, tags, tagKeys>>
            <4>1. /\ tagKeys[i] = NoName
                  /\ tags[n] = NoTag
                  /\ tags' = [tags EXCEPT ![n] = i]
                  /\ tagKeys' = [tagKeys EXCEPT ![i] = n]
                  /\ active' = active
                <5>1. /\ ~(tagKeys[i] \notin {NoName, n} \/ tags[n] \notin {NoTag, i})
                      /\ ~(tagKeys[i] = n \/ tags[n] = i)
                      /\ \E ok \in BOOLEAN : assignTag(n, i, ok)
                      /\ active' = active
                    BY <2>4, <3>3 DEF MergeStep
                <5>2. /\ tags' = [tags EXCEPT ![n] = i]
                      /\ tagKeys' = [tagKeys EXCEPT ![i] = n]
                    BY <3>3, <5>1 DEF assignTag
                <5>. QED  BY <5>1, <5>2
            <4>2. CASE active
                <5>1. ASSUME NEW m \in AllNames, tags'[m] # NoTag
                      PROVE  tagKeys'[tags'[m]] = m
                    <6>1. CASE m = n
                        BY <3>1, <4>1, <6>1 DEF IInv, TypeOK
                    <6>2. CASE m # n
                        <7>a. tags[m] \in Ids /\ tagKeys[tags[m]] = m
                            BY <4>1, <4>2, <5>1, <6>2 DEF IInv, TypeOK, TagBijection, NoTag, Ids
                        <7>b. tags[m] # i
                            BY <4>1, <7>a, TagManAssumptions DEF AllNames
                        <7>. QED  BY <4>1, <6>2, <7>a, <7>b DEF IInv, TypeOK
                    <6>. QED  BY <6>1, <6>2
                <5>2. ASSUME NEW j \in Ids, tagKeys'[j] # NoName
                      PROVE  tags'[tagKeys'[j]] = j
                    <6>1. CASE j = i
                        BY <3>1, <4>1, <6>1 DEF IInv, TypeOK
                    <6>2. CASE j # i
                        <7>a. tagKeys[j] \in AllNames /\ tags[tagKeys[j]] = j
                            BY <4>1, <4>2, <5>2, <6>2 DEF IInv, TypeOK, TagBijection
                        <7>b. tagKeys[j] # n
                            BY <4>1, <7>a DEF NoTag, Ids
                        <7>. QED  BY <4>1, <6>2, <7>a, <7>b DEF IInv, TypeOK
                    <6>. QED  BY <6>1, <6>2
                <5>. QED  BY <5>1, <5>2 DEF TagBijection
            <4>3. CASE ~active
                BY <4>1, <4>3 DEF TagBijection
            <4>. QED  BY <4>2, <4>3
        <3>. QED  BY <3>2, <3>3
    <2>5. CASE Close
        BY <2>5 DEF Close, Discarded, TagBijection
    <2>6. CASE Crash
        BY <2>6 DEF Crash, Discarded, TagBijection
    <2>7. CASE UNCHANGED vars
        BY <2>7 DEF vars, IInv, TagBijection
    <2>. QED  BY <2>1, <2>2, <2>3, <2>4, <2>5, <2>6, <2>7 DEF ServerNext
<1>. QED  BY <1>1, <1>2 DEF IInv

\* Bijection (spec section 8, property 4) on the server's path: through
\* any sequence of New, Merge (including its early returns), Close and
\* crashes, an open instance's name -> id and id -> name maps are inverse,
\* so no two names ever share an id.
THEOREM ServerBijection == ServerSpec => []TagBijection
<1>1. Init => IInv
    BY EmptyType DEF Init, IInv, TypeOK, TagBijection
<1>2. IInv /\ [ServerNext]_vars => IInv'
    BY BijectionStep
<1>3. IInv => TagBijection
    BY DEF IInv
<1>. QED  BY <1>1, <1>2, <1>3, PTL DEF ServerSpec


-----------------------------------------------------------------------------
(* Durability of the server's dictionary.                                  *)

\* The pairs of a file after one more Fprintf are its pairs and the new one.
LEMMA FilePairsAppend ==
    ASSUME NEW f \in Seq(Pair), NEW l
    PROVE  FilePairs(Append(f, l)) = FilePairs(f) \cup {l}
<1>1. ASSUME NEW x \in FilePairs(Append(f, l)) PROVE x \in FilePairs(f) \cup {l}
    <2>1. PICK k \in 1..Len(f) + 1 : x = Append(f, l)[k]
        BY DEF FilePairs
    <2>. QED  BY <2>1 DEF FilePairs
<1>2. ASSUME NEW x \in FilePairs(f) \cup {l} PROVE x \in FilePairs(Append(f, l))
    <2>1. CASE x = l
        <3>1. Len(f) + 1 \in 1..Len(Append(f, l)) /\ Append(f, l)[Len(f) + 1] = l
            OBVIOUS
        <3>. QED  BY <2>1, <3>1 DEF FilePairs
    <2>2. CASE x \in FilePairs(f)
        <3>1. PICK k \in 1..Len(f) : x = f[k]
            BY <2>2 DEF FilePairs
        <3>. QED  BY <3>1 DEF FilePairs
    <2>. QED  BY <2>1, <2>2
<1>. QED  BY <1>1, <1>2

\* A name the maps built from P do not hold is in no pair of P; likewise an
\* id.
LEMMA AbsentFromPairs ==
    ASSUME NEW P \in SUBSET Pair
    PROVE  /\ \A n \in AllNames : TagsOf(P)[n] = NoTag => \A p \in P : p[1] # n
           /\ \A i \in Ids : KeysOf(P)[i] = NoName => \A p \in P : p[2] # i
<1>1. ASSUME NEW n \in AllNames, TagsOf(P)[n] = NoTag, NEW p \in P, p[1] = n
      PROVE  FALSE
    <2>1. (CHOOSE q \in P : q[1] = n) \in P
        BY <1>1
    <2>. QED  BY <1>1, <2>1 DEF TagsOf, Pair, Ids, NoTag
<1>2. ASSUME NEW i \in Ids, KeysOf(P)[i] = NoName, NEW p \in P, p[2] = i
      PROVE  FALSE
    <2>1. (CHOOSE q \in P : q[2] = i) \in P
        BY <1>2
    <2>. QED  BY <1>2, <2>1, TagManAssumptions DEF KeysOf, Pair
<1>. QED  BY <1>1, <1>2

\* Adding a pair whose name and id are both new to a set of pairs adds
\* exactly that mapping to each of the two maps the set defines.
LEMMA AddPairMaps ==
    ASSUME NEW P \in SUBSET Pair, NEW n \in AllNames, NEW i \in Ids,
           \A p \in P : p[1] # n /\ p[2] # i
    PROVE  /\ TagsOf(P \cup {<<n, i>>}) = [TagsOf(P) EXCEPT ![n] = i]
           /\ KeysOf(P \cup {<<n, i>>}) = [KeysOf(P) EXCEPT ![i] = n]
<1>. DEFINE Q == P \cup {<<n, i>>}
<1>1. ASSUME NEW m \in AllNames PROVE TagsOf(Q)[m] = [TagsOf(P) EXCEPT ![n] = i][m]
    <2>1. CASE m = n
        <3>1. (CHOOSE q \in Q : q[1] = n) = <<n, i>>
            BY DEF Pair
        <3>. QED  BY <2>1, <3>1 DEF TagsOf
    <2>2. CASE m # n
        <3>1. \A q : (q \in Q /\ q[1] = m) <=> (q \in P /\ q[1] = m)
            BY <2>2
        <3>2. (CHOOSE q \in Q : q[1] = m) = (CHOOSE q \in P : q[1] = m)
            BY <3>1
        <3>. QED  BY <2>2, <3>1, <3>2 DEF TagsOf
    <2>. QED  BY <2>1, <2>2
<1>2. ASSUME NEW j \in Ids PROVE KeysOf(Q)[j] = [KeysOf(P) EXCEPT ![i] = n][j]
    <2>1. CASE j = i
        <3>1. (CHOOSE q \in Q : q[2] = i) = <<n, i>>
            BY DEF Pair
        <3>. QED  BY <2>1, <3>1 DEF KeysOf
    <2>2. CASE j # i
        <3>1. \A q : (q \in Q /\ q[2] = j) <=> (q \in P /\ q[2] = j)
            BY <2>2
        <3>2. (CHOOSE q \in Q : q[2] = j) = (CHOOSE q \in P : q[2] = j)
            BY <3>1
        <3>. QED  BY <2>2, <3>1, <3>2 DEF KeysOf
    <2>. QED  BY <2>1, <2>2
<1>. QED  BY <1>1, <1>2 DEF TagsOf, KeysOf

\* One more line whose name and id no line has keeps the lines distinct.
LEMMA DistinctAppend ==
    ASSUME NEW f \in Seq(Pair), DistinctLines(f), NEW n, NEW i,
           \A p \in FilePairs(f) : p[1] # n /\ p[2] # i
    PROVE  DistinctLines(Append(f, <<n, i>>))
<1>. DEFINE g == Append(f, <<n, i>>)
<1> SUFFICES ASSUME NEW j \in 1..Len(g), NEW k \in 1..Len(g), j # k
             PROVE  g[j][1] # g[k][1] /\ g[j][2] # g[k][2]
    BY DEF DistinctLines
<1>1. CASE j <= Len(f) /\ k <= Len(f)
    BY <1>1 DEF DistinctLines
<1>2. CASE j = Len(f) + 1
    <2>1. k \in 1..Len(f) /\ f[k] \in FilePairs(f)
        BY <1>2 DEF FilePairs
    <2>. QED  BY <1>2, <2>1
<1>3. CASE k = Len(f) + 1
    <2>1. j \in 1..Len(f) /\ f[j] \in FilePairs(f)
        BY <1>3 DEF FilePairs
    <2>. QED  BY <1>3, <2>1
<1>. QED  BY <1>1, <1>2, <1>3

\* New's seed lines: both written, they are the reserved pairs, distinct.
LEMMA SeedLines ==
    /\ SubSeq(Seed, 1, 2) = Seed
    /\ DistinctLines(Seed)
    /\ FilePairs(Seed) = ReservedPairs
<1>0. /\ Seed \in Seq(Pair) /\ Len(Seed) = 2
      /\ Seed[1] = <<DefaultTagName, DefaultTagId>>
      /\ Seed[2] = <<GravwellTagName, GravwellTagId>>
    BY DEF Seed, Pair, AllNames, ReservedNames, Ids, DefaultTagId, GravwellTagId
<1>1. SubSeq(Seed, 1, 2) = Seed
    <2>1. SubSeq(Seed, 1, 2) \in Seq(Pair) /\ Len(SubSeq(Seed, 1, 2)) = 2
          /\ \A k \in 1..2 : SubSeq(Seed, 1, 2)[k] = Seed[k]
        BY <1>0, SubSeqProperties
    <2>. QED  BY <1>0, <2>1, SeqEqual
<1>2. DistinctLines(Seed)
    <2> SUFFICES ASSUME NEW j \in 1..2, NEW k \in 1..2, j # k
                 PROVE  Seed[j][1] # Seed[k][1] /\ Seed[j][2] # Seed[k][2]
        BY <1>0 DEF DistinctLines
    <2>1. (j = 1 /\ k = 2) \/ (j = 2 /\ k = 1)
        OBVIOUS
    <2>. QED  BY <1>0, <2>1 DEF DefaultTagId, GravwellTagId
<1>3. FilePairs(Seed) = ReservedPairs
    <2>1. 1..Len(Seed) = {1, 2}
        BY <1>0
    <2>. QED  BY <2>1 DEF FilePairs, ReservedPairs
<1>. QED  BY <1>1, <1>2, <1>3

\* The inductive invariant of durability: the type invariant and the
\* mirror.
MInv == TypeOK /\ FileMirrorsMemory

\* When every write to tags.dat succeeds, New, Merge, Close and a crash
\* keep the file a faithful copy of an open instance's maps.
LEMMA MirrorStep ==
    ASSUME ~WriteFaults, MInv, [ServerNext]_vars
    PROVE  MInv'
<1>1. TypeOK'
    BY TypeStep DEF MInv, Next, ServerNext, vars
<1>2. CASE NewCreate
    <2>1. file' = Seed /\ Opened(TagsOf(ReservedPairs), KeysOf(ReservedPairs))
        BY <1>2, SeedLines DEF NewCreate, WritesDone
    <2>2. ReservedPairs \cup ReservedPairs = ReservedPairs
        OBVIOUS
    <2>. QED  BY <1>1, <2>1, <2>2, SeedLines
              DEF MInv, FileMirrorsMemory, Opened, LoadedTags, LoadedKeys
<1>3. CASE NewOpen
    BY <1>1, <1>3 DEF NewOpen, Opened, loadOK, MInv, FileMirrorsMemory
<1>4. ASSUME NEW l \in TagLists, Merge(l) PROVE MInv'
    BY <1>1, <1>4 DEF Merge, MInv, FileMirrorsMemory
<1>5. CASE MergeStep
    <2>. DEFINE n == Head(pending)[1]
                i == Head(pending)[2]
                P == FilePairs(file) \cup ReservedPairs
    <2>1. n \in AllNames /\ i \in Ids /\ active' = active
        BY <1>5, HeadType DEF MergeStep, MInv, Pair
    <2>2. CASE UNCHANGED <<file, tags, tagKeys>>
        BY <1>1, <2>1, <2>2 DEF MInv, FileMirrorsMemory
    <2>3. CASE ~UNCHANGED <<file, tags, tagKeys>> /\ active
        <3>1. /\ tagKeys[i] = NoName
              /\ tags[n] = NoTag
              /\ tags' = [tags EXCEPT ![n] = i]
              /\ tagKeys' = [tagKeys EXCEPT ![i] = n]
              /\ file' = Append(file, <<n, i>>)
            <4>1. /\ ~(tagKeys[i] \notin {NoName, n} \/ tags[n] \notin {NoTag, i})
                  /\ ~(tagKeys[i] = n \/ tags[n] = i)
                  /\ \E ok \in BOOLEAN : assignTag(n, i, ok)
                BY <1>5, <2>3 DEF MergeStep
            <4>2. /\ tags' = [tags EXCEPT ![n] = i]
                  /\ tagKeys' = [tagKeys EXCEPT ![i] = n]
                  /\ file' = Append(file, <<n, i>>)
                BY <2>3, <4>1 DEF assignTag, WritesDone, AppendLine
            <4>. QED  BY <4>1, <4>2
        <3>2. P \in SUBSET Pair /\ tags = TagsOf(P) /\ tagKeys = KeysOf(P)
              /\ DistinctLines(file) /\ file \in Seq(Pair)
            BY <2>3, LinesType DEF MInv, TypeOK, FileMirrorsMemory, LoadedTags, LoadedKeys
        <3>3. \A p \in P : p[1] # n /\ p[2] # i
            BY <2>1, <3>1, <3>2, AbsentFromPairs
        <3>4. FilePairs(file') \cup ReservedPairs = P \cup {<<n, i>>}
            BY <3>1, <3>2, FilePairsAppend
        <3>5. DistinctLines(file')
            BY <3>1, <3>2, <3>3, DistinctAppend
        <3>6. LoadedTags(file') = tags' /\ LoadedKeys(file') = tagKeys'
            <4>1. /\ TagsOf(P \cup {<<n, i>>}) = [TagsOf(P) EXCEPT ![n] = i]
                  /\ KeysOf(P \cup {<<n, i>>}) = [KeysOf(P) EXCEPT ![i] = n]
                BY <2>1, <3>2, <3>3, AddPairMaps
            <4>. QED  BY <3>1, <3>2, <3>4, <4>1 DEF LoadedTags, LoadedKeys
        <3>. QED  BY <1>1, <3>5, <3>6 DEF MInv, FileMirrorsMemory
    <2>4. CASE ~active
        BY <1>1, <2>1, <2>4 DEF MInv, FileMirrorsMemory
    <2>. QED  BY <2>2, <2>3, <2>4
<1>6. CASE Close \/ Crash
    BY <1>1, <1>6 DEF Close, Crash, Discarded, MInv, FileMirrorsMemory
<1>7. CASE UNCHANGED vars
    BY <1>1, <1>7 DEF vars, MInv, FileMirrorsMemory, LoadedTags, LoadedKeys
<1>. QED  BY <1>2, <1>3, <1>4, <1>5, <1>6, <1>7 DEF ServerNext

\* Durability on the server's path: when writes to tags.dat succeed,
\* through any sequence of New, Merge, Close and crashes, an open
\* instance's lines are distinct and reloading tags.dat with loadTags
\* yields exactly its two maps, so an id Merge handed out survives Close
\* and a restart.
THEOREM ServerFileMirrors ==
    ASSUME ~WriteFaults
    PROVE  ServerSpec => []FileMirrorsMemory
<1>1. Init => MInv
    BY EmptyType DEF Init, MInv, TypeOK, FileMirrorsMemory
<1>2. MInv /\ [ServerNext]_vars => MInv'
    BY MirrorStep
<1>3. MInv => FileMirrorsMemory
    BY DEF MInv
<1>. QED  BY <1>1, <1>2, <1>3, PTL DEF ServerSpec
=============================================================================
