----------------------------- MODULE PushProofs -----------------------------
(***************************************************************************)
(* Proof that a push PushShard reports good is on the server with the      *)
(* source shard's files (PushAgree), for every shard, pipe depth and       *)
(* fault setting.  The codec's inductive invariant RTInv survives every    *)
(* step of the push: the client's cancellations close the pipe with an     *)
(* error, a failed read fails Unpack, and UnpackShard keeps the files only *)
(* after a good Unpack.  On top of it, Chain follows a good result back    *)
(* through the client's channels to the server's 200 and its commit.       *)
(***************************************************************************)
EXTENDS ShardPush, RoundTripProofs, TLAPS

USE ShardCodecAssumptions

\* How a good result of PushShard came about: it took the request's answer
\* after a good pack, or the pack's after a good answer; a good answer is
\* the server's 200, sent only for a committed Unpack that succeeded.
Chain ==
    /\ ctake = "req" => pres = "ok"
    /\ ctake = "pack" => reqRes = "ok"
    /\ cerr = "ok" => cpc = "done" /\ pres = "ok" /\ reqRes = "ok"
    /\ reqRes = "ok" => resp = "200"
    /\ resp = "200" => committed
    /\ committed => ures = "ok"

\* The inductive invariant of PushAgree.
PushInv == RTInv /\ PresSettled /\ RawQuiet /\ Chain

LEMMA PushInvInit ==
    ASSUME PushInit
    PROVE  PushInv
BY RTInvInit DEF PushInit, PushInv, PresSettled, RawQuiet, Chain, CodecInit,
                 PackerInit

\* Every step of the push keeps the codec's invariant.
LEMMA PushRTStep ==
    ASSUME RTInv, [PushNext]_allVars
    PROVE  RTInv'
<1>1. CASE ClientPack \/ SrvUnpack
    BY <1>1, RTInvStep DEF ClientPack, SrvUnpack, CodecNext
<1>2. CASE ReqReport
    <2>1. CASE reqRes = "ok"
        BY <1>2, <2>1, RTInvFrame DEF ReqReport, codecVars
    <2>2. CASE reqRes # "ok"
        BY <1>2, <2>2, CancelKeeps DEF ReqReport
    <2> QED
        BY <2>1, <2>2
<1>3. CASE ClientTimeout
    BY <1>3, CancelKeeps DEF ClientTimeout
<1>4. CASE SrvReadFail
    BY <1>4, ReadFailKeeps DEF SrvReadFail
<1>5. CASE SrvFinish
    BY <1>5, FinishKeeps DEF SrvFinish
<1>6. CASE \/ ReqReturn \/ PackReport \/ ClientWait \/ ClientVanish
           \/ SrvStart \/ SrvRespond \/ SrvClose \/ SrvTimerFire \/ SrvHijack
           \/ UNCHANGED allVars
    BY <1>6, RTInvFrame DEF ReqReturn, PackReport, ClientWait, ClientVanish,
       SrvStart, SrvRespond, SrvClose, SrvTimerFire, SrvHijack, allVars
<1> QED
    BY <1>1, <1>2, <1>3, <1>4, <1>5, <1>6 DEF PushNext, ClientNext, ServerNext

\* Every step of the push keeps PresSettled and RawQuiet.
LEMMA PushSettledStep ==
    ASSUME PresSettled, RawQuiet, [PushNext]_allVars
    PROVE  PresSettled' /\ RawQuiet'
<1>1. CASE ClientPack
    BY <1>1, SettledStep DEF ClientPack
<1>2. CASE ReqReport \/ ClientTimeout
    BY <1>2, SettledStep DEF ReqReport, ClientTimeout, packVars
<1>3. CASE \/ SrvUnpack \/ ReqReturn \/ PackReport \/ ClientWait \/ ClientVanish
           \/ SrvStart \/ SrvReadFail \/ SrvFinish \/ SrvRespond \/ SrvClose
           \/ SrvTimerFire \/ SrvHijack \/ UNCHANGED allVars
    BY <1>3, SettledStep DEF SrvUnpack, UnpackStep, ReqReturn, PackReport,
       ClientWait, ClientVanish, SrvStart, SrvReadFail, SrvFinish, SrvRespond,
       SrvClose, SrvTimerFire, SrvHijack, allVars, codecVars, packVars
<1> QED
    BY <1>1, <1>2, <1>3 DEF PushNext, ClientNext, ServerNext

\* Every step of the push keeps Chain.  The pack's report cannot change
\* under a taken answer (PresSettled), the answer is the response, the
\* response is the commit, and the commit is a good Unpack that no later
\* step of the server undoes.
LEMMA ChainStep ==
    ASSUME PushInv, [PushNext]_allVars
    PROVE  Chain'
<1>1. CASE ClientPack
    <2>1. ppc # "done"
        BY <1>1, ProduceSettles DEF ClientPack
    <2>2. pres = "none"
        BY <2>1 DEF PushInv, PresSettled
    <2>3. ctake # "req" /\ cerr # "ok"
        BY <2>2 DEF PushInv, Chain
    <2> QED
        BY <1>1, <2>3 DEF ClientPack, ProduceStep, pushVars, unpackVars, Chain, PushInv
<1>2. CASE SrvUnpack
    BY <1>2 DEF SrvUnpack, UnpackStep, pushVars, packVars, Chain, PushInv
<1>3. CASE ReqReturn
    BY <1>3 DEF ReqReturn, codecVars, packVars, unpackVars, Chain, PushInv
<1>4. CASE PackReport
    BY <1>4 DEF PackReport, codecVars, packVars, unpackVars, Chain, PushInv
<1>5. CASE ReqReport
    BY <1>5 DEF ReqReport, packVars, unpackVars, Chain, PushInv
<1>6. CASE ClientTimeout
    BY <1>6 DEF ClientTimeout, packVars, unpackVars, Chain, PushInv
<1>7. CASE ClientWait
    <2>1. cpc = "wait" /\ cpc' = "done"
        BY <1>7 DEF ClientWait
    <2>2. UNCHANGED <<pres, ures, ctake, reqRes, resp, committed>>
        BY <1>7 DEF ClientWait, codecVars, packVars, unpackVars
    <2>3. CASE ctake = "req"
        BY <1>7, <2>2, <2>3 DEF ClientWait, Chain, PushInv
    <2>4. CASE ctake = "pack"
        BY <1>7, <2>2, <2>4 DEF ClientWait, Chain, PushInv
    <2>5. CASE ctake # "req" /\ ctake # "pack"
        <3>1. cerr' = cerr /\ cerr # "ok"
            BY <1>7, <2>1, <2>5 DEF ClientWait, Chain, PushInv
        <3> QED
            BY <2>2, <3>1 DEF Chain, PushInv
    <2> QED
        BY <2>3, <2>4, <2>5
<1>8. CASE SrvReadFail
    BY <1>8 DEF SrvReadFail, packVars, pushVars, Chain, PushInv
<1>9. CASE SrvFinish
    BY <1>9 DEF SrvFinish, packVars, Chain, PushInv
<1>10. CASE SrvRespond
    BY <1>10 DEF SrvRespond, codecVars, packVars, unpackVars, Chain, PushInv
<1>11. CASE \/ ClientVanish \/ SrvStart \/ SrvClose \/ SrvTimerFire \/ SrvHijack
            \/ UNCHANGED allVars
    BY <1>11 DEF ClientVanish, SrvStart, SrvClose, SrvTimerFire, SrvHijack,
       allVars, codecVars, packVars, unpackVars, pushVars, Chain, PushInv
<1> QED
    BY <1>1, <1>2, <1>3, <1>4, <1>5, <1>6, <1>7, <1>8, <1>9, <1>10, <1>11
       DEF PushNext, ClientNext, ServerNext

LEMMA PushInvStep ==
    ASSUME PushInv, [PushNext]_allVars
    PROVE  PushInv'
BY PushRTStep, PushSettledStep, ChainStep DEF PushInv

\* PushAgree (spec property 1 over the network): a push PushShard reports
\* good is committed on the server with exactly the source shard's files,
\* each whole, for every shard, pipe depth and fault setting, whatever the
\* timers, the merge failures and the two goroutines' error paths did.
THEOREM PushAgreeHolds == PushSpec => []PushAgree
<1>1. PushInv => PushAgree
    <2> SUFFICES ASSUME PushInv, cpc = "done", cerr = "ok"
                 PROVE  committed /\ stored = {[path |-> Filepath(t, ShardId), whole |-> TRUE] : t \in SentTypes}
        BY DEF PushAgree
    <2>1. pres = "ok" /\ committed /\ ures = "ok" /\ ~RawClient
        BY DEF PushInv, Chain, RawQuiet
    <2> QED
        BY <2>1, Delivered DEF PushInv
<1> QED
    BY <1>1, PushInvInit, PushInvStep, PTL DEF PushSpec

-----------------------------------------------------------------------------
(* Type correctness of the push.                                           *)

\* The conjuncts of PushTypeOK about the push's own variables.
PushLocalOK ==
    /\ gone \in BOOLEAN /\ claimed \in BOOLEAN
    /\ committed \in BOOLEAN /\ panicked \in BOOLEAN
    /\ cpc \in {"loop", "wait", "done"}
    /\ cwait \subseteq {"pack", "req"}
    /\ ctake \in {"req", "pack", "none"}
    /\ cerr \in {"none", "ok", "err"} /\ reqRes \in {"none", "ok", "err"}
    /\ conn \in {"open", "closed"}
    /\ resp \in {"none", "200", "500"}
    /\ spc \in {"start", "unpack", "respond", "closing", "done"}
    /\ stmr \in {"off", "armed", "firing", "fired", "stopped"}

LEMMA PushTypeSplit ==
    /\ PushTypeOK <=> CodecTypeOK /\ PushLocalOK
    /\ PushTypeOK' <=> CodecTypeOK' /\ PushLocalOK'
BY DEF PushTypeOK, PushLocalOK

LEMMA PushLocalStep ==
    ASSUME CodecTypeOK, PushLocalOK, [PushNext]_allVars
    PROVE  PushLocalOK'
<1>1. CASE ClientPack \/ SrvUnpack \/ SrvReadFail \/ UNCHANGED allVars
    <2>1. UNCHANGED pushVars
        BY <1>1 DEF ClientPack, SrvUnpack, SrvReadFail, allVars
    <2> QED
        BY <2>1 DEF pushVars, PushLocalOK
<1>2. CASE ReqReturn
    BY <1>2 DEF ReqReturn, PushLocalOK
<1>3. CASE PackReport
    BY <1>3 DEF PackReport, PushLocalOK
<1>4. CASE ReqReport
    BY <1>4 DEF ReqReport, PushLocalOK
<1>5. CASE ClientTimeout
    BY <1>5 DEF ClientTimeout, PushLocalOK
<1>6. CASE ClientWait
    <2>1. cerr' \in {"none", "ok", "err"}
        BY <1>6 DEF ClientWait, PushLocalOK, CodecTypeOK
    <2> QED
        BY <1>6, <2>1 DEF ClientWait, PushLocalOK
<1>7. CASE ClientVanish
    BY <1>7 DEF ClientVanish, PushLocalOK
<1>8. CASE SrvStart
    BY <1>8 DEF SrvStart, PushLocalOK
<1>9. CASE SrvFinish
    <2>1. committed' \in BOOLEAN /\ claimed' \in BOOLEAN
        BY <1>9 DEF SrvFinish
    <2> QED
        BY <1>9, <2>1 DEF SrvFinish, PushLocalOK
<1>10. CASE SrvRespond
    BY <1>10 DEF SrvRespond, PushLocalOK
<1>11. CASE SrvClose
    BY <1>11 DEF SrvClose, PushLocalOK
<1>12. CASE SrvTimerFire
    BY <1>12 DEF SrvTimerFire, PushLocalOK
<1>13. CASE SrvHijack
    <2>1. panicked' \in BOOLEAN
        BY <1>13 DEF SrvHijack
    <2> QED
        BY <1>13, <2>1 DEF SrvHijack, PushLocalOK
<1> QED
    BY <1>1, <1>2, <1>3, <1>4, <1>5, <1>6, <1>7, <1>8, <1>9, <1>10, <1>11,
       <1>12, <1>13 DEF PushNext, ClientNext, ServerNext

LEMMA PushCodecTypeStep ==
    ASSUME CodecTypeOK, [PushNext]_allVars
    PROVE  CodecTypeOK'
<1>1. CASE ClientPack \/ SrvUnpack
    BY <1>1, CodecTypeStep DEF ClientPack, SrvUnpack, CodecNext
<1>2. CASE \/ ReqReturn \/ PackReport \/ ReqReport \/ ClientTimeout \/ ClientWait
           \/ ClientVanish \/ SrvStart \/ SrvReadFail \/ SrvFinish \/ SrvRespond
           \/ SrvClose \/ SrvTimerFire \/ SrvHijack \/ UNCHANGED allVars
    BY <1>2, CodecTypeFrame DEF ReqReturn, PackReport, ReqReport,
       ClientTimeout, ClientWait, ClientVanish, SrvStart, SrvReadFail, SrvFinish,
       SrvRespond, SrvClose, SrvTimerFire, SrvHijack, allVars, CloseWithError,
       codecVars, packVars, unpackVars
<1> QED
    BY <1>1, <1>2 DEF PushNext, ClientNext, ServerNext

\* A push stays typed for every pipe depth: the codec's type, and each
\* goroutine's place and result in its own set.
THEOREM PushTypeCorrect == PushSpec => []PushTypeOK
<1>1. PushInit => PushTypeOK
    BY CodecTypeInit DEF PushInit, PushTypeOK
<1>2. PushTypeOK /\ [PushNext]_allVars => PushTypeOK'
    BY PushTypeSplit, PushLocalStep, PushCodecTypeStep
<1> QED
    BY <1>1, <1>2, PTL DEF PushSpec

====
