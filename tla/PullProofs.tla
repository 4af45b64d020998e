----------------------------- MODULE PullProofs -----------------------------
(***************************************************************************)
(* Proof that a pull PullShard reports good left the client's directory    *)
(* with exactly the stored shard's files (PullAgree), for every shard,     *)
(* pipe depth and fault setting.  The codec's inductive invariant RTInv    *)
(* survives every step of the pull: the handler's select closes the pipe   *)
(* with an error, a read on a dead connection fails Unpack.  A good        *)
(* result is Unpack's good result, which needs the pipe's clean EOF, which *)
(* only the producer's good Close gives.                                   *)
(***************************************************************************)
EXTENDS ShardPull, RoundTripProofs, TLAPS

USE ShardCodecAssumptions

\* A good result of PullShard is Unpack's good result, and Unpack succeeds
\* only on the clean end of the pipe, which stays.
PullChain ==
    /\ ures = "ok" => wEnd = "eof"
    /\ cerr = "ok" => ures = "ok"

\* The inductive invariant of PullAgree.
PullInv == RTInv /\ PresSettled /\ RawQuiet /\ PullChain

LEMMA PullInvInit ==
    ASSUME PullInit
    PROVE  PullInv
BY RTInvInit DEF PullInit, PullInv, PresSettled, RawQuiet, PullChain, CodecInit,
                 PackerInit

\* Every step of the pull keeps the codec's invariant.
LEMMA PullRTStep ==
    ASSUME RTInv, [PullNext]_allVars
    PROVE  RTInv'
<1>1. CASE SrvAdd \/ ClientUnpack
    BY <1>1, RTInvStep DEF SrvAdd, ClientUnpack, CodecNext
<1>2. CASE SrvSelect
    <2>1. CASE UNCHANGED wEnd
        BY <1>2, <2>1, RTInvFrame DEF SrvSelect, codecVars
    <2>2. CASE CloseWithError
        BY <1>2, <2>2, CancelKeeps DEF SrvSelect
    <2> QED
        BY <1>2, <2>1, <2>2 DEF SrvSelect
<1>3. CASE ClientReadFail
    BY <1>3, ReadFailKeeps DEF ClientReadFail
<1>4. CASE \/ SrvStart \/ CopyHeader \/ CopyEnd \/ SrvDrain \/ SrvRespond
           \/ SrvClose \/ SrvTimerFire \/ SrvHijack \/ ClientRequest
           \/ ClientResult \/ ClientTimeout \/ ClientWait \/ ClientVanish
           \/ UNCHANGED allVars
    BY <1>4, RTInvFrame DEF SrvStart, CopyHeader, CopyEnd, SrvDrain, SrvRespond,
       SrvClose, SrvTimerFire, SrvHijack, ClientRequest, ClientResult,
       ClientTimeout, ClientWait, ClientVanish, allVars
<1> QED
    BY <1>1, <1>2, <1>3, <1>4 DEF PullNext, ServerNext, ClientNext

\* Every step of the pull keeps PresSettled and RawQuiet.
LEMMA PullSettledStep ==
    ASSUME PresSettled, RawQuiet, [PullNext]_allVars
    PROVE  PresSettled' /\ RawQuiet'
<1>1. CASE SrvAdd
    BY <1>1, SettledStep DEF SrvAdd
<1>2. CASE SrvSelect
    BY <1>2, SettledStep DEF SrvSelect, packVars
<1>3. CASE \/ ClientUnpack \/ ClientReadFail
           \/ SrvStart \/ CopyHeader \/ CopyEnd \/ SrvDrain \/ SrvRespond
           \/ SrvClose \/ SrvTimerFire \/ SrvHijack \/ ClientRequest
           \/ ClientResult \/ ClientTimeout \/ ClientWait \/ ClientVanish
           \/ UNCHANGED allVars
    BY <1>3, SettledStep DEF ClientUnpack, UnpackStep, ClientReadFail, SrvStart,
       CopyHeader, CopyEnd, SrvDrain, SrvRespond, SrvClose, SrvTimerFire,
       SrvHijack, ClientRequest, ClientResult, ClientTimeout, ClientWait,
       ClientVanish, allVars, codecVars, packVars
<1> QED
    BY <1>1, <1>2, <1>3 DEF PullNext, ServerNext, ClientNext

\* Every step of the pull keeps PullChain: Unpack's result is set once,
\* to "ok" only at a clean end; the clean end stays; PullShard's result
\* is Unpack's or an error.
LEMMA PullChainStep ==
    ASSUME PullInv, [PullNext]_allVars
    PROVE  PullChain'
<1>1. CASE SrvAdd
    <2>1. wEnd = "eof" => wEnd' = "eof"
        BY <1>1, EofStays DEF SrvAdd
    <2>2. ures' = ures /\ cerr' = cerr
        BY <1>1 DEF SrvAdd, ProduceStep, unpackVars, pullVars, clientVars
    <2> QED
        BY <2>1, <2>2 DEF PullChain, PullInv
<1>2. CASE SrvSelect
    BY <1>2 DEF SrvSelect, CloseWithError, unpackVars, clientVars, PullChain, PullInv
<1>3. CASE ClientUnpack
    <2>1. ASSUME NEW e PROVE ReadEntry(e) => ures' \in {"none", "err"}
        BY DEF ReadEntry, updateTags, HandleFile
    <2>2. /\ ures = "none" /\ wEnd' = wEnd /\ cerr' = cerr
          /\ ures' = "ok" => wEnd = "eof"
        BY <1>3, <2>1 DEF ClientUnpack, UnpackStep, pullVars, clientVars
    <2> QED
        BY <2>2 DEF PullChain, PullInv
<1>4. CASE ClientReadFail
    BY <1>4 DEF ClientReadFail, pullVars, clientVars, PullChain, PullInv
<1>5. CASE ClientRequest \/ ClientResult \/ ClientTimeout \/ ClientWait
    BY <1>5 DEF ClientRequest, ClientResult, ClientTimeout, ClientWait,
       codecVars, unpackVars, PullChain, PullInv
<1>6. CASE \/ SrvStart \/ CopyHeader \/ CopyEnd \/ SrvDrain \/ SrvRespond
           \/ SrvClose \/ SrvTimerFire \/ SrvHijack \/ ClientVanish
           \/ UNCHANGED allVars
    BY <1>6 DEF SrvStart, CopyHeader, CopyEnd, SrvDrain, SrvRespond, SrvClose,
       SrvTimerFire, SrvHijack, ClientVanish, allVars, codecVars, unpackVars,
       pullVars, clientVars, PullChain, PullInv
<1> QED
    BY <1>1, <1>2, <1>3, <1>4, <1>5, <1>6 DEF PullNext, ServerNext, ClientNext

LEMMA PullInvStep ==
    ASSUME PullInv, [PullNext]_allVars
    PROVE  PullInv'
BY PullRTStep, PullSettledStep, PullChainStep DEF PullInv

\* PullAgree (spec scenario S2): a pull PullShard reports good left the
\* client's directory with exactly the stored shard's files, each whole,
\* for every shard, pipe depth and fault setting, whichever server
\* goroutine failed first and whichever timer fired.
THEOREM PullAgreeHolds == PullSpec => []PullAgree
<1>1. PullInv => PullAgree
    <2> SUFFICES ASSUME PullInv, cpc = "done", cerr = "ok"
                 PROVE  stored = {[path |-> Filepath(t, ShardId), whole |-> TRUE] : t \in SentTypes}
        BY DEF PullAgree
    <2>1. ures = "ok" /\ wEnd = "eof" /\ ~RawClient
        BY DEF PullInv, PullChain, RawQuiet
    <2> QED
        BY <2>1, Delivered DEF PullInv
<1> QED
    BY <1>1, PullInvInit, PullInvStep, PTL DEF PullSpec

-----------------------------------------------------------------------------
(* Type correctness of the pull.                                           *)

\* The conjuncts of PullTypeOK about the pull's own variables.
PullLocalOK ==
    /\ gone \in BOOLEAN /\ ctake \in BOOLEAN /\ stake \in BOOLEAN
    /\ claimed \in BOOLEAN /\ panicked \in BOOLEAN
    /\ cpc \in {"request", "loop", "wait", "done"}
    /\ cerr \in {"none", "ok", "err"} /\ sres \in {"none", "ok", "err"}
    /\ copyRes \in {"none", "ok", "err"}
    /\ conn \in {"open", "closed"} /\ hdr \in {"none", "200", "500"}
    /\ spc \in {"start", "pack", "drain", "respond", "closing", "done"}
    /\ swait \in {"add", "copy"}
    /\ wtmr \in {"off", "armed", "firing", "fired", "stopped"}

LEMMA PullTypeSplit ==
    /\ PullTypeOK <=> CodecTypeOK /\ PullLocalOK
    /\ PullTypeOK' <=> CodecTypeOK' /\ PullLocalOK'
BY DEF PullTypeOK, PullLocalOK

LEMMA PullLocalStep ==
    ASSUME CodecTypeOK, PullLocalOK, [PullNext]_allVars
    PROVE  PullLocalOK'
<1>1. CASE SrvAdd \/ ClientUnpack \/ ClientReadFail \/ UNCHANGED allVars
    <2>1. UNCHANGED pullVars
        BY <1>1 DEF SrvAdd, ClientUnpack, ClientReadFail, allVars
    <2> QED
        BY <2>1 DEF pullVars, clientVars, srvVars, PullLocalOK
<1>2. CASE SrvStart
    <2>1. /\ claimed' \in BOOLEAN
          /\ spc' \in {"pack", "respond"}
          /\ sres' \in {"none", "ok", "err"}
        BY <1>2 DEF SrvStart, PullLocalOK
    <2>2. UNCHANGED <<clientVars, conn, hdr, copyRes, swait, stake, panicked>>
        BY <1>2 DEF SrvStart
    <2> QED
        BY <1>2, <2>1, <2>2 DEF SrvStart, PullLocalOK, clientVars
<1>3. CASE CopyHeader
    BY <1>3 DEF CopyHeader, PullLocalOK, clientVars, srvVars
<1>4. CASE CopyEnd
    BY <1>4 DEF CopyEnd, PullLocalOK, clientVars
<1>5. CASE SrvSelect
    <2>1. stake' \in BOOLEAN
        BY <1>5 DEF SrvSelect
    <2> QED
        BY <1>5, <2>1 DEF SrvSelect, PullLocalOK, clientVars
<1>6. CASE SrvDrain
    <2>1. sres' \in {"none", "ok", "err"}
        BY <1>6 DEF SrvDrain, PullLocalOK, CodecTypeOK
    <2>2. claimed' \in BOOLEAN
        BY <1>6 DEF SrvDrain
    <2> QED
        BY <1>6, <2>1, <2>2 DEF SrvDrain, PullLocalOK, clientVars
<1>7. CASE SrvRespond
    BY <1>7 DEF SrvRespond, PullLocalOK, clientVars
<1>8. CASE SrvClose
    BY <1>8 DEF SrvClose, PullLocalOK, clientVars
<1>9. CASE SrvTimerFire
    BY <1>9 DEF SrvTimerFire, PullLocalOK, clientVars
<1>10. CASE SrvHijack
    <2>1. panicked' \in BOOLEAN
        BY <1>10 DEF SrvHijack
    <2> QED
        BY <1>10, <2>1 DEF SrvHijack, PullLocalOK, clientVars
<1>11. CASE ClientRequest
    BY <1>11 DEF ClientRequest, PullLocalOK, srvVars
<1>12. CASE ClientResult
    <2>1. cerr' \in {"none", "ok", "err"}
        BY <1>12 DEF ClientResult, CodecTypeOK
    <2> QED
        BY <1>12, <2>1 DEF ClientResult, PullLocalOK, srvVars
<1>13. CASE ClientTimeout
    <2>1. ctake' \in BOOLEAN /\ cerr' \in {"none", "ok", "err"}
        BY <1>13 DEF ClientTimeout, PullLocalOK
    <2>2. UNCHANGED <<gone, hdr, srvVars>>
        BY <1>13 DEF ClientTimeout
    <2> QED
        BY <1>13, <2>1, <2>2 DEF ClientTimeout, PullLocalOK, srvVars
<1>14. CASE ClientWait
    <2>1. cerr' \in {"none", "ok", "err"}
        BY <1>14 DEF ClientWait, PullLocalOK, CodecTypeOK
    <2> QED
        BY <1>14, <2>1 DEF ClientWait, PullLocalOK, srvVars
<1>15. CASE ClientVanish
    BY <1>15 DEF ClientVanish, PullLocalOK, srvVars
<1> QED
    BY <1>1, <1>2, <1>3, <1>4, <1>5, <1>6, <1>7, <1>8, <1>9, <1>10, <1>11,
       <1>12, <1>13, <1>14, <1>15 DEF PullNext, ServerNext, ClientNext

LEMMA PullCodecTypeStep ==
    ASSUME CodecTypeOK, [PullNext]_allVars
    PROVE  CodecTypeOK'
<1>1. CASE SrvAdd \/ ClientUnpack
    BY <1>1, CodecTypeStep DEF SrvAdd, ClientUnpack, CodecNext
<1>2. CASE SrvSelect
    <2>1. wEnd' \in {wEnd, "err"}
        BY <1>2 DEF SrvSelect, CloseWithError
    <2>2. UNCHANGED <<hits, pres, stream, uhits, merges, ures>>
        BY <1>2 DEF SrvSelect, packVars, unpackVars
    <2> QED
        BY <2>1, <2>2, CodecTypeFrame
<1>3. CASE ClientReadFail
    BY <1>3, CodecTypeFrame DEF ClientReadFail, packVars
<1>4. CASE \/ SrvStart \/ CopyHeader \/ CopyEnd \/ SrvDrain \/ SrvRespond
           \/ SrvClose \/ SrvTimerFire \/ SrvHijack \/ ClientRequest
           \/ ClientResult \/ ClientTimeout \/ ClientWait \/ ClientVanish
           \/ UNCHANGED allVars
    BY <1>4, CodecTypeFrame DEF SrvStart, CopyHeader, CopyEnd, SrvDrain,
       SrvRespond, SrvClose, SrvTimerFire, SrvHijack, ClientRequest,
       ClientResult, ClientTimeout, ClientWait, ClientVanish, allVars,
       codecVars, packVars, unpackVars
<1> QED
    BY <1>1, <1>2, <1>3, <1>4 DEF PullNext, ServerNext, ClientNext

\* PullTypeOK: every variable of the pull -- the codec's, both ends' and the
\* connection's -- keeps its type through every step of PullShard and
\* shardPullHandler, for every shard, pipe depth and fault setting.
THEOREM PullTypeCorrect == PullSpec => []PullTypeOK
<1>1. PullInit => PullTypeOK
    BY CodecTypeInit DEF PullInit, PullTypeOK
<1>2. PullTypeOK /\ [PullNext]_allVars => PullTypeOK'
    BY PullTypeSplit, PullLocalStep, PullCodecTypeStep
<1> QED
    BY <1>1, <1>2, PTL DEF PullSpec

====
