------------------------------ MODULE ShardPush ------------------------------
(***************************************************************************)
(* One shard push end to end: the client's PushShard                       *)
(* (src/pkg/client/client.go 322-396) with its pack goroutine              *)
(* (asyncPackShard, the producer of ShardCodec) and its request goroutine  *)
(* (asyncPushShard), and the server's shardPushHandler                     *)
(* (src/unnamed/part_013 235-277) with the idle-timeout reader             *)
(* (src/pkg/webserver/readerWriter.go 18-89) around filestore UnpackShard  *)
(* (src/unnamed/part_005 147-205), whose Unpack is the consumer of         *)
(* ShardCodec.                                                             *)
(*                                                                         *)
(* Time is not modelled: any step may take arbitrarily long, so either     *)
(* timer may fire whenever it is armed.  Resetting a timer on progress     *)
(* (readTicker's tick, rateTimeoutReader.Read's Reset) changes how long    *)
(* until it fires, not whether it may, and is left out.  The connection    *)
(* carries the pipe's entries; once it is closed the server's reads fail   *)
(* and the client's transport stops draining the pipe.  The client process *)
(* may vanish without a TCP teardown, leaving the connection open.         *)
(***************************************************************************)
EXTENDS ShardCodec

VARIABLES
    gone,      \* the client process has vanished
    cpc,       \* PushShard: "loop" (the select), "wait" (draining), "done"
    cwait,     \* the channels PushShard still receives from: "pack", "req"
    ctake,     \* the channel whose value becomes PushShard's result, or "none"
    cerr,      \* PushShard's result so far: "none", "ok", "err"
    reqRes,    \* the value asyncPushShard sent on reqRespChan, or "none"
    conn,      \* the TCP connection: "open" or "closed"
    resp,      \* the response the server delivered: "none", "200", "500"
    spc,       \* the handler: "start", "unpack", "respond", "closing", "done"
    stmr,      \* the reader's idle timer: "off", "armed", "firing", "fired", "stopped"
    claimed,   \* the upload id is in the UploadTracker
    committed, \* UnpackShard kept the shard directory
    panicked   \* Hijack was called after the handler returned (net/http panics)

pushVars == <<gone, cpc, cwait, ctake, cerr, reqRes, conn, resp, spc, stmr,
              claimed, committed, panicked>>
allVars == <<codecVars, pushVars>>

\* A channel holds its goroutine's value.
Filled(ch) == IF ch = "pack" THEN pres # "none" ELSE reqRes # "none"

\* rtr.err is set: the timer's goroutine has started.
TimedOut == stmr \in {"firing", "fired"}

-----------------------------------------------------------------------------
(* The client.                                                             *)

\* The pack goroutine runs AddTags, AddWellTags, AddShardFilesToPacker and
\* Close into the packer (ShardCodec's producer).
ClientPack ==
    /\ ~gone
    /\ ProduceStep
    /\ UNCHANGED pushVars

\* asyncPushShard: the request returns when the server's response arrives
\* (200 is success, anything else an error) or the connection dies.
ReqReturn ==
    /\ ~gone
    /\ reqRes = "none"
    /\ resp # "none" \/ conn = "closed"
    /\ reqRes' = IF resp = "200" THEN "ok" ELSE "err"
    /\ UNCHANGED <<codecVars, gone, cpc, cwait, ctake, cerr, conn, resp, spc,
                   stmr, claimed, committed, panicked>>

\* Mutant of PackReport: a good pack is returned without waiting for the
\* request's answer.
PackReportNoWait ==
    /\ ~gone /\ cpc = "loop" /\ Filled("pack")
    /\ IF pres = "ok"
       THEN cpc' = "done" /\ cwait' = {} /\ ctake' = "none" /\ cerr' = "ok"
       ELSE cpc' = "wait" /\ cwait' = {"req"} /\ ctake' = "none" /\ cerr' = "err"
    /\ UNCHANGED <<codecVars, gone, reqRes, conn, resp, spc, stmr, claimed,
                   committed, panicked>>

\* case err = <-packChan: a good pack waits for the request's result, a
\* failed one drains the request and reports the pack error.
PackReport ==
    /\ ~gone /\ cpc = "loop" /\ Filled("pack")
    /\ cpc' = "wait"
    /\ cwait' = {"req"}
    /\ IF pres = "ok" THEN ctake' = "req" /\ UNCHANGED cerr
       ELSE ctake' = "none" /\ cerr' = "err"
    /\ UNCHANGED <<codecVars, gone, reqRes, conn, resp, spc, stmr, claimed,
                   committed, panicked>>

\* case err = <-reqRespChan: a good answer waits for the pack result; an
\* error cancels the packer and drains the pack goroutine.
ReqReport ==
    /\ ~gone /\ cpc = "loop" /\ Filled("req")
    /\ cpc' = "wait"
    /\ cwait' = {"pack"}
    /\ IF reqRes = "ok"
       THEN ctake' = "pack" /\ UNCHANGED <<cerr, wEnd>>
       ELSE ctake' = "none" /\ cerr' = "err" /\ CloseWithError
    /\ UNCHANGED <<packVars, stream, unpackVars, gone, reqRes, conn, resp, spc,
                   stmr, claimed, committed, panicked>>

\* case <-tmr.C (no tick for tickTimeout), and likewise case <-ctx.Done():
\* Cancel the packer, cancel the request's context (the transport closes
\* the connection), and drain both goroutines.
ClientTimeout ==
    /\ ~gone /\ cpc = "loop"
    /\ CloseWithError
    /\ conn' = "closed"
    /\ cpc' = "wait" /\ cwait' = {"pack", "req"} /\ ctake' = "none" /\ cerr' = "err"
    /\ UNCHANGED <<packVars, stream, unpackVars, gone, reqRes, resp, spc, stmr,
                   claimed, committed, panicked>>

\* The receives after the select; PushShard returns when they are done.
ClientWait ==
    /\ ~gone /\ cpc = "wait"
    /\ \A ch \in cwait : Filled(ch)
    /\ cpc' = "done"
    /\ cerr' = CASE ctake = "req" -> reqRes
                 [] ctake = "pack" -> pres
                 [] OTHER -> cerr
    /\ UNCHANGED <<codecVars, gone, cwait, ctake, reqRes, conn, resp, spc, stmr,
                   claimed, committed, panicked>>

\* The client machine stops or loses its network without a FIN or RST.
ClientVanish ==
    /\ ~gone /\ cpc # "done"
    /\ gone' = TRUE
    /\ UNCHANGED <<codecVars, cpc, cwait, ctake, cerr, reqRes, conn, resp, spc,
                   stmr, claimed, committed, panicked>>

-----------------------------------------------------------------------------
(* The server.                                                             *)

\* shardPushHandler wraps the body in newRateTimeoutReader (the timer is
\* armed); UnpackShard claims the upload id and makes the shard directory.
SrvStart ==
    /\ spc = "start"
    /\ spc' = "unpack"
    /\ stmr' = "armed"
    /\ claimed' = TRUE
    /\ UNCHANGED <<codecVars, gone, cpc, cwait, ctake, cerr, reqRes, conn, resp,
                   committed, panicked>>

\* Unpack reads the next entry, or the end of the stream, off the
\* connection (ShardCodec's consumer).
SrvUnpack ==
    /\ spc = "unpack" /\ conn = "open" /\ ~TimedOut
    /\ UnpackStep
    /\ UNCHANGED pushVars

\* Unpack waits inside rtr.rdr.Read: no data has arrived and the client has
\* not ended its stream.
ReadBlocked == stream = <<>> /\ wEnd = "open"

\* rateTimeoutReader.Read fails: the connection is gone, or rtr.err is set
\* and a new Read starts (a Read blocked on the body is not woken by it).
SrvReadFail ==
    /\ spc = "unpack" /\ ures = "none"
    /\ conn = "closed" \/ (TimedOut /\ ~ReadBlocked)
    /\ ures' = "err"
    /\ UNCHANGED <<packVars, stream, wEnd, uhits, stored, merges, pushVars>>

\* UnpackShard after Unpack: on an error RemoveAll and ExitUpload, on
\* success ExitUpload; the directory is kept only on success.
SrvFinish ==
    /\ spc = "unpack" /\ ures # "none"
    /\ stored' = IF ures = "ok" THEN stored ELSE {}
    /\ committed' = (ures = "ok")
    /\ claimed' = FALSE
    /\ spc' = "respond"
    /\ UNCHANGED <<packVars, stream, wEnd, uhits, ures, merges, gone, cpc, cwait,
                   ctake, cerr, reqRes, conn, resp, stmr, panicked>>

\* serverFail or WriteHeader(200); it reaches the client while the
\* connection is open (a later Hijack flushes a written header first).
SrvRespond ==
    /\ spc = "respond"
    /\ resp' = IF conn = "open" THEN IF committed THEN "200" ELSE "500" ELSE resp
    /\ spc' = "closing"
    /\ UNCHANGED <<codecVars, gone, cpc, cwait, ctake, cerr, reqRes, conn, stmr,
                   claimed, committed, panicked>>

\* The deferred rdr.Close: Stop the timer (a timeout already running is
\* not waited for) and return from ServeHTTP.
SrvClose ==
    /\ spc = "closing"
    /\ stmr' = IF stmr = "armed" THEN "stopped" ELSE stmr
    /\ spc' = "done"
    /\ UNCHANGED <<codecVars, gone, cpc, cwait, ctake, cerr, reqRes, conn, resp,
                   claimed, committed, panicked>>

\* The idle timer fires: timeout() runs on its own goroutine and sets
\* rtr.err ...
SrvTimerFire ==
    /\ stmr = "armed"
    /\ stmr' = "firing"
    /\ UNCHANGED <<codecVars, gone, cpc, cwait, ctake, cerr, reqRes, conn, resp,
                   spc, claimed, committed, panicked>>

\* Mutant of SrvHijack: the connection is not closed.
SrvHijackNoClose ==
    /\ stmr = "firing"
    /\ stmr' = "fired"
    /\ panicked' = (spc = "done")
    /\ UNCHANGED <<codecVars, gone, cpc, cwait, ctake, cerr, reqRes, conn, resp,
                   spc, claimed, committed>>

\* ... then Hijacks the connection and closes it.  Hijack after ServeHTTP
\* has returned panics in net/http.
SrvHijack ==
    /\ stmr = "firing"
    /\ stmr' = "fired"
    /\ conn' = "closed"
    /\ panicked' = (spc = "done")
    /\ UNCHANGED <<codecVars, gone, cpc, cwait, ctake, cerr, reqRes, resp,
                   spc, claimed, committed>>

-----------------------------------------------------------------------------

PushInit ==
    /\ CodecInit
    /\ gone = FALSE
    /\ cpc = "loop" /\ cwait = {} /\ ctake = "none" /\ cerr = "none"
    /\ reqRes = "none"
    /\ conn = "open"
    /\ resp = "none"
    /\ spc = "start"
    /\ stmr = "off"
    /\ claimed = FALSE
    /\ committed = FALSE
    /\ panicked = FALSE

ClientNext ==
    ClientPack \/ ReqReturn \/ PackReport \/ ReqReport \/ ClientTimeout \/ ClientWait

ServerNext ==
    SrvStart \/ SrvUnpack \/ SrvReadFail \/ SrvFinish \/ SrvRespond \/ SrvClose
    \/ SrvTimerFire \/ SrvHijack

PushNext == ClientNext \/ ClientVanish \/ ServerNext

\* Every goroutine runs until it blocks, and the server's idle timer, armed
\* and never stopped, fires.  Neither the client's timer nor its vanishing
\* is forced.
PushFairness ==
    /\ WF_allVars(ClientPack) /\ WF_allVars(ReqReturn)
    /\ WF_allVars(PackReport \/ ReqReport) /\ WF_allVars(ClientWait)
    /\ WF_allVars(SrvStart) /\ WF_allVars(SrvUnpack) /\ WF_allVars(SrvReadFail)
    /\ WF_allVars(SrvFinish) /\ WF_allVars(SrvRespond) /\ WF_allVars(SrvClose)
    /\ WF_allVars(SrvTimerFire) /\ WF_allVars(SrvHijack)

PushSpec == PushInit /\ [][PushNext]_allVars /\ PushFairness

-----------------------------------------------------------------------------
(* Properties.                                                             *)

PushTypeOK ==
    /\ CodecTypeOK
    /\ gone \in BOOLEAN /\ claimed \in BOOLEAN
    /\ committed \in BOOLEAN /\ panicked \in BOOLEAN
    /\ cpc \in {"loop", "wait", "done"}
    /\ cwait \subseteq {"pack", "req"}
    /\ ctake \in {"req", "pack", "none"}
    /\ cerr \in {"none", "ok", "err"} /\ reqRes \in {"none", "ok", "err"}
    /\ conn \in {"open", "closed"}
    /\ resp \in {"none", "200", "500"}
    /\ spc \in {"start", "unpack", "respond", "closing", "done"}
    /\ stmr \in {"off", "armed", "firing", "fired", "stopped"}

\* A push PushShard reports good is on the server: the handler kept the
\* directory, with exactly the source shard's files, whatever the timers,
\* merge failures and error paths of the two goroutines did.
PushAgree ==
    (cpc = "done" /\ cerr = "ok") =>
        /\ committed
        /\ stored = {[path |-> Filepath(t, ShardId), whole |-> TRUE] : t \in SentTypes}

\* Every push ends (spec property 12): the handler returns with the upload
\* id released and the transfer's directory kept or removed, and PushShard
\* returns -- unless the client vanished, when the idle timeout alone must
\* tear the handler down.
TransferEnds ==
    <>(spc = "done" /\ ~claimed /\ (cpc = "done" \/ gone))

\* The idle timeout never calls Hijack once the handler has returned
\* (rateTimeoutReader.Close stops the timer before the return).
NoLateHijack == ~panicked

\* A push the server kept is reported good by PushShard, so a client does
\* not push the same shard again.
CommittedReported ==
    (cpc = "done" /\ committed) => cerr = "ok"

=============================================================================
