------------------------------ MODULE ShardPull ------------------------------
(***************************************************************************)
(* One shard pull end to end: the server's shardPullHandler                *)
(* (src/unnamed/part_013 279-321) with the idle-timeout writer             *)
(* (src/pkg/webserver/readerWriter.go 91-154) around filestore PackShard   *)
(* (src/unnamed/part_005 207-282): its adder goroutine is the producer of  *)
(* ShardCodec, its copier goroutine moves the pipe into the response; and  *)
(* the client's PullShard (src/pkg/client/client.go 421-521) whose         *)
(* asyncUnpackShard is the consumer of ShardCodec, read through a          *)
(* readTicker (src/pkg/client/utils.go 52-82).                             *)
(*                                                                         *)
(* The pipe and the connection are one queue: an entry the copier has      *)
(* taken is in the socket until the client's Unpack reads it.  The         *)
(* response header goes out with the copier's first write (status 200),    *)
(* or, when nothing was written, with the handler's final WriteHeader.     *)
(* The body ends when the handler returns; a stream cut short is caught    *)
(* by zlib and tar on the client, which is ShardCodec's "err" end.  As in  *)
(* ShardPush, time is abstract: an armed timer may fire at any moment.     *)
(***************************************************************************)
EXTENDS ShardCodec

VARIABLES
    gone,     \* the client process has vanished
    cpc,      \* PullShard: "request", "loop" (the select), "wait", "done"
    ctake,    \* PullShard's result comes from the unpack goroutine
    cerr,     \* PullShard's result: "none", "ok", "err"
    conn,     \* the TCP connection: "open" or "closed"
    hdr,      \* the response status sent: "none", "200", "500"
    spc,      \* the handler: "start", "pack", "drain", "respond", "closing", "done"
    copyRes,  \* the value the copier sent on copyErrChan: "none", "ok", "err"
    swait,    \* the channel the handler drains after its select
    stake,    \* the drained value becomes the handler's error
    sres,     \* PackShard's result: "none", "ok", "err"
    wtmr,     \* the writer's idle timer: "off", "armed", "firing", "fired", "stopped"
    claimed,  \* the upload id is in the UploadTracker
    panicked  \* Hijack was called after the handler returned

clientVars == <<gone, cpc, ctake, cerr>>
srvVars == <<spc, copyRes, swait, stake, sres, wtmr, claimed, panicked>>
pullVars == <<clientVars, conn, hdr, srvVars>>
allVars == <<codecVars, pullVars>>

\* A channel of the handler holds its goroutine's value.
Sent(ch) == IF ch = "copy" THEN copyRes # "none" ELSE pres # "none"

\* The response body has ended: the handler returned or the connection died.
BodyEnded == spc = "done" \/ conn = "closed"

-----------------------------------------------------------------------------
(* The server.                                                             *)

\* newRateTimeoutWriter arms the timer; PackShard's EnterUpload and
\* readableDir (Stat, IsDir, Access) either pass, and the adder and copier
\* goroutines start, or fail, and the handler answers with serverFail.
SrvStart ==
    /\ spc = "start"
    /\ wtmr' = "armed"
    /\ \/ spc' = "pack" /\ claimed' = TRUE /\ UNCHANGED sres
       \/ spc' = "respond" /\ sres' = "err" /\ UNCHANGED claimed
    /\ UNCHANGED <<codecVars, clientVars, conn, hdr, copyRes, swait, stake, panicked>>

\* The adder goroutine: AddShardFilesToPacker, Flush and Close, or
\* CloseWithError (ShardCodec's producer).
SrvAdd ==
    /\ spc \in {"pack", "drain"}
    /\ ProduceStep
    /\ UNCHANGED pullVars

\* The copier's first write into the response sends the header, 200.
CopyHeader ==
    /\ spc \in {"pack", "drain"} /\ copyRes = "none"
    /\ hdr = "none" /\ conn = "open"
    /\ stream # <<>>
    /\ hdr' = "200"
    /\ UNCHANGED <<codecVars, clientVars, conn, srvVars>>

\* io.Copy(wtr, p) returns: the pipe's EOF after Close is nil, its
\* CloseWithError is the error; a write into a dead connection fails
\* (rateTimeoutWriter.Write after a Hijack, or a reset socket).
CopyEnd ==
    /\ spc \in {"pack", "drain"} /\ copyRes = "none"
    /\ \/ /\ stream = <<>> /\ wEnd # "open"
          /\ copyRes' = IF wEnd = "eof" THEN "ok" ELSE "err"
       \/ /\ stream # <<>> /\ conn = "closed"
          /\ copyRes' = "err"
    /\ UNCHANGED <<codecVars, clientVars, conn, hdr, spc, swait, stake, sres,
                   wtmr, claimed, panicked>>

\* Mutant of SrvSelect: a copier error does not close the packer.
SrvSelectNoClose ==
    /\ spc = "pack"
    /\ \/ /\ Sent("copy")
          /\ swait' = "add"
          /\ stake' = (copyRes = "ok")
          /\ sres' = IF copyRes = "ok" THEN sres ELSE "err"
          /\ UNCHANGED wEnd
       \/ /\ Sent("add")
          /\ swait' = "copy"
          /\ stake' = (pres = "ok")
          /\ sres' = IF pres = "ok" THEN sres ELSE "err"
          /\ IF pres = "ok" THEN UNCHANGED wEnd ELSE CloseWithError
    /\ spc' = "drain"
    /\ UNCHANGED <<packVars, stream, unpackVars, clientVars, conn, hdr, copyRes,
                   wtmr, claimed, panicked>>

\* The select on the two channels.  A copier error closes the packer with
\* the error and drains the adder; a clean copy takes the adder's error.
\* An adder error closes the packer "just in case" and drains the copier;
\* a clean add takes the copier's error.
SrvSelect ==
    /\ spc = "pack"
    /\ \/ /\ Sent("copy")
          /\ swait' = "add"
          /\ stake' = (copyRes = "ok")
          /\ sres' = IF copyRes = "ok" THEN sres ELSE "err"
          /\ IF copyRes = "ok" THEN UNCHANGED wEnd ELSE CloseWithError
       \/ /\ Sent("add")
          /\ swait' = "copy"
          /\ stake' = (pres = "ok")
          /\ sres' = IF pres = "ok" THEN sres ELSE "err"
          /\ IF pres = "ok" THEN UNCHANGED wEnd ELSE CloseWithError
    /\ spc' = "drain"
    /\ UNCHANGED <<packVars, stream, unpackVars, clientVars, conn, hdr, copyRes,
                   wtmr, claimed, panicked>>

\* The receive after the select, then ExitUpload.
SrvDrain ==
    /\ spc = "drain" /\ Sent(swait)
    /\ sres' = IF ~stake THEN "err"
               ELSE IF swait = "copy" THEN copyRes ELSE pres
    /\ claimed' = FALSE
    /\ spc' = "respond"
    /\ UNCHANGED <<codecVars, clientVars, conn, hdr, copyRes, swait, stake,
                   wtmr, panicked>>

\* serverFail or WriteHeader(200): the status reaches the client only if
\* no body was written yet and the connection is open.
SrvRespond ==
    /\ spc = "respond"
    /\ hdr' = IF hdr = "none" /\ conn = "open"
              THEN IF sres = "ok" THEN "200" ELSE "500" ELSE hdr
    /\ spc' = "closing"
    /\ UNCHANGED <<codecVars, clientVars, conn, copyRes, swait, stake, sres,
                   wtmr, claimed, panicked>>

\* The deferred wtr.Close stops the timer, not a timeout already running.
SrvClose ==
    /\ spc = "closing"
    /\ wtmr' = IF wtmr = "armed" THEN "stopped" ELSE wtmr
    /\ spc' = "done"
    /\ UNCHANGED <<codecVars, clientVars, conn, hdr, copyRes, swait, stake,
                   sres, claimed, panicked>>

\* No write for transferTickTimeout: timeout() starts on its own goroutine ...
SrvTimerFire ==
    /\ wtmr = "armed"
    /\ wtmr' = "firing"
    /\ UNCHANGED <<codecVars, clientVars, conn, hdr, spc, copyRes, swait,
                   stake, sres, claimed, panicked>>

\* ... Hijacks the response and closes the connection.
SrvHijack ==
    /\ wtmr = "firing"
    /\ wtmr' = "fired"
    /\ conn' = "closed"
    /\ panicked' = (spc = "done")
    /\ UNCHANGED <<codecVars, clientVars, hdr, spc, copyRes, swait, stake,
                   sres, claimed>>

-----------------------------------------------------------------------------
(* The client.                                                             *)

\* PullShard's GET returns with the header: a status other than 200 is an
\* error; with 200 the readTicker, MkdirAll(spath) and NewUnpacker follow
\* (MkdirAll may fail), the unpack goroutine starts and the select loop
\* begins.  A connection that dies first fails the request.  Returning
\* runs the deferred cf(), which tears the connection down.
ClientRequest ==
    /\ ~gone /\ cpc = "request"
    /\ \/ /\ hdr = "200"
          /\ \/ cpc' = "loop" /\ UNCHANGED <<cerr, conn>>
             \/ cpc' = "done" /\ cerr' = "err" /\ conn' = "closed"
       \/ /\ hdr = "500" \/ (hdr = "none" /\ conn = "closed")
          /\ cpc' = "done" /\ cerr' = "err" /\ conn' = "closed"
    /\ UNCHANGED <<codecVars, gone, ctake, hdr, srvVars>>

\* Mutant of ClientUnpack: the end of the response body is taken for the
\* end of the shard.
ClientUnpackLenient ==
    /\ ~gone /\ cpc \in {"loop", "wait"} /\ conn = "open"
    /\ \/ /\ ~(stream = <<>> /\ wEnd = "err")
          /\ UnpackStep
       \/ /\ stream = <<>> /\ wEnd = "err" /\ BodyEnded /\ ures = "none"
          /\ ures' = IF allFilesHit(uhits, FALSE) THEN "ok" ELSE "err"
          /\ UNCHANGED <<packVars, stream, wEnd, uhits, stored, merges>>
    /\ UNCHANGED pullVars

\* asyncUnpackShard: Unpack with the client's unpackHandler, reading the
\* body through the readTicker (ShardCodec's consumer).  A stream the
\* packer closed with an error reaches the client as a body that ends
\* before the tar trailer, which it sees only once the body has ended.
ClientUnpack ==
    /\ ~gone /\ cpc \in {"loop", "wait"} /\ conn = "open"
    /\ (stream = <<>> /\ wEnd = "err") => BodyEnded
    /\ UnpackStep
    /\ UNCHANGED pullVars

\* A read of the body on a dead connection fails.
ClientReadFail ==
    /\ ~gone /\ cpc \in {"loop", "wait"} /\ ures = "none"
    /\ conn = "closed"
    /\ ures' = "err"
    /\ UNCHANGED <<packVars, stream, wEnd, uhits, stored, merges, pullVars>>

\* case err = <-reqRespChan: PullShard returns Unpack's result (Cancel on
\* an error is a no-op once Unpack has returned); the deferred cf() and
\* Body.Close follow.
ClientResult ==
    /\ ~gone /\ cpc = "loop" /\ ures # "none"
    /\ cpc' = "done"
    /\ cerr' = ures
    /\ conn' = IF ures = "ok" THEN conn ELSE "closed"
    /\ UNCHANGED <<codecVars, gone, ctake, hdr, srvVars>>

\* case <-tmr.C (no tick for tickTimeout): cf() and Cancel, then drain the
\* unpack goroutine and report the timeout; case <-cancel.Done(): the same,
\* reporting the drained result.
ClientTimeout ==
    /\ ~gone /\ cpc = "loop"
    /\ conn' = "closed"
    /\ cpc' = "wait"
    /\ \/ ctake' = FALSE /\ cerr' = "err"
       \/ ctake' = TRUE /\ UNCHANGED cerr
    /\ UNCHANGED <<codecVars, gone, hdr, srvVars>>

\* The drain after a timeout or a cancellation.
ClientWait ==
    /\ ~gone /\ cpc = "wait" /\ ures # "none"
    /\ cpc' = "done"
    /\ cerr' = IF ctake THEN ures ELSE cerr
    /\ UNCHANGED <<codecVars, gone, ctake, conn, hdr, srvVars>>

\* The client machine stops or loses its network without a FIN or RST.
ClientVanish ==
    /\ ~gone /\ cpc # "done"
    /\ gone' = TRUE
    /\ UNCHANGED <<codecVars, cpc, ctake, cerr, conn, hdr, srvVars>>

-----------------------------------------------------------------------------

PullInit ==
    /\ CodecInit
    /\ gone = FALSE /\ cpc = "request" /\ ctake = FALSE /\ cerr = "none"
    /\ conn = "open" /\ hdr = "none"
    /\ spc = "start" /\ copyRes = "none" /\ swait = "add" /\ stake = FALSE
    /\ sres = "none" /\ wtmr = "off" /\ claimed = FALSE /\ panicked = FALSE

ServerNext ==
    SrvStart \/ SrvAdd \/ CopyHeader \/ CopyEnd \/ SrvSelect \/ SrvDrain
    \/ SrvRespond \/ SrvClose \/ SrvTimerFire \/ SrvHijack

ClientNext ==
    ClientRequest \/ ClientUnpack \/ ClientReadFail \/ ClientResult
    \/ ClientTimeout \/ ClientWait

PullNext == ServerNext \/ ClientNext \/ ClientVanish

\* Every goroutine runs until it blocks, and the server's idle timer, armed
\* and not stopped, fires.  The client's timer, its cancel context and its
\* vanishing are not forced.
PullFairness ==
    /\ WF_allVars(SrvStart) /\ WF_allVars(SrvAdd) /\ WF_allVars(CopyHeader)
    /\ WF_allVars(CopyEnd) /\ WF_allVars(SrvSelect) /\ WF_allVars(SrvDrain)
    /\ WF_allVars(SrvRespond) /\ WF_allVars(SrvClose)
    /\ WF_allVars(SrvTimerFire) /\ WF_allVars(SrvHijack)
    /\ WF_allVars(ClientRequest) /\ WF_allVars(ClientUnpack)
    /\ WF_allVars(ClientReadFail) /\ WF_allVars(ClientResult) /\ WF_allVars(ClientWait)

PullSpec == PullInit /\ [][PullNext]_allVars /\ PullFairness

-----------------------------------------------------------------------------
(* Properties.                                                             *)

PullTypeOK ==
    /\ CodecTypeOK
    /\ gone \in BOOLEAN /\ ctake \in BOOLEAN /\ stake \in BOOLEAN
    /\ claimed \in BOOLEAN /\ panicked \in BOOLEAN
    /\ cpc \in {"request", "loop", "wait", "done"}
    /\ cerr \in {"none", "ok", "err"} /\ sres \in {"none", "ok", "err"}
    /\ copyRes \in {"none", "ok", "err"}
    /\ conn \in {"open", "closed"} /\ hdr \in {"none", "200", "500"}
    /\ spc \in {"start", "pack", "drain", "respond", "closing", "done"}
    /\ swait \in {"add", "copy"}
    /\ wtmr \in {"off", "armed", "firing", "fired", "stopped"}

\* A pull PullShard reports good left the client's directory with exactly
\* the stored shard's files, each whole (spec scenario S2), whatever file
\* the server failed to read, whichever goroutine failed first and
\* whichever timer fired: a stream cut short after the 200 header must
\* still be an error.
PullAgree ==
    (cpc = "done" /\ cerr = "ok") =>
        stored = {[path |-> Filepath(t, ShardId), whole |-> TRUE] : t \in SentTypes}

\* Every pull ends (spec: the handler waits on both tasks before returning,
\* and ExitUpload runs on every path): the handler returns with the upload
\* id released and PullShard returns -- or the client vanished, when the
\* writer's idle timeout alone must unblock the copier.
PullEnds ==
    <>(spc = "done" /\ ~claimed /\ (cpc = "done" \/ gone))

\* The writer's idle timeout never calls Hijack once the handler has
\* returned (rateTimeoutWriter.Close stops the timer before the return).
PullNoLateHijack == ~panicked
=============================================================================
