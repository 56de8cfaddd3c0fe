------------------------------ MODULE RedisData ------------------------------
(***************************************************************************)
(* The Redis data browser (redis_data.py): imports of files into keys,     *)
(* and the requests that write or delete a single key.                     *)
(*                                                                         *)
(* An import is a coroutine. It blocks the event loop while it talks to    *)
(* Redis and to the database and gives it up only while it waits for a     *)
(* part of an upload or closes one, so two imports never interleave inside *)
(* one file; the other requests run in threads of their own and interleave *)
(* with every step. Each row of an import is committed by itself, and the  *)
(* summary of the batch is written at the end over a second connection.    *)
(* An OSError on the way out of a file ends the import as if Redis had     *)
(* failed, beside the rows committed by then.                              *)
(***************************************************************************)
EXTENDS Integers, Sequences, FiniteSets

CONSTANTS Batches,       \* imports
          Writers,       \* requests that write or delete one key
          RedisKeys,
          Uploads,       \* sequences of target keys: the files of an import
          RedisWrites    \* bound: writes and deletions of single keys

\* A value is named by the import that wrote it; "client" is any other writer,
\* "none" no value.
ASSUME RedisAssumption ==
  /\ Uploads \subseteq Seq(RedisKeys) \ {<<>>}
  /\ Batches \cap {"none", "client"} = {}

VARIABLES redis,        \* value of each key in Redis: who wrote it
          batch,        \* redis_import_batches and redis_import_files
          import,       \* the coroutine of each import
          writer,       \* the request of each writer
          writesLeft

redisVars == <<redis, batch, import, writer, writesLeft>>

NoBatch == [status |-> "none", overwrite |-> FALSE, rows |-> <<>>, written |-> 0, failed |-> 0]
NoImport == [pc |-> "none", files |-> <<>>, results |-> <<>>, raced |-> FALSE]
NoWriter == [pc |-> "idle", key |-> "none", existed |-> FALSE]

\* The steps in which an import keeps the event loop.
InLoop == {"connect", "set", "meta", "row", "failed"}

RedisTypeOK ==
  /\ redis \in [RedisKeys -> {"none", "client"} \cup Batches]
  /\ \A b \in Batches :
       /\ batch[b].status \in {"none", "running", "succeeded", "partial", "failed"}
       /\ batch[b].rows \in Seq({"written", "failed"})
       /\ Len(batch[b].rows) <= Len(import[b].files) \/ import[b].pc \in {"none", "ended"}
       /\ import[b].pc \in InLoop \cup {"none", "read", "close", "summary", "ended"}
  /\ \A w \in Writers : writer[w].pc \in {"idle", "exists", "write", "delete"}

RedisInit ==
  /\ redis \in [RedisKeys -> {"none", "client"}]
  /\ batch = [b \in Batches |-> NoBatch]
  /\ import = [b \in Batches |-> NoImport]
  /\ writer = [w \in Writers |-> NoWriter]
  /\ writesLeft = RedisWrites

-----------------------------------------------------------------------------
(* An import.                                                              *)

\* Mutant: imports run in threads of their own.
LoopAlwaysFree(b) == TRUE

\* b may take its next step: no other import has the event loop.
LoopFree(b) == \A c \in Batches \ {b} : import[c].pc \notin InLoop

ImportAt(b, pc) == import[b].pc = pc /\ LoopFree(b)
ImportGoto(b, pc) == import' = [import EXCEPT ![b].pc = pc]
ImportQuiet == UNCHANGED <<writer, writesLeft>>

\* The file b is at, and its key.
File(b) == Len(import[b].results) + 1
KeyOf(b) == import[b].files[File(b)]

\* The batch row is committed as running before anything else happens.
BeginImport(b, files, overwrite) ==
  /\ ImportAt(b, "none")
  /\ batch' = [batch EXCEPT ![b] = [NoBatch EXCEPT !.status = "running", !.overwrite = overwrite]]
  /\ import' = [import EXCEPT ![b] = [NoImport EXCEPT !.pc = "connect", !.files = files]]
  /\ UNCHANGED redis /\ ImportQuiet

\* The handler of RedisDataError: the batch is failed, its figures stay.
RedisFailed(b) == batch' = [batch EXCEPT ![b].status = "failed"] /\ ImportGoto(b, "ended")

\* connect: a client, or RedisDataError for a wrong endpoint or DB.
OpenClient(b) ==
  /\ ImportAt(b, "connect")
  /\ RedisFailed(b) \/ (ImportGoto(b, "read") /\ UNCHANGED batch)
  /\ UNCHANGED redis /\ ImportQuiet

\* The upload is read; it is too large, or the check of the key follows.
ReadUpload(b) ==
  /\ ImportAt(b, "read")
  /\ \/ ImportGoto(b, "failed")
     \/ /\ batch[b].overwrite \/ redis[KeyOf(b)] = "none"
        /\ import' = [import EXCEPT ![b].pc = "set", ![b].raced = FALSE]
  /\ UNCHANGED <<redis, batch>> /\ ImportQuiet

\* SET is executed or not, and answered or not.
SetKey(b) ==
  /\ ImportAt(b, "set")
  /\ \/ redis' = [redis EXCEPT ![KeyOf(b)] = b] /\ (ImportGoto(b, "meta") \/ ImportGoto(b, "failed"))
     \/ UNCHANGED redis /\ ImportGoto(b, "failed")
  /\ UNCHANGED batch /\ ImportQuiet

\* The hash beside the key; no reader of this code looks at it.
SetMeta(b) ==
  /\ ImportAt(b, "meta")
  /\ ImportGoto(b, "row") \/ ImportGoto(b, "failed")
  /\ UNCHANGED <<redis, batch>> /\ ImportQuiet

\* A committed row and its entry in the results.
Recorded(b, status) ==
  /\ batch' = [batch EXCEPT ![b].rows = Append(@, status)]
  /\ import' = [import EXCEPT ![b].results = Append(@, status), ![b].pc = "close"]
  /\ UNCHANGED redis /\ ImportQuiet

RecordWritten(b) ==
  \/ ImportAt(b, "row") /\ Recorded(b, "written")
  \/ ImportAt(b, "row") /\ ImportGoto(b, "failed") /\ UNCHANGED <<redis, batch>> /\ ImportQuiet
\* Mutant: the row of a file that could not be recorded counts as written.
RecordBoth(b) ==
  /\ ImportAt(b, "failed")
  /\ batch' = [batch EXCEPT ![b].rows = Append(@, "failed")]
  /\ import' = [import EXCEPT ![b].results = Append(@, IF redis[KeyOf(b)] = b THEN "written" ELSE "failed"),
                              ![b].pc = "close"]
  /\ UNCHANGED redis /\ ImportQuiet

RecordFailed(b) == ImportAt(b, "failed") /\ Recorded(b, "failed")

\* The upload is closed, which gives up the loop, its copy is removed, and the
\* next file or the summary follows.
CloseUpload(b) ==
  /\ ImportAt(b, "close")
  /\ ImportGoto(b, IF File(b) > Len(import[b].files) THEN "summary" ELSE "read")
  /\ UNCHANGED <<redis, batch>> /\ ImportQuiet

\* The finally clause of a file (after its row, after a row that could not be
\* written, after a read that was cancelled) raises an OSError: connect turns
\* it into RedisDataError.
FailImport(b) ==
  /\ ImportAt(b, "close") \/ ImportAt(b, "failed") \/ ImportAt(b, "read")
  /\ RedisFailed(b)
  /\ UNCHANGED redis /\ ImportQuiet

Tally(rows, status) == Cardinality({i \in DOMAIN rows : rows[i] = status})

WriteSummary(b) ==
  LET written == Tally(import[b].results, "written")
      failed == Len(import[b].results) - written IN
  /\ ImportAt(b, "summary")
  /\ batch' = [batch EXCEPT
       ![b].status = IF written > 0 /\ failed > 0 THEN "partial" ELSE IF written > 0 THEN "succeeded" ELSE "failed",
       ![b].written = written, ![b].failed = failed]
  /\ ImportGoto(b, "ended")
  /\ UNCHANGED redis /\ ImportQuiet

\* Any other exception outside the handler of one file, one in a handler of the
\* import itself, and the end of the process leave the batch as it is: running.
AbortImport(b) ==
  /\ import[b].pc \notin {"none", "ended"}
  /\ ImportGoto(b, "ended")
  /\ UNCHANGED <<redis, batch>> /\ ImportQuiet

-----------------------------------------------------------------------------
(* Single keys.                                                            *)

\* Imports that have looked at key k and not yet set it are overtaken.
Overtaking(k) ==
  [b \in Batches |-> IF import[b].pc = "set" /\ KeyOf(b) = k
                     THEN [import[b] EXCEPT !.raced = TRUE] ELSE import[b]]

BeginWrite(w, k, pc) ==
  /\ writer[w] = NoWriter /\ writesLeft > 0
  /\ writesLeft' = writesLeft - 1
  /\ writer' = [writer EXCEPT ![w] = [NoWriter EXCEPT !.pc = pc, !.key = k]]
  /\ UNCHANGED <<redis, batch, import>>

\* upsert_key asks for the key, and writes it in a MULTI of its own.
KeyExists(w) ==
  /\ writer[w].pc = "exists"
  /\ writer' = [writer EXCEPT ![w].pc = "write", ![w].existed = redis[writer[w].key] /= "none"]
  /\ UNCHANGED <<redis, batch, import, writesLeft>>
WriteKey(w) ==
  /\ writer[w].pc = "write"
  /\ redis' = [redis EXCEPT ![writer[w].key] = "client"]
  /\ import' = Overtaking(writer[w].key)
  /\ writer' = [writer EXCEPT ![w] = NoWriter]
  /\ UNCHANGED <<batch, writesLeft>>
DeleteKey(w) ==
  /\ writer[w].pc = "delete"
  /\ redis' = [redis EXCEPT ![writer[w].key] = "none"]
  /\ import' = Overtaking(writer[w].key)
  /\ writer' = [writer EXCEPT ![w] = NoWriter]
  /\ UNCHANGED <<batch, writesLeft>>
WriteError(w) ==
  /\ writer[w] /= NoWriter
  /\ writer' = [writer EXCEPT ![w] = NoWriter]
  /\ UNCHANGED <<redis, batch, import, writesLeft>>

RedisNext ==
  \/ \E b \in Batches :
       \/ \E files \in Uploads, overwrite \in BOOLEAN : BeginImport(b, files, overwrite)
       \/ OpenClient(b) \/ ReadUpload(b) \/ SetKey(b) \/ SetMeta(b)
       \/ RecordWritten(b) \/ RecordFailed(b) \/ CloseUpload(b) \/ FailImport(b)
       \/ WriteSummary(b) \/ AbortImport(b)
  \/ \E w \in Writers :
       \/ \E k \in RedisKeys, pc \in {"exists", "delete"} : BeginWrite(w, k, pc)
       \/ KeyExists(w) \/ WriteKey(w) \/ DeleteKey(w) \/ WriteError(w)

RedisSpec == RedisInit /\ [][RedisNext]_redisVars

-----------------------------------------------------------------------------
(* Properties.                                                             *)

\* A batch with figures counts its committed rows, which cover every file, and
\* tells whether all, some or none were written; succeeded and partial have figures.
SummaryTrue ==
  \A b \in Batches :
    LET w == Tally(batch[b].rows, "written")
        f == Tally(batch[b].rows, "failed") IN
    /\ batch[b].written + batch[b].failed > 0 =>
         /\ batch[b].written = w /\ batch[b].failed = f
         /\ Len(batch[b].rows) = Len(import[b].files)
         /\ batch[b].status = IF w = 0 THEN "failed" ELSE IF f = 0 THEN "succeeded" ELSE "partial"
    /\ batch[b].status \in {"succeeded", "partial"} => batch[b].written > 0

\* Without overwrite an import replaces a value only if a single-key request
\* wrote it after the import had looked: no other import is overwritten.
KeepsUnlessRaced ==
  [][\A b \in Batches, k \in RedisKeys :
       (redis'[k] = b /\ redis[k] \notin {"none", b} /\ import[b].pc = "set" /\ ~batch[b].overwrite)
       => import[b].raced]_redisVars
=============================================================================
