----------------------------- MODULE Credentials -----------------------------
(***************************************************************************)
(* A reloadable credential file: the replaceFile writer of                 *)
(* src/grpc_common_test.go, the loader that watches the file (spec section *)
(* 4.2; its code is not in this repository) and a caller of                *)
(* WaitForCertificateReload / WaitForCertPoolReload.                       *)
(*                                                                         *)
(* The loader polls the file's modification time and, on a change, reads   *)
(* and parses the file; a parse failure keeps the previous material and    *)
(* the change pending, so the next poll retries (spec 4.2: a change is     *)
(* eventually observed).                                                   *)
(* os.WriteFile truncates the file before writing it, so a read can find   *)
(* it Partial.  Timestamps have a coarse granularity: `now` is the         *)
(* timestamp a write gets, and Tick advances it.  Only equality of         *)
(* timestamps matters, so `now` runs at most one tick ahead of the file's  *)
(* modification time.                                                      *)
(***************************************************************************)
EXTENDS Naturals

CONSTANTS
  Materials,        \* complete material the writer may write
  Partial,          \* the content of a file os.WriteFile has truncated
  LoaderAttached,   \* c.loader (c.pool) != nil
  MaxReplacements,  \* bound on replaceFile calls
  MaxWaits          \* bound on WaitFor...Reload calls

ASSUME /\ Partial \notin Materials /\ LoaderAttached \in BOOLEAN
       /\ MaxReplacements \in Nat /\ MaxWaits \in Nat

VARIABLES
  file,          \* [data, mtime]: the file on disk
  now,           \* the timestamp a write made now gets
  wpc,           \* where replaceFile is
  wdata,         \* the data replaceFile writes
  oldMtime,      \* oldStat.ModTime()
  replacements,  \* replaceFile calls so far
  lastModified,  \* the modification time of the material the loader loaded
  polled,        \* the modification time the loader's latest poll found
  lpc,           \* where the loader is
  active,        \* the material the loader hands out
  generation,    \* the loader's reload generation
  wst,           \* whether the caller is blocked in WaitFor...Reload
  g0,            \* the generation its wait started at
  canceled,      \* its ctx is done
  waitResult,    \* what its latest wait returned
  waits          \* WaitFor...Reload calls so far

writerVars == <<wpc, wdata, oldMtime, replacements>>
loaderVars == <<lastModified, polled, lpc, active, generation>>
waiterVars == <<wst, g0, canceled, waitResult, waits>>
vars == <<file, now, writerVars, loaderVars, waiterVars>>

-----------------------------------------------------------------------------
\* The file holds complete material the loader has loaded.
Init ==
  /\ \E m \in Materials : file = [data |-> m, mtime |-> 0] /\ active = m
  /\ now = 0
  /\ wpc = "idle" /\ wdata = file.data /\ oldMtime = 0 /\ replacements = 0
  /\ lastModified = 0 /\ polled = 0 /\ lpc = "idle" /\ generation = 0
  /\ wst = "idle" /\ g0 = 0 /\ canceled = FALSE /\ waitResult = "none"
  /\ waits = 0

\* The clock passes to the next timestamp.
Tick ==
  /\ now = file.mtime
  /\ now' = now + 1
  /\ UNCHANGED <<file, writerVars, loaderVars, waiterVars>>

-----------------------------------------------------------------------------
(* replaceFile(t, filename, data, perm)                                    *)

\* oldStat, err := os.Stat(filename)
ReplaceFile ==
  /\ wpc = "idle" /\ replacements < MaxReplacements
  /\ \E d \in Materials : wdata' = d
  /\ oldMtime' = file.mtime
  /\ replacements' = replacements + 1
  /\ wpc' = "write"
  /\ UNCHANGED <<file, now, loaderVars, waiterVars>>

\* os.WriteFile opens the file with O_TRUNC ...
WriteTruncate ==
  /\ wpc = "write"
  /\ file' = [data |-> Partial, mtime |-> now]
  /\ wpc' = "writing"
  /\ UNCHANGED <<now, wdata, oldMtime, replacements, loaderVars, waiterVars>>

\* ... and writes data.
WriteData ==
  /\ wpc = "writing"
  /\ file' = [data |-> wdata, mtime |-> now]
  /\ wpc' = "stat"
  /\ UNCHANGED <<now, wdata, oldMtime, replacements, loaderVars, waiterVars>>

\* Mutation: the loop stats the file again without rewriting it.
StatNewWithoutRewrite ==
  /\ wpc = "stat"
  /\ wpc' = IF file.mtime # oldMtime THEN "idle" ELSE "stat"
  /\ UNCHANGED <<file, now, wdata, oldMtime, replacements, loaderVars, waiterVars>>

\* Mutation: replaceFile writes once and returns without comparing the
\* modification time with the old one.
StatNewNoLoop ==
  /\ wpc = "stat"
  /\ wpc' = "idle"
  /\ UNCHANGED <<file, now, wdata, oldMtime, replacements, loaderVars, waiterVars>>

\* newStat, err := os.Stat(filename); the loop ends once the modification
\* time differs from the old one, else sleeps and writes again.
StatNew ==
  /\ wpc = "stat"
  /\ wpc' = IF file.mtime # oldMtime THEN "idle" ELSE "write"
  /\ UNCHANGED <<file, now, wdata, oldMtime, replacements, loaderVars, waiterVars>>

-----------------------------------------------------------------------------
(* The loader (spec section 4.2).                                          *)

\* A poll finds the modification time changed.
DetectChange ==
  /\ lpc = "idle"
  /\ file.mtime # lastModified
  /\ polled' = file.mtime
  /\ lpc' = "read"
  /\ UNCHANGED <<file, now, writerVars, lastModified, active, generation,
                 waiterVars>>

\* Mutation: the file is swapped in without checking that it parsed.
ReloadUnparsed ==
  /\ lpc = "read"
  /\ active' = file.data /\ generation' = generation + 1
  /\ lastModified' = polled
  /\ lpc' = "idle"
  /\ UNCHANGED <<file, now, writerVars, polled, waiterVars>>

\* The loader parses the file: complete material is swapped in, the
\* generation advanced, which releases the waiters, and the polled
\* modification time taken as loaded; a parse failure keeps the previous
\* material and leaves the change to the next poll.
Reload ==
  /\ lpc = "read"
  /\ IF file.data \in Materials
     THEN /\ active' = file.data /\ generation' = generation + 1
          /\ lastModified' = polled
     ELSE UNCHANGED <<active, generation, lastModified>>
  /\ lpc' = "idle"
  /\ UNCHANGED <<file, now, writerVars, polled, waiterVars>>

-----------------------------------------------------------------------------
(* A caller of WaitForCertificateReload(ctx) / WaitForCertPoolReload(ctx). *)

\* if c.loader == nil { return errors.New(...) }; return c.loader.WaitForReload(ctx)
WaitForReload ==
  /\ wst = "idle" /\ waits < MaxWaits
  /\ waits' = waits + 1
  /\ canceled' = FALSE
  /\ IF LoaderAttached
     THEN wst' = "waiting" /\ g0' = generation /\ UNCHANGED waitResult
     ELSE waitResult' = "notConfigured" /\ UNCHANGED <<wst, g0>>
  /\ UNCHANGED <<file, now, writerVars, loaderVars>>

\* The ctx of the wait is canceled or expires.
Cancel ==
  /\ wst = "waiting" /\ ~canceled
  /\ canceled' = TRUE
  /\ UNCHANGED <<file, now, writerVars, loaderVars, wst, g0, waitResult, waits>>

\* The generation advanced past the one the wait started at: return nil.
WakeReloaded ==
  /\ wst = "waiting" /\ generation > g0
  /\ wst' = "idle" /\ waitResult' = "reloaded"
  /\ UNCHANGED <<file, now, writerVars, loaderVars, g0, canceled, waits>>

\* ctx is done: return ctx.Err().
WakeCanceled ==
  /\ wst = "waiting" /\ canceled
  /\ wst' = "idle" /\ waitResult' = "canceled"
  /\ UNCHANGED <<file, now, writerVars, loaderVars, g0, canceled, waits>>

Next ==
  \/ Tick
  \/ ReplaceFile \/ WriteTruncate \/ WriteData \/ StatNew
  \/ DetectChange \/ Reload
  \/ WaitForReload \/ Cancel \/ WakeReloaded \/ WakeCanceled

\* Time passes; the loader's polling loop, the writer and the waiting
\* goroutine are scheduled.  Calls and cancellations are up to the test.
Fairness ==
  /\ WF_vars(Tick)
  /\ WF_vars(WriteTruncate) /\ WF_vars(WriteData) /\ WF_vars(StatNew)
  /\ WF_vars(DetectChange) /\ WF_vars(Reload)
  /\ WF_vars(WakeReloaded) /\ WF_vars(WakeCanceled)

Spec == Init /\ [][Next]_vars /\ Fairness

-----------------------------------------------------------------------------
TypeOK ==
  /\ file \in [data : Materials \cup {Partial}, mtime : Nat]
  /\ now \in {file.mtime, file.mtime + 1}
  /\ wpc \in {"idle", "write", "writing", "stat"}
  /\ wdata \in Materials /\ oldMtime \in Nat
  /\ replacements \in 0 .. MaxReplacements
  /\ lastModified \in Nat /\ polled \in Nat /\ lpc \in {"idle", "read"}
  /\ active \in Materials /\ generation \in Nat
  /\ wst \in {"idle", "waiting"} /\ g0 \in 0 .. generation
  /\ canceled \in BOOLEAN
  /\ waitResult \in {"none", "reloaded", "canceled", "notConfigured"}
  /\ waits \in 0 .. MaxWaits

\* replaceFile returns: rewriting until the modification time differs
\* terminates because the clock advances.
ReplaceFileReturns == (wpc = "write") ~> (wpc = "idle")

\* replaceFile rewrites the file until its modification time differs from
\* the one before (lines 123-135) so that a loader comparing modification
\* times cannot miss the change: once replaceFile has returned with new
\* material and the file is left alone, the loader hands that material
\* out, although the write is not atomic and timestamps are coarse.
ChangeEventuallyLoaded ==
  \A m \in Materials :
    (wpc = "idle" /\ file.data = m) ~> (active = m \/ file.data # m)
=============================================================================
