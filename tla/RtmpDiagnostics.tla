-------------------------- MODULE RtmpDiagnostics --------------------------
(***************************************************************************)
(* The timing table of src/rtmp_diagnostics.c and the mutex that timing,   *)
(* logging and statistics share.  A timed operation's id is the clock in   *)
(* milliseconds, so operations begun in one millisecond share an id.       *)
(*                                                                         *)
(* The clock is bounded by MaxClock, the operations a thread times at once *)
(* by MaxOpen; rtmp_diagnostic_shutdown is called when no thread is in a   *)
(* call.                                                                   *)
(* The first entry beyond MAX_TIMING_OPERATIONS overwrites timing_count:   *)
(* its name's pointer lands there, and its id on the pointer of entry 0.   *)
(* From then on the count is the half of an address, and no call that uses *)
(* the table is followed any more.                                         *)
(***************************************************************************)
EXTENDS Integers, Sequences, FiniteSets, SequencesExt

CONSTANTS Timer,     \* the threads
          Nobody,
          MaxTiming, \* MAX_TIMING_OPERATIONS
          Slow,      \* a duration over this is logged, with the mutex held
          MaxClock, MaxOpen  \* bounds of the model

\* What is assumed of the constants.
DiagConstants ==
  /\ Nobody \notin Timer /\ IsFiniteSet(Timer) /\ Timer # {}
  /\ {MaxTiming, Slow, MaxOpen} \subseteq Nat /\ MaxClock \in Nat \ {0}

VARIABLES
  diag,   \* diag_ctx exists
  quiet,  \* min_log_level is above RTMP_LOG_WARNING
  table,  \* timing_ids with timing_operations: what is being timed, for whom
  intact, \* nothing was written beyond them, so timing_count is their length
  stage,  \* where each thread is
  timing, \* the ids each thread holds
  owner,  \* holder of diag_ctx->mutex
  clock   \* get_timestamp_ms

diagVars == <<diag, quiet, table, intact, stage, timing, owner, clock>>

DiagStage == {"idle", "start", "end", "log", "relock"}
Record    == [id : 1..MaxClock, operation : Timer]

DiagnosticsInit ==
  /\ diag = FALSE /\ quiet = FALSE
  /\ table = <<>>
  /\ intact = TRUE
  /\ stage = [t \in Timer |-> "idle"]
  /\ timing = [t \in Timer |-> <<>>]
  /\ owner = Nobody
  /\ clock = 1

Moves(t, from, to) == stage[t] = from /\ stage' = [stage EXCEPT ![t] = to]

\* rtmp_diagnostic_init and shutdown; what was being timed is forgotten.
DiagInit ==
  /\ ~diag /\ diag' = TRUE /\ quiet' = FALSE
  /\ UNCHANGED <<table, intact, stage, timing, owner, clock>>
Shutdown ==
  /\ diag /\ intact /\ \A t \in Timer : stage[t] = "idle"
  /\ diag' = FALSE
  /\ table' = <<>>
  /\ timing' = [t \in Timer |-> <<>>]
  /\ UNCHANGED <<quiet, intact, stage, owner, clock>>

-----------------------------------------------------------------------------
(* rtmp_diagnostic_start_timing *)

MutCallStart(t) ==
  /\ diag /\ intact /\ Len(timing[t]) < MaxOpen
  /\ Moves(t, "idle", "start")
  /\ UNCHANGED <<diag, quiet, table, intact, timing, owner, clock>>
\* The count is tested before the mutex is taken.
CallStart(t) ==
  /\ diag /\ intact /\ Len(timing[t]) < MaxOpen /\ Len(table) < MaxTiming
  /\ Moves(t, "idle", "start")
  /\ UNCHANGED <<diag, quiet, table, intact, timing, owner, clock>>

MutStartTiming(t) ==
  /\ Moves(t, "start", "idle") /\ owner = Nobody
  /\ intact /\ Len(table) < MaxTiming
  /\ table' = Append(table, [id |-> clock - 1, operation |-> t])
  /\ timing' = [timing EXCEPT ![t] = Append(@, clock - 1)]
  /\ UNCHANGED <<diag, quiet, intact, owner, clock>>
StartTiming(t) ==
  /\ Moves(t, "start", "idle") /\ owner = Nobody
  /\ intact /\ Len(table) < MaxTiming
  /\ table' = Append(table, [id |-> clock, operation |-> t])
  /\ timing' = [timing EXCEPT ![t] = Append(@, clock)]
  /\ UNCHANGED <<diag, quiet, intact, owner, clock>>

\* Others filled the table between the test and the lock.
WritesBeyond(t) ==
  /\ Moves(t, "start", "idle") /\ owner = Nobody
  /\ intact /\ Len(table) >= MaxTiming
  /\ intact' = FALSE
  /\ UNCHANGED <<diag, quiet, table, timing, owner, clock>>

-----------------------------------------------------------------------------
(* rtmp_diagnostic_end_timing *)

CallEnd(t) ==
  /\ diag /\ timing[t] # <<>>
  /\ Moves(t, "idle", "end")
  /\ UNCHANGED <<diag, quiet, table, intact, timing, owner, clock>>

\* The first entry with the id goes and those behind it move up.
MutWithout(id) ==
  LET hit == {i \in DOMAIN table : table[i].id = id}
  IN  IF hit = {} THEN table ELSE SubSeq(table, 1, Len(table) - 1)
Without(id) ==
  LET hit == {i \in DOMAIN table : table[i].id = id}
  IN  IF hit = {} THEN table
      ELSE RemoveAt(table, CHOOSE i \in hit : \A j \in hit : i <= j)

Lasted(id) == clock - id

\* Nothing is logged: the operation was quick, or warnings are off.
EndTiming(t) == \E i \in DOMAIN timing[t] :
  /\ Moves(t, "end", "idle") /\ owner = Nobody /\ intact
  /\ Lasted(timing[t][i]) <= Slow \/ quiet
  /\ table' = Without(timing[t][i])
  /\ timing' = [timing EXCEPT ![t] = RemoveAt(@, i)]
  /\ UNCHANGED <<diag, quiet, intact, owner, clock>>

\* A slow operation: rtmp_log_warning ends in rtmp_diagnostic_log, which locks the
\* mutex this thread holds.
EndSlowTiming(t) ==
  /\ Moves(t, "end", "relock") /\ owner = Nobody /\ intact
  /\ \E i \in DOMAIN timing[t] : Lasted(timing[t][i]) > Slow
  /\ ~quiet
  /\ owner' = t
  /\ UNCHANGED <<diag, quiet, table, intact, timing, clock>>

-----------------------------------------------------------------------------
(* rtmp_diagnostic_log, get_stats, reset_stats, set_callback: one critical  *)
(* section each; and rtmp_diagnostic_set_level, without the mutex.          *)

CallLog(t) ==
  /\ diag /\ Moves(t, "idle", "log")
  /\ UNCHANGED <<diag, quiet, table, intact, timing, owner, clock>>
Log(t) ==
  /\ Moves(t, "log", "idle") /\ owner = Nobody
  /\ UNCHANGED <<diag, quiet, table, intact, timing, owner, clock>>

SetLogLevel ==
  /\ diag /\ quiet' = ~quiet
  /\ UNCHANGED <<diag, table, intact, stage, timing, owner, clock>>

Tick ==
  /\ clock < MaxClock /\ clock' = clock + 1
  /\ UNCHANGED <<diag, quiet, table, intact, stage, timing, owner>>

Locked(t) ==
  StartTiming(t) \/ WritesBeyond(t) \/ EndTiming(t) \/ EndSlowTiming(t) \/ Log(t)

DiagnosticsNext ==
  \/ DiagInit \/ Shutdown \/ SetLogLevel \/ Tick
  \/ \E t \in Timer : CallStart(t) \/ CallEnd(t) \/ CallLog(t) \/ Locked(t)

DiagnosticsSpec == DiagnosticsInit /\ [][DiagnosticsNext]_diagVars

-----------------------------------------------------------------------------
DiagnosticsTypeOK ==
  /\ diag \in BOOLEAN /\ quiet \in BOOLEAN
  /\ table \in Seq(Record) /\ intact \in BOOLEAN
  /\ stage \in [Timer -> DiagStage]
  /\ timing \in [Timer -> Seq(1..MaxClock)]
  /\ owner \in Timer \cup {Nobody}
  /\ clock \in 1..MaxClock

\* While the table is intact every operation being timed finds an entry with its id,
\* and no entry outlives its operation, although threads share ids and end in any
\* order (rtmp_diagnostics.c:219-249): for every id as many entries as operations.
TimingsMatch ==
  \A id \in 1..MaxClock :
    Cardinality({i \in DOMAIN table : table[i].id = id}) =
      Cardinality({p \in Timer \X (1..MaxOpen) :
                     p[2] \in DOMAIN timing[p[1]] /\ timing[p[1]][p[2]] = id})
EveryTimingFound == intact => TimingsMatch

\* The count is tested without the mutex (rtmp_diagnostics.c:195): threads may have
\* passed the test for which the table has no entry left, but never all of them.  So
\* what is first written beyond the arrays comes of two threads in start_timing at
\* once, and a single thread never overruns them.
StartersFit ==
  Len(table) + Cardinality({t \in Timer : stage[t] = "start"}) <=
    MaxTiming + Cardinality(Timer) - 1
OverrunNeedsTwo ==
  /\ intact => StartersFit
  /\ ~intact => Cardinality(Timer) > 1
=============================================================================
