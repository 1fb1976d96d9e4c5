---------------------------- MODULE RtmpQuality ----------------------------
(***************************************************************************)
(* The quality controller of src/rtmp_quality.c, driven by one thread that *)
(* reports measurements and asks for an adjustment at least every five     *)
(* seconds.  Levels are ordered as the code's enumeration orders them,     *)
(* with AUTO above HIGH.                                                   *)
(*                                                                         *)
(* update_bitrate and update_fps are taken with the values they store; the *)
(* products of floating-point factors are truncated, as the casts do.      *)
(***************************************************************************)
EXTENDS Integers

CONSTANTS Rates,     \* currentBitrate, as measured
          Buffers,   \* bufferHealth, in milliseconds
          Drops,     \* droppedFrames
          Latencies, \* latency
          Times,     \* encodingTime and sendingTime
          CustomRate, CustomFPS  \* targets an application sets itself

\* What is assumed of the constants: 1000 is divided by the frame rate, and by 0.8
\* of it, unguarded.
QualityConstants ==
  /\ Rates \cup Buffers \cup Drops \cup Latencies \cup Times
       \cup {CustomRate, CustomFPS} \subseteq Nat
  /\ CustomFPS > 1

VARIABLES
  level,   \* config.level
  target,  \* config.targetBitrate and targetFPS
  stats,   \* the measurements
  applied  \* a level's targets hold: none was set by hand since

qualityVars == <<level, target, stats, applied>>

LOW == 0    MEDIUM == 1    HIGH == 2    AUTO == 3
Level == LOW..AUTO

LevelTarget ==
  [l \in {LOW, MEDIUM, HIGH} |->
     CASE l = LOW    -> [rate |-> 400000,  fps |-> 15]
       [] l = MEDIUM -> [rate |-> 1000000, fps |-> 24]
       [] l = HIGH   -> [rate |-> 2500000, fps |-> 30]]

BUFFER_HEALTH_TARGET == 3000
MAX_LATENCY == 5000

\* calloc, and again the memset of rtmp_quality_reset_stats.
NoStats == [rate |-> 0, fps |-> 0, drops |-> 0, buffer |-> 0,
            encode |-> 0, send |-> 0, latency |-> 0]

QualityInit ==
  /\ level = AUTO
  /\ target = LevelTarget[MEDIUM]
  /\ stats = NoStats
  /\ applied = TRUE

-----------------------------------------------------------------------------
Clamp(x, low, high) == IF x < low THEN low ELSE IF x > high THEN high ELSE x
Part(x, tenths)     == (x * tenths) \div 10

\* calculate_optimal_bitrate
MutOptimalBitrate(s) ==
  LET a == CASE s.buffer < BUFFER_HEALTH_TARGET     -> Part(s.rate, 8)
             [] s.buffer > 2 * BUFFER_HEALTH_TARGET -> Part(s.rate, 12)
             [] OTHER -> s.rate
  IN  IF s.latency > MAX_LATENCY THEN Part(a, 8) ELSE a
OptimalBitrate(s) ==
  LET a == CASE s.buffer < BUFFER_HEALTH_TARGET     -> Part(s.rate, 8)
             [] s.buffer > 2 * BUFFER_HEALTH_TARGET -> Part(s.rate, 12)
             [] OTHER -> s.rate
      b == IF s.drops > 0 THEN Part(a, 9) ELSE a
      c == IF s.latency > MAX_LATENCY THEN Part(b, 8) ELSE b
  IN  Clamp(c, LevelTarget[LOW].rate, LevelTarget[HIGH].rate)

\* calculate_optimal_fps, twice: for encoding, and for sending with what is left.
Slowed(fps, time) == IF time > 1000 \div fps THEN Part(fps, 8) ELSE fps
OptimalFPS(s, fps) ==
  Clamp(Slowed(Slowed(fps, s.encode), s.send),
        LevelTarget[LOW].fps, LevelTarget[HIGH].fps)

\* apply_quality_level
Applied(l) ==
  IF l = AUTO
  THEN [rate |-> OptimalBitrate(stats), fps |-> OptimalFPS(stats, target.fps)]
  ELSE LevelTarget[l]

Overrun(percent) ==
  100 * (stats.encode + stats.send) > percent * (1000 \div target.fps)

ShouldDecrease ==
  \/ stats.buffer < BUFFER_HEALTH_TARGET \div 2
  \/ stats.drops > stats.fps \div 2
  \/ 2 * stats.latency > 3 * MAX_LATENCY
  \/ 10 * stats.rate > 12 * target.rate
  \/ Overrun(100)

\* Its last test wants ten seconds since the last check, which is now.
ShouldIncrease ==
  /\ stats.buffer >= BUFFER_HEALTH_TARGET
  /\ stats.drops = 0 /\ stats.latency <= MAX_LATENCY
  /\ stats.rate <= target.rate
  /\ ~Overrun(80)
  /\ LET sinceLastCheck == 0 IN sinceLastCheck >= 10000

-----------------------------------------------------------------------------
(* The application *)

SetQualityLevel ==
  /\ level' \in Level \ {level}
  /\ target' = Applied(level')
  /\ applied' = TRUE
  /\ UNCHANGED stats

SetTarget ==
  /\ \/ target' = [target EXCEPT !.rate = CustomRate]
     \/ target' = [target EXCEPT !.fps = CustomFPS]
  /\ applied' = FALSE
  /\ UNCHANGED <<level, stats>>

\* The update functions and add_dropped_frame; reset_stats clears them all.
Measure ==
  /\ \/ \E r \in Rates     : stats' = [stats EXCEPT !.rate = r]
     \/ \E f \in {0, 30}   : stats' = [stats EXCEPT !.fps = f]
     \/ \E d \in Drops     : stats' = [stats EXCEPT !.drops = d]
     \/ \E b \in Buffers   : stats' = [stats EXCEPT !.buffer = b]
     \/ \E l \in Latencies : stats' = [stats EXCEPT !.latency = l]
     \/ \E e, s \in Times  : stats' = [stats EXCEPT !.encode = e, !.send = s]
     \/ stats' = NoStats
  /\ UNCHANGED <<level, target, applied>>

\* adjust_quality: a step down or up.  The level it applies is not stored.
NewLevel ==
  CASE ShouldDecrease /\ level > LOW  -> level - 1
    [] ~ShouldDecrease /\ ShouldIncrease /\ level < HIGH -> level + 1
    [] OTHER -> level
AdjustQuality ==
  /\ IF NewLevel = level THEN UNCHANGED <<target, applied>>
     ELSE target' = Applied(NewLevel) /\ applied' = TRUE
  /\ UNCHANGED <<level, stats>>

\* rtmp_quality_check_and_adjust, five seconds after the last check.
CheckAndAdjust == level = AUTO /\ AdjustQuality

QualityNext == SetQualityLevel \/ SetTarget \/ Measure \/ CheckAndAdjust

QualitySpec == QualityInit /\ [][QualityNext]_qualityVars

-----------------------------------------------------------------------------
QualityTypeOK ==
  /\ level \in Level
  /\ target \in [rate : Nat, fps : Nat \ {0}]
  /\ stats \in [rate : Rates \cup {0}, fps : {0, 30}, drops : Drops \cup {0},
                buffer : Buffers \cup {0}, encode : Times \cup {0},
                send : Times \cup {0}, latency : Latencies \cup {0}]
  /\ applied \in BOOLEAN

\* Whatever was measured, however many factors multiply and in whatever order
\* levels are set, the targets a level sets are between those of LOW and HIGH, and
\* the frame rate, by which the controller divides, is not 0 (rtmp_quality.c:267,
\* 290).
TargetsInRange ==
  applied => /\ target.rate \in LevelTarget[LOW].rate..LevelTarget[HIGH].rate
             /\ target.fps  \in LevelTarget[LOW].fps..LevelTarget[HIGH].fps
=============================================================================
