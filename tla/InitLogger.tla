----------------------------- MODULE InitLogger -----------------------------
(***************************************************************************)
(* initLogger, called by several threads or several times, and the sizes   *)
(* with units that its settings have.  spdlog keeps one thread pool and    *)
(* one default logger for the process; a logger only has a weak pointer to *)
(* the pool it was made with, and writes nothing when that pool is gone.   *)
(*                                                                         *)
(* A size like 12GB is a number and a unit.  A size_t has SizeRange values *)
(* and a unit is Kilo times the one before, so that small instances        *)
(* overflow.                                                               *)
(***************************************************************************)
EXTENDS Integers

CONSTANTS
  Callers,    \* threads that call initLogger
  Capacity,   \* sizes that occur in settings, see Empty
  Unit,       \* what may stand behind a number, "none" for nothing
  Kilo,       \* 1024
  SizeRange,  \* how many values a size_t or a long has, 2^64
  MaxCalls    \* bound: how many calls there are in all

Empty == [num |-> 0, unit |-> "empty"]     \* the empty text
NoSize == [num |-> 0, unit |-> "default"]  \* no max_size in the settings
NoFile == [num |-> 0, unit |-> "no file"]  \* only2std, no file at all
Thrown == -1

ASSUME InitLoggerAssumption ==
  /\ {"none", "B", "KB", "MB", "GB"} \subseteq Unit
  /\ Capacity \subseteq {Empty} \union [num : Int, unit : Unit]
  /\ NoSize \notin Capacity /\ NoFile \notin Capacity
  /\ Kilo \in Nat \ {0, 1} /\ SizeRange \in Nat /\ MaxCalls \in Nat
  /\ Kilo * Kilo * Kilo < SizeRange

-----------------------------------------------------------------------------
(* ReadSetting.cpp                                                         *)

unitMap == [u \in {"B", "KB", "MB", "GB"} |->
              CASE u = "B" -> 1 [] u = "KB" -> Kilo
                [] u = "MB" -> Kilo * Kilo [] u = "GB" -> Kilo * Kilo * Kilo]

(* Variant: a number without a unit is one of bytes.                       *)
FactorOne(c) == unitMap[IF c.unit \in DOMAIN unitMap THEN c.unit ELSE "B"]

(* The unit, and MB unless it is in the table.                             *)
Factor(c) == unitMap[IF c.unit \in DOMAIN unitMap THEN c.unit ELSE "MB"]

LongMax == (SizeRange \div 2) - 1

(* strtol stops at the largest and the smallest long.                      *)
Strtol(n) ==
  IF n > LongMax THEN LongMax ELSE IF n < -LongMax - 1 THEN -LongMax - 1 ELSE n

(* long times size_t is a size_t, which wraps round.                       *)
GetUnitConversionValue(c) ==
  IF c = Empty THEN unitMap["MB"]
  ELSE IF Strtol(c.num) = -1 THEN Thrown
  ELSE (Strtol(c.num) * Factor(c)) % SizeRange

-----------------------------------------------------------------------------
VARIABLES
  inited,     \* inited_
  pool,       \* the pool of spdlog's registry; pools are numbered, 0 is none
  default,    \* the default logger: its pool and the size it limits files to
  callAt,     \* where each caller is in initLogger
  size,       \* max_size in the settings of its call
  limit,      \* maxSize, as far as it is computed
  made,       \* history: the pool that the call has made
  logger,     \* the logger it has made, with the pool its call made, own
  calls       \* how many calls there were

callVars == <<callAt, size, limit, made, logger>>
loggerVars == <<inited, pool, default, callVars, calls>>

NoLogger == [own |-> 0, pool |-> 0, limit |-> 0, size |-> NoFile]
Inside(c) == callAt[c] # "out"

LoggerInit ==
  /\ inited = FALSE
  /\ pool = 0
  /\ default = NoLogger
  /\ callAt = [c \in Callers |-> "out"]
  /\ size = [c \in Callers |-> NoFile]
  /\ limit = [c \in Callers |-> 0]
  /\ made = [c \in Callers |-> 0]
  /\ logger = [c \in Callers |-> NoLogger]
  /\ calls = 0

(* inited_ is looked at, and nothing ever sets it.                         *)
Call(c, s) ==
  /\ ~Inside(c) /\ calls < MaxCalls
  /\ calls' = calls + 1
  /\ IF inited THEN UNCHANGED callVars
     ELSE /\ callAt' = [callAt EXCEPT ![c] = "pool"]
          /\ size' = [size EXCEPT ![c] = s]
          /\ UNCHANGED <<limit, made, logger>>
  /\ UNCHANGED <<inited, pool, default>>

(* The registry lets go of the pool it had, which ends with that.          *)
InitThreadPool(c) ==
  /\ callAt[c] = "pool"
  /\ pool' = pool + 1
  /\ made' = [made EXCEPT ![c] = pool + 1]
  /\ callAt' = [callAt EXCEPT ![c] = "sinks"]
  /\ UNCHANGED <<inited, default, size, limit, logger, calls>>

(* The size that the file is limited to: 1G unless there is a max_size.    *)
MaxSize(s) ==
  IF s = NoFile THEN 0 ELSE IF s = NoSize THEN Kilo * Kilo * Kilo ELSE GetUnitConversionValue(s)

MakeSinks(c) ==
  /\ callAt[c] = "sinks"
  /\ limit' = [limit EXCEPT ![c] = MaxSize(size[c])]
  /\ limit'[c] # Thrown
  /\ callAt' = [callAt EXCEPT ![c] = "logger"]
  /\ UNCHANGED <<inited, pool, default, size, made, logger, calls>>

(* The conversion, the file of the sink, a level that is not in the table, *)
(* a setting of another type: whatever throws, the pool is a new one.      *)
Throw(c) ==
  /\ callAt[c] \in {"sinks", "logger"}
  /\ callAt' = [callAt EXCEPT ![c] = "out"]
  /\ UNCHANGED <<inited, pool, default, size, limit, made, logger, calls>>

(* Variant: the logger is made before the pool that is meant for it.       *)
MakeLoggerEarly(c) ==
  /\ callAt[c] = "logger"
  /\ logger' = [logger EXCEPT ![c] =
       [own |-> made[c], pool |-> default.pool, limit |-> limit[c], size |-> size[c]]]
  /\ callAt' = [callAt EXCEPT ![c] = "default"]
  /\ UNCHANGED <<inited, pool, default, size, limit, made, calls>>

(* The logger is made with the pool that the registry has by now.          *)
MakeLogger(c) ==
  /\ callAt[c] = "logger"
  /\ logger' = [logger EXCEPT ![c] =
       [own |-> made[c], pool |-> pool, limit |-> limit[c], size |-> size[c]]]
  /\ callAt' = [callAt EXCEPT ![c] = "default"]
  /\ UNCHANGED <<inited, pool, default, size, limit, made, calls>>

SetDefaultLogger(c) ==
  /\ callAt[c] = "default"
  /\ default' = logger[c]
  /\ callAt' = [callAt EXCEPT ![c] = "out"]
  /\ UNCHANGED <<inited, pool, size, limit, made, logger, calls>>

LoggerNext ==
  \E c \in Callers :
    \/ \E s \in Capacity \union {NoSize, NoFile} : Call(c, s)
    \/ InitThreadPool(c) \/ MakeSinks(c) \/ Throw(c)
    \/ MakeLogger(c) \/ SetDefaultLogger(c)

LoggerSpec == LoggerInit /\ [][LoggerNext]_loggerVars

-----------------------------------------------------------------------------
(* Somebody writes what is logged, that is, the pool of the default logger *)
(* is the one that lives, unless a call made a pool after the call that    *)
(* set this logger had made its own: one that is under way, one that threw *)
(* since, or one that the other has overtaken.  So nothing but these can   *)
(* leave the process with a logger that drops everything, and any call     *)
(* that gets through on its own puts it right.                             *)
DefaultLoggerWrites == default.own = pool => default.pool = pool

(* What the units say, whatever the table has.  The tests of               *)
(* GetUnitConversionValue say what no unit and no text mean, and the       *)
(* default of initLogger what a G is.                                      *)
Bytes == [u \in {"B", "KB", "MB", "GB", "G", "none"} |->
            CASE u = "B" -> 1 [] u = "KB" -> Kilo
              [] u \in {"MB", "none"} -> Kilo * Kilo [] u \in {"GB", "G"} -> Kilo * Kilo * Kilo]
Meant(c) == IF c = Empty THEN Bytes["none"] ELSE c.num * Bytes[c.unit]

(* A number that a long holds, and a size that a size_t does.              *)
Fits(c) == c.num <= LongMax /\ Meant(c) \in 0 .. SizeRange - 1

(* The file is limited to what the settings say when that fits, with any   *)
(* unit of the table, without one, or with no text at all.                 *)
SizeAsMeant ==
  LET c == default.size
  IN c \in Capacity /\ (c = Empty \/ c.unit \in {"B", "KB", "MB", "GB", "none"}) /\ Fits(c) =>
       default.limit = Meant(c)

(* So it is with a G, which is what initLogger calls its own default and   *)
(* what the settings of the repository ask for.  The table has no G.       *)
GIsGigabytes ==
  LET c == default.size
  IN c \in Capacity /\ c.unit = "G" /\ Fits(c) => default.limit = Meant(c)

=============================================================================
