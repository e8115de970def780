----------------------------- MODULE SnmpMetrics -----------------------------
(***************************************************************************)
(* The traffic of an interface: what its octet counters say each time it   *)
(* is observed, what is made of two readings (apps/api/src/snmp/metrics.ts)*)
(* and what the chart draws (apps/web/features/snmp/snmp-page.tsx).  Time  *)
(* passes in intervals between polls; a poll that fails leaves no reading. *)
(* A rate is kept as the octets it counts: dividing them by the time that  *)
(* has passed changes nothing in what is said here.                        *)
(***************************************************************************)
EXTENDS Integers, Sequences

Lists == INSTANCE SequencesExt

CONSTANTS
  Wrap,            \* 2^32: a 32-bit counter starts again there
  Retention,       \* SNMP_METRICS_RETENTION_DAYS, in intervals
  MaxTime, MaxOctets, MaxBoots, MaxReadings,  \* bounds
  Missing, NoRate

VARIABLES
  octets,    \* the device: octets counted since it started
  boots,     \* how often it has started
  passed,    \* octets that ever passed
  now,
  readings   \* SnmpInterfaceObservation, oldest first, and what was true then

metricVars == <<octets, boots, passed, now, readings>>

MetricInit ==
  octets = 0 /\ boots = 0 /\ passed = 0 /\ now = 0 /\ readings = <<>>

IntervalPasses(n) ==  \* and octets with it
  /\ now < MaxTime /\ now' = now + 1
  /\ passed + n <= MaxOctets /\ octets' = octets + n /\ passed' = passed + n
  /\ UNCHANGED <<boots, readings>>
Reboot ==
  /\ boots < MaxBoots /\ boots' = boots + 1 /\ octets' = 0
  /\ UNCHANGED <<passed, now, readings>>

(* A poll is completed: the agent of the device may lack the counters of   *)
(* 64 bits, or all of them.                                                *)
Reading(high, low) ==
  [at |-> now, high |-> high, low |-> low, boot |-> boots, passed |-> passed]
Observe ==
  /\ Len(readings) < MaxReadings
  /\ \E next \in {Reading(octets, octets % Wrap), Reading(Missing, octets % Wrap),
                  Reading(Missing, Missing)} :
       readings' = Append(readings, next)
  /\ UNCHANGED <<octets, boots, passed, now>>
PruneMetrics ==
  /\ readings # <<>> /\ Head(readings).at < now - Retention
  /\ readings' = SelectSeq(readings, LAMBDA r : r.at >= now - Retention)
  /\ UNCHANGED <<octets, boots, passed, now>>

MetricNext ==
  \/ IntervalPasses(1) \/ IntervalPasses(Wrap)
  \/ Reboot \/ Observe \/ PruneMetrics

(* counterPair: the counters of 64 bits when both readings have them.      *)
HasHigh(previous, current) == Missing \notin {previous.high, current.high}

(* megabitsPerSecond.  A bug: whatever counter goes back has wrapped.      *)
DeltaWrapping(from, to, wraps) == IF to < from THEN to - from + Wrap ELSE to - from
Delta(from, to, wraps) ==
  IF to >= from THEN to - from ELSE IF wraps THEN to - from + Wrap ELSE NoRate

(* interfaceTrafficRates, of reading i                                     *)
Rate(i) ==
  IF i = 1 \/ readings[i].at <= readings[i - 1].at THEN NoRate
  ELSE LET previous == readings[i - 1]
           current == readings[i]
       IN IF HasHigh(previous, current) THEN Delta(previous.high, current.high, FALSE)
          ELSE IF Missing \in {previous.low, current.low} THEN NoRate
          ELSE Delta(previous.low, current.low, TRUE)

(* pathFor: lines through readings with a rate, broken where one has none  *)
(* and where more than two intervals have passed.                          *)
Gap(i) == i > 1 /\ readings[i].at - readings[i - 1].at > 2
Begun(segments, i) ==
  LET broken == IF Gap(i) THEN Append(segments, <<>>) ELSE segments
  IN IF broken = <<>> \/ Lists!Last(broken) = <<>> \/ (i > 1 /\ Rate(i - 1) = NoRate)
     THEN Append(broken, <<>>) ELSE broken
Extended(segments, i) ==
  IF Rate(i) = NoRate THEN segments
  ELSE LET begun == Begun(segments, i) IN Lists!Front(begun) \o <<Append(Lists!Last(begun), i)>>
Lines ==
  SelectSeq(Lists!FoldLeft(Extended, <<>>, [i \in 1 .. Len(readings) |-> i]),
            LAMBDA line : Len(line) > 1)
-----------------------------------------------------------------------------
MetricTypeOK ==
  /\ {octets, passed} \subseteq 0 .. MaxOctets /\ boots \in 0 .. MaxBoots /\ now \in 0 .. MaxTime
  /\ Len(readings) <= MaxReadings
  /\ \A i \in DOMAIN readings :
       readings[i] \in [at : 0 .. MaxTime, high : 0 .. MaxOctets \cup {Missing},
                        low : 0 .. Wrap - 1 \cup {Missing}, boot : 0 .. MaxBoots, passed : 0 .. MaxOctets]

(* A rate never counts more than what passed, and counts all of it: but    *)
(* for whole turns of a counter of 32 bits, and for what was lost when the *)
(* device started again between the readings.  After a start, a counter of *)
(* 32 bits counts up to a turn too many.                                   *)
RateIsTrue(i) ==
  LET previous == readings[i - 1]
      current == readings[i]
      truth == current.passed - previous.passed
  IN IF current.boot = previous.boot
     THEN IF HasHigh(previous, current) THEN Rate(i) = truth ELSE Rate(i) = truth % Wrap
     ELSE IF HasHigh(previous, current) THEN Rate(i) \in 0 .. truth ELSE Rate(i) \in 0 .. Wrap - 1

(* A line of the chart joins a reading to the next one only: both have a   *)
(* rate, and at most two intervals lie between them.  Every such pair is   *)
(* joined.                                                                 *)
RatesAreTrue ==
  /\ \A i \in DOMAIN readings : Rate(i) # NoRate => RateIsTrue(i)
  /\ LET lines == Lines
     IN {edge \in (DOMAIN readings) \X (DOMAIN readings) :
           \E n \in DOMAIN lines : \E j \in 1 .. Len(lines[n]) - 1 :
             edge = <<lines[n][j], lines[n][j + 1]>>}
        = {<<i, i + 1>> : i \in {j \in 1 .. Len(readings) - 1 :
             Rate(j) # NoRate /\ Rate(j + 1) # NoRate /\ ~Gap(j + 1)}}
=============================================================================
