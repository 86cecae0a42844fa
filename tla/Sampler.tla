------------------------------ MODULE Sampler ------------------------------
(***************************************************************************)
(* main() of localsoftware.cpp after it has started the server thread:     *)
(* once a second it reads the interface's byte counters, publishes the     *)
(* difference as the speed, and adds it to the sums of the hour and the    *)
(* day, which it writes to the log when the clock shows another hour.      *)
(* Received and sent bytes are treated alike; this is one of the two.      *)
(*                                                                         *)
(* The clock is the system's: it may be set, and jumps while the machine   *)
(* sleeps.  read_bytes answers 0 when it cannot read the counter, and a    *)
(* line is lost when the log cannot be opened.                             *)
(***************************************************************************)
EXTENDS Integers

CONSTANTS
    Days, Hours,  \* what the local clock may show
    MaxTraffic,   \* bound: bytes that the interface moves
    MaxSamples    \* bound: turns of the loop

ASSUME SamplerAssumption == MaxTraffic \in Nat /\ MaxSamples \in Nat

VARIABLES
    traffic,  \* bytes the interface has moved since the program started
    counter,  \* rx_bytes
    prev,     \* rx_prev
    speed,    \* global_rx_speed
    hourly,   \* hourly_rx
    daily,    \* daily_rx
    since,    \* prev and prev_hms: the date and hour of the last change
    now,      \* now and now_hms
    main,     \* where the loop is
    samples,  \* turns made
    hours,    \* history: sum of the lines of hours since the last line of a day
    counted,  \* history: sum of all lines of hours
    seen,     \* history: traffic when the counter was last read
    line,     \* history: the last line of a day, and what hours was then
    fault     \* history: what has gone wrong

samplerVars == <<traffic, counter, prev, speed, hourly, daily, since, now, main,
                 samples, hours, counted, seen, line, fault>>

Clock == [day : Days, hour : Hours]
-----------------------------------------------------------------------------
\* The interface moves a byte, or is taken down and set up again.
Move ==
    /\ traffic < MaxTraffic
    /\ traffic' = traffic + 1 /\ counter' = counter + 1
    /\ UNCHANGED <<prev, speed, hourly, daily, since, now, main, samples, hours,
                   counted, seen, line, fault>>
Replug ==
    /\ counter > 0
    /\ counter' = 0
    /\ fault' = fault \union {"replugged"}
    /\ UNCHANGED <<traffic, prev, speed, hourly, daily, since, now, main, samples,
                   hours, counted, seen, line>>

\* read_bytes: the counter, or 0.
ReadBytes == {counter, 0}
Misread(curr) == IF curr = counter THEN {} ELSE {"misread"}

\* One turn of the loop up to the comparison of hours.
\* Broken form: rx_prev only follows a counter that grows.
SampleKeepsPrev ==
    /\ main = "sleep" /\ samples < MaxSamples
    /\ samples' = samples + 1
    /\ \E curr \in ReadBytes, t \in Clock :
          LET diff == IF curr >= prev THEN curr - prev ELSE 0
          IN /\ speed' = diff
             /\ hourly' = hourly + diff /\ daily' = daily + diff
             /\ prev' = IF diff > 0 THEN prev ELSE curr
             /\ fault' = fault \union Misread(curr)
             /\ now' = t
             /\ main' = IF t.hour # since.hour THEN "hour" ELSE "sleep"
    /\ seen' = traffic
    /\ UNCHANGED <<traffic, counter, since, hours, counted, line>>
Sample ==
    /\ main = "sleep" /\ samples < MaxSamples
    /\ samples' = samples + 1
    /\ \E curr \in ReadBytes, t \in Clock :
          LET diff == IF curr >= prev THEN curr - prev ELSE 0
          IN /\ speed' = diff
             /\ hourly' = hourly + diff /\ daily' = daily + diff
             /\ prev' = curr
             /\ fault' = fault \union Misread(curr)
             /\ now' = t
             /\ main' = IF t.hour # since.hour THEN "hour" ELSE "sleep"
    /\ seen' = traffic
    /\ UNCHANGED <<traffic, counter, since, hours, counted, line>>

\* log_entry, called for the hour and for the day: the line, and then the
\* statistics (VisitStats), after which the loop goes on in LoggedHour or LoggedDay.
LogHour ==
    /\ main = "hour" /\ main' = "hour stats"
    /\ \/ hours' = hours + hourly /\ counted' = counted + hourly /\ UNCHANGED fault
       \/ fault' = fault \union {"lost"} /\ UNCHANGED <<hours, counted>>
    /\ UNCHANGED <<traffic, counter, prev, speed, hourly, daily, since, now, samples,
                   seen, line>>
LogDay ==
    /\ main = "day" /\ main' = "day stats"
    /\ \/ line' = [amount |-> daily, hours |-> hours] /\ UNCHANGED fault
       \/ fault' = fault \union {"lost"} /\ UNCHANGED line
    /\ hours' = 0
    /\ UNCHANGED <<traffic, counter, prev, speed, hourly, daily, since, now, samples,
                   counted, seen>>

\* Broken form: the day is begun anew with every hour's line.
LoggedHourAndDay ==
    /\ main = "hour stats"
    /\ hourly' = 0 /\ daily' = 0
    /\ IF since.day # now.day THEN main' = "day" /\ UNCHANGED since
       ELSE main' = "sleep" /\ since' = now
    /\ UNCHANGED <<traffic, counter, prev, speed, now, samples, hours, counted,
                   seen, line, fault>>
LoggedHour ==
    /\ main = "hour stats"
    /\ hourly' = 0
    /\ IF since.day # now.day THEN main' = "day" /\ UNCHANGED since
       ELSE main' = "sleep" /\ since' = now
    /\ UNCHANGED <<traffic, counter, prev, speed, daily, now, samples, hours, counted,
                   seen, line, fault>>
LoggedDay ==
    /\ main = "day stats"
    /\ daily' = 0
    /\ main' = "sleep" /\ since' = now
    /\ UNCHANGED <<traffic, counter, prev, speed, hourly, now, samples, hours, counted,
                   seen, line, fault>>

SamplerInit ==
    /\ traffic = 0 /\ seen = 0
    /\ counter \in 0 .. 1 /\ prev \in ReadBytes
    /\ fault = Misread(prev)
    /\ speed = 0 /\ hourly = 0 /\ daily = 0
    /\ since \in Clock /\ now = since
    /\ main = "sleep" /\ samples = 0
    /\ hours = 0 /\ counted = 0 /\ line = [amount |-> 0, hours |-> 0]

Interface == Move \/ Replug
SamplerNext == Interface \/ Sample \/ LogHour \/ LogDay \/ LoggedHour \/ LoggedDay
SamplerSpec == SamplerInit /\ [][SamplerNext]_samplerVars
-----------------------------------------------------------------------------
\* Types of the variables.
SamplerTypeOK ==
    /\ traffic \in Nat /\ counter \in Nat /\ prev \in Nat /\ speed \in Nat
    /\ hourly \in Nat /\ daily \in Nat /\ samples \in Nat
    /\ hours \in Nat /\ counted \in Nat /\ seen \in Nat
    /\ since \in Clock /\ now \in Clock
    /\ main \in {"sleep", "hour", "hour stats", "day", "day stats"}
    /\ line \in [amount : Nat, hours : Nat]
    /\ fault \subseteq {"misread", "replugged", "lost"}

\* What has been counted but is in no line of an hour yet.
Unlogged == IF main = "hour stats" THEN 0 ELSE hourly

\* While no line is lost the log is a set of books: the line of a day is the
\* sum of its hours' lines, whenever the clock was set and however long a turn took.
Books ==
    "lost" \notin fault =>
        /\ line.amount = line.hours
        /\ main # "day stats" => daily = hours + Unlogged

\* While the counter could be read, no byte is counted twice, and none is
\* missed unless the interface was set up again.
CountedOnce ==
    {"misread", "lost"} \intersect fault = {} =>
        /\ counted + Unlogged <= seen
        /\ "replugged" \notin fault => counted + Unlogged = seen
=============================================================================
