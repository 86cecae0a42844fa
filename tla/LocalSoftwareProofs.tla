---------------------- MODULE LocalSoftwareProofs ----------------------
(* Proofs about the process and about the two of its parts that it is      *)
(* composed of with nothing in between: ids are unique for every set of    *)
(* threads and every block size (IdBlocks), and the log's sums are right   *)
(* for every clock, any traffic and any number of samples (Sampler).  The  *)
(* two threads of the process do not disturb each other: what draws ids in *)
(* it is IdBlocks and what samples is Sampler, so that what is proved of   *)
(* these holds of the process; and start() leaves the running ThreadData   *)
(* where it is.                                                            *)
EXTENDS LocalSoftware, TLAPS

-----------------------------------------------------------------------------
(* The ids (IdBlocks).                                                      *)

IInv == TypeOK /\ BlockOwned

\* Blocks with different numbers share no id (arithmetic behind get_proc_id's
\* 1000 * block).
LEMMA BlocksDisjoint ==
    ASSUME NEW b \in Nat, NEW d \in Nat, b < d
    PROVE  BlockSize * b + BlockSize <= BlockSize * d
<1>1. d >= b + 1
  OBVIOUS
<1>2. BlockSize * (b + 1) = BlockSize * b + BlockSize
  BY BlockSizeAssumption
<1>3. PICK k \in Nat : d = (b + 1) + k
  <2>1. d - (b + 1) \in Nat /\ d = (b + 1) + (d - (b + 1))
    BY <1>1
  <2>2. QED
    BY <2>1
<1>4. BlockSize * ((b + 1) + k) = BlockSize * (b + 1) + BlockSize * k
  BY BlockSizeAssumption, <1>3
<1>5. BlockSize * k >= 0
  BY BlockSizeAssumption, <1>3
<1>6. QED
  BY <1>2, <1>3, <1>4, <1>5, BlockSizeAssumption

LEMMA InitIInv == Init => IInv
BY DEF Init, IInv, TypeOK, BlockOwned

LEMMA FetchIInv ==
    ASSUME IInv, NEW a \in Allocators, FetchBlock(a)
    PROVE  IInv'
<1> USE BlockSizeAssumption DEF IInv, FetchBlock
<1>1. BlockSize * block \in Nat
  BY DEF TypeOK
<1>2. TypeOK'
  BY <1>1 DEF TypeOK
<1>3. \A b \in 0 .. block - 1 : BlockSize * b + BlockSize <= BlockSize * block
  BY BlocksDisjoint DEF TypeOK
<1>4. \A i \in issued : i < BlockSize * block
  <2> SUFFICES ASSUME NEW i \in issued
               PROVE  i < BlockSize * block
    OBVIOUS
  <2>1. PICK b \in 0 .. block - 1 :
           i \in BlockSize * b .. BlockSize * b + BlockSize - 1
    BY DEF BlockOwned
  <2>2. b \in Nat /\ BlockSize * b \in Int /\ i \in Int
    BY <2>1 DEF TypeOK
  <2>3. QED
    BY <1>1, <1>3, <2>1, <2>2 DEF TypeOK
<1>5. \A o \in Allocators : init[o] => base[o] < BlockSize * block
  <2> SUFFICES ASSUME NEW o \in Allocators, init[o]
               PROVE  base[o] < BlockSize * block
    OBVIOUS
  <2>1. PICK b \in 0 .. block - 1 : base[o] = BlockSize * b
    BY DEF BlockOwned
  <2>2. base[o] \in Nat
    BY DEF TypeOK
  <2>3. QED
    BY <1>1, <1>3, <2>1, <2>2 DEF TypeOK
<1>6. ASSUME NEW i \in issued'
      PROVE  \E b \in 0 .. block' - 1 :
                i \in BlockSize * b .. BlockSize * b + BlockSize - 1
  BY <1>6 DEF BlockOwned, TypeOK
<1>7. ASSUME NEW o \in Allocators, init'[o]
      PROVE  /\ \E b \in 0 .. block' - 1 : base'[o] = BlockSize * b
             /\ curr'[o] \in base'[o] .. base'[o] + BlockSize
             /\ \A i \in issued' :
                   ~(i \in curr'[o] .. base'[o] + BlockSize - 1)
             /\ \A p \in Allocators \ {o} : init'[p] => base'[p] # base'[o]
  <2>1. CASE o = a
    <3>1. base'[a] = BlockSize * block /\ curr'[a] = BlockSize * block
      BY DEF TypeOK
    <3>2. block \in 0 .. block' - 1
      BY DEF TypeOK
    <3>3. \A i \in issued' : i \in Nat /\ i < BlockSize * block
      BY <1>4 DEF TypeOK
    <3>4. \A p \in Allocators \ {a} :
             init'[p] => base'[p] \in Nat /\ base'[p] < BlockSize * block
      BY <1>5 DEF TypeOK
    <3>5. QED
      BY <1>1, <2>1, <3>1, <3>2, <3>3, <3>4
  <2>2. CASE o # a
    <3>1. init[o] /\ base'[o] = base[o] /\ curr'[o] = curr[o]
      BY <1>7, <2>2 DEF TypeOK
    <3>2. \E b \in 0 .. block' - 1 : base[o] = BlockSize * b
      BY <3>1 DEF BlockOwned, TypeOK
    <3>3. base'[a] = BlockSize * block /\ base[o] < BlockSize * block
          /\ base[o] \in Nat
      BY <1>5, <3>1 DEF TypeOK
    <3>4. \A p \in Allocators \ {o} : init'[p] => base'[p] # base'[o]
      BY <1>1, <3>1, <3>3 DEF BlockOwned, TypeOK
    <3>5. QED
      BY <3>1, <3>2, <3>4 DEF BlockOwned, TypeOK
  <2>3. QED
    BY <2>1, <2>2
<1>8. QED
  BY <1>2, <1>6, <1>7 DEF BlockOwned

LEMMA ReturnIInv ==
    ASSUME IInv, NEW a \in Allocators, ReturnId(a)
    PROVE  IInv' /\ curr[a] \notin issued
<1> USE BlockSizeAssumption DEF IInv, ReturnId, Exhausted
<1>1. TypeOK'
  <2>1. curr[a] \in Nat /\ curr' \in [Allocators -> Nat]
    BY DEF TypeOK
  <2>2. issued' \in SUBSET Nat
    BY <2>1 DEF TypeOK
  <2>3. QED
    BY <2>1, <2>2 DEF TypeOK
<1>2. PICK b \in 0 .. block - 1 : base[a] = BlockSize * b
  BY DEF BlockOwned
<1>3. /\ curr[a] \in Nat /\ base[a] \in Nat
      /\ curr[a] >= base[a] /\ curr[a] < base[a] + BlockSize
  BY DEF BlockOwned, TypeOK
<1>4. curr[a] \notin issued
  BY <1>3 DEF BlockOwned, TypeOK
<1>5. ASSUME NEW i \in issued'
      PROVE  \E d \in 0 .. block' - 1 :
                i \in BlockSize * d .. BlockSize * d + BlockSize - 1
  <2>1. CASE i = curr[a]
    BY <1>2, <1>3, <2>1
  <2>2. CASE i \in issued
    BY <2>2 DEF BlockOwned
  <2>3. QED
    BY <1>5, <2>1, <2>2
<1>6. ASSUME NEW o \in Allocators, init'[o]
      PROVE  /\ \E d \in 0 .. block' - 1 : base'[o] = BlockSize * d
             /\ curr'[o] \in base'[o] .. base'[o] + BlockSize
             /\ \A i \in issued' :
                   ~(i \in curr'[o] .. base'[o] + BlockSize - 1)
             /\ \A p \in Allocators \ {o} : init'[p] => base'[p] # base'[o]
  <2>1. CASE o = a
    <3>1. curr'[a] = curr[a] + 1 /\ base'[a] = base[a]
      BY DEF TypeOK
    <3>2. \A i \in issued' : ~(i \in curr'[a] .. base[a] + BlockSize - 1)
      BY <1>3, <3>1 DEF BlockOwned, TypeOK
    <3>3. QED
      BY <1>3, <2>1, <3>1, <3>2 DEF BlockOwned
  <2>2. CASE o # a
    <3>1. curr'[o] = curr[o] /\ base' = base /\ init[o] /\ block' = block
      BY <1>6, <2>2 DEF TypeOK
    <3>2. PICK d \in 0 .. block - 1 : base[o] = BlockSize * d
      BY <3>1 DEF BlockOwned
    <3>3. b # d /\ b \in Nat /\ d \in Nat
      BY <1>2, <2>2, <3>1, <3>2 DEF BlockOwned, TypeOK
    <3>4. /\ b < d => base[a] + BlockSize <= base[o]
          /\ d < b => base[o] + BlockSize <= base[a]
      BY <1>2, <3>2, <3>3, BlocksDisjoint
    <3>5. /\ base[o] \in Nat /\ curr[o] \in Nat
          /\ curr[o] >= base[o]
      BY <3>1 DEF BlockOwned, TypeOK
    <3>6. ~(curr[a] \in curr[o] .. base[o] + BlockSize - 1)
      BY <1>3, <3>3, <3>4, <3>5
    <3>7. \A i \in issued' : ~(i \in curr'[o] .. base'[o] + BlockSize - 1)
      BY <3>1, <3>6 DEF BlockOwned
    <3>8. QED
      BY <3>1, <3>7 DEF BlockOwned
  <2>3. QED
    BY <2>1, <2>2
<1>7. QED
  BY <1>1, <1>4, <1>5, <1>6 DEF BlockOwned

\* get_proc_id's block discipline is an invariant of every run: no id of the
\* part of a block that is left has been returned.
THEOREM BlockOwnedHolds == Spec => [](TypeOK /\ BlockOwned)
<1>1. Init => IInv
  BY InitIInv
<1>2. IInv /\ [Next]_vars => IInv'
  <2> SUFFICES ASSUME IInv, [Next]_vars
               PROVE  IInv'
    OBVIOUS
  <2>1. CASE Next
    BY <2>1, FetchIInv, ReturnIInv DEF Next
  <2>2. CASE UNCHANGED vars
    BY <2>2 DEF IInv, TypeOK, BlockOwned, vars
  <2>3. QED
    BY <2>1, <2>2
<1>3. QED
  BY <1>1, <1>2, PTL DEF Spec, IInv

\* get_proc_id, get_obj_id and get_tim_id never return an id twice, whatever
\* thread asks, for any number of threads and any block size.
THEOREM FreshIdHolds == Spec => FreshId
<1> DEFINE Fresh == block' = block =>
              \E id \in issued' \ issued : issued' = issued \union {id}
<1>1. IInv /\ [Next]_vars => [Fresh]_vars
  <2> SUFFICES ASSUME IInv, Next
               PROVE  Fresh
    OBVIOUS
  <2>1. ASSUME NEW a \in Allocators, FetchBlock(a)
        PROVE  Fresh
    BY <2>1 DEF FetchBlock, IInv, TypeOK
  <2>2. ASSUME NEW a \in Allocators, ReturnId(a)
        PROVE  Fresh
    BY <2>2, ReturnIInv DEF ReturnId
  <2>3. QED
    BY <2>1, <2>2 DEF Next
<1>2. Spec => []IInv
  BY BlockOwnedHolds, PTL DEF IInv
<1>3. QED
  BY <1>1, <1>2, PTL DEF Spec, FreshId

-----------------------------------------------------------------------------
(* The bandwidth log (Sampler).                                             *)

\* What the loop keeps between two readings: the counter is ahead of rx_prev by
\* at most what the interface has moved since, and by just that unless it was
\* set up again.
Ahead ==
    /\ seen <= traffic
    /\ "misread" \notin fault =>
          /\ counter - prev <= traffic - seen
          /\ "replugged" \notin fault => counter - prev = traffic - seen

\* When the line of a day is written nothing is waiting for one of an hour, and
\* when it has been nothing is left of that day.
Emptied ==
    /\ main \in {"day", "day stats"} => hourly = 0
    /\ main = "day stats" => hours = 0

\* The types, the numbers apart from the rest.
Counts ==
    /\ traffic \in Nat /\ counter \in Nat /\ prev \in Nat /\ speed \in Nat
    /\ hourly \in Nat /\ daily \in Nat /\ samples \in Nat
    /\ hours \in Nat /\ counted \in Nat /\ seen \in Nat
Others ==
    /\ since \in Clock /\ now \in Clock
    /\ main \in {"sleep", "hour", "hour stats", "day", "day stats"}
    /\ line \in [amount : Nat, hours : Nat]
    /\ fault \subseteq {"misread", "replugged", "lost"}

SamplerInv == Counts /\ Others /\ Ahead /\ Emptied /\ Books /\ CountedOnce

LEMMA SamplerInitInv == SamplerInit => SamplerInv
<1> SUFFICES ASSUME SamplerInit PROVE SamplerInv
  OBVIOUS
<1> USE DEF SamplerInit
<1>1. counter \in {0, 1} /\ prev \in {0, 1}
  BY DEF ReadBytes
<1>2. Counts /\ Others
  BY <1>1 DEF Counts, Others, Misread
<1>3. Ahead
  BY <1>1 DEF Ahead, Misread
<1>4. Emptied /\ Books /\ CountedOnce
  BY DEF Emptied, Books, CountedOnce, Unlogged
<1>5. QED
  BY <1>2, <1>3, <1>4 DEF SamplerInv

\* The interface moves or is set up again while the loop does nothing.
LEMMA InterfaceInv == ASSUME SamplerInv, Interface PROVE SamplerInv'
<1> USE DEF SamplerInv
<1>1. CASE Move
  <2> USE <1>1 DEF Move
  <2>1. Counts'
    BY DEF Counts
  <2>2. Others'
    BY DEF Others
  <2>3. Ahead'
    BY DEF Ahead, Counts
  <2>4. Emptied' /\ Books' /\ CountedOnce'
    BY DEF Emptied, Books, CountedOnce, Unlogged
  <2>5. QED
    BY <2>1, <2>2, <2>3, <2>4
<1>2. CASE Replug
  <2> USE <1>2 DEF Replug
  <2>1. Counts' /\ Others'
    BY DEF Counts, Others
  <2>2. Ahead'
    BY DEF Ahead, Counts
  <2>3. Emptied' /\ Books' /\ CountedOnce'
    BY DEF Emptied, Books, CountedOnce, Unlogged
  <2>4. QED
    BY <2>1, <2>2, <2>3
<1>3. QED
  BY <1>1, <1>2 DEF Interface

\* A turn of the loop up to the comparison of hours.
LEMMA SampleInv == ASSUME SamplerInv, Sample PROVE SamplerInv'
<1> USE DEF SamplerInv
<1> DEFINE Diff(bytes) == IF bytes >= prev THEN bytes - prev ELSE 0
<1>1. PICK bytes \in ReadBytes, t \in Clock :
         /\ hourly' = hourly + Diff(bytes) /\ daily' = daily + Diff(bytes)
         /\ speed' = Diff(bytes) /\ prev' = bytes
         /\ fault' = fault \union Misread(bytes)
         /\ now' = t
         /\ main' = IF t.hour # since.hour THEN "hour" ELSE "sleep"
  BY DEF Sample
<1>2. /\ main = "sleep" /\ seen' = traffic /\ samples' = samples + 1
      /\ UNCHANGED <<traffic, counter, since, hours, counted, line>>
  BY DEF Sample
<1>3. bytes \in Nat /\ Diff(bytes) \in Nat /\ main' \in {"sleep", "hour"}
  BY <1>1 DEF ReadBytes, Counts
<1>4. Misread(bytes) \subseteq {"misread"} /\ (bytes # counter => "misread" \in fault')
  BY <1>1 DEF Misread
<1>5. Counts'
  BY <1>1, <1>2, <1>3 DEF Counts
<1>6. Others'
  BY <1>1, <1>2, <1>3, <1>4 DEF Others
<1>7. Ahead'
  BY <1>1, <1>2, <1>3, <1>4 DEF Ahead, Counts
<1>8. Emptied'
  BY <1>3 DEF Emptied
<1>9. Books'
  <2>1. "lost" \notin fault' => "lost" \notin fault
    BY <1>1
  <2>2. Unlogged = hourly /\ Unlogged' = hourly + Diff(bytes)
    BY <1>1, <1>2, <1>3 DEF Unlogged
  <2>3. QED
    BY <1>1, <1>2, <1>3, <2>1, <2>2 DEF Books, Counts
<1>10. CountedOnce'
  <2> SUFFICES ASSUME "misread" \notin fault', "lost" \notin fault'
               PROVE  /\ counted' + Unlogged' <= seen'
                      /\ "replugged" \notin fault' => counted' + Unlogged' = seen'
    BY DEF CountedOnce
  <2>1. bytes = counter /\ "misread" \notin fault /\ "lost" \notin fault
    BY <1>1, <1>4
  <2>2. Unlogged = hourly /\ Unlogged' = hourly + Diff(counter)
    BY <1>1, <1>2, <1>3, <2>1 DEF Unlogged
  <2>3. /\ counted + hourly <= seen
        /\ "replugged" \notin fault => counted + hourly = seen
    BY <2>1, <2>2 DEF CountedOnce
  <2>4. /\ Diff(counter) <= traffic - seen
        /\ "replugged" \notin fault => Diff(counter) = traffic - seen
    BY <2>1 DEF Ahead, Counts
  <2>5. "replugged" \notin fault' => "replugged" \notin fault
    BY <1>1
  <2>6. QED
    BY <1>2, <1>3, <2>1, <2>2, <2>3, <2>4, <2>5 DEF Counts
<1>11. QED
  BY <1>5, <1>6, <1>7, <1>8, <1>9, <1>10

\* The line of an hour, which may be lost.
LEMMA LogHourInv == ASSUME SamplerInv, LogHour PROVE SamplerInv'
<1> USE DEF SamplerInv
<1>1. /\ main = "hour" /\ main' = "hour stats"
      /\ UNCHANGED <<traffic, counter, prev, speed, hourly, daily, since, now,
                     samples, seen, line>>
  BY DEF LogHour
<1>2. CASE hours' = hours + hourly /\ counted' = counted + hourly /\ UNCHANGED fault
  <2>1. /\ hours' = hours + hourly /\ counted' = counted + hourly
        /\ UNCHANGED <<traffic, counter, prev, speed, hourly, daily, samples, seen>>
    BY <1>1, <1>2
  <2>2. Counts'
    BY <2>1 DEF Counts
  <2>3. Others' /\ Emptied' /\ Ahead'
    BY <1>1, <1>2 DEF Others, Emptied, Ahead
  <2>4. Unlogged = hourly /\ Unlogged' = 0
    BY <1>1 DEF Unlogged
  <2>5. Unlogged' = 0 /\ hours' + 0 = hours + hourly /\ counted' + 0 = counted + hourly
    BY <2>1, <2>4 DEF Counts
  <2>6. Books' /\ CountedOnce'
    BY <1>1, <1>2, <2>4, <2>5 DEF Books, CountedOnce
  <2>7. QED
    BY <2>2, <2>3, <2>6
<1>3. CASE fault' = fault \union {"lost"} /\ UNCHANGED <<hours, counted>>
  <2> USE <1>1, <1>3
  <2>1. Counts' /\ Others'
    BY DEF Counts, Others
  <2>2. Ahead' /\ Emptied'
    BY DEF Ahead, Emptied
  <2>3. Books' /\ CountedOnce'
    BY DEF Books, CountedOnce
  <2>4. QED
    BY <2>1, <2>2, <2>3
<1>4. QED
  BY <1>2, <1>3 DEF LogHour

\* The line of a day, which may be lost.  The sum of the hours' lines starts anew.
LEMMA LogDayInv == ASSUME SamplerInv, LogDay PROVE SamplerInv'
<1> USE DEF SamplerInv
<1>1. /\ main = "day" /\ main' = "day stats" /\ hours' = 0
      /\ UNCHANGED <<traffic, counter, prev, speed, hourly, daily, since, now,
                     samples, counted, seen>>
      /\ line' = [amount |-> daily, hours |-> hours] \/ line' = line
      /\ \/ fault' = fault /\ line' = [amount |-> daily, hours |-> hours]
         \/ fault' = fault \union {"lost"}
  BY DEF LogDay
<1>2. Counts'
  BY <1>1 DEF Counts
<1>3. Others'
  <2>1. [amount |-> daily, hours |-> hours] \in [amount : Nat, hours : Nat]
    BY DEF Counts
  <2>2. QED
    BY <1>1, <2>1 DEF Others
<1>4. Ahead'
  BY <1>1 DEF Ahead
<1>5. hourly = 0 /\ Unlogged = 0 /\ Unlogged' = 0
  BY <1>1 DEF Emptied, Unlogged
<1>6. Emptied'
  BY <1>1, <1>5 DEF Emptied
<1>7. Books'
  <2> SUFFICES ASSUME "lost" \notin fault' PROVE line'.amount = line'.hours
    BY <1>1 DEF Books
  <2>1. line' = [amount |-> daily, hours |-> hours] /\ "lost" \notin fault
    BY <1>1
  <2>2. daily = hours + 0
    BY <1>1, <1>5, <2>1 DEF Books
  <2>3. daily = hours
    BY <2>2 DEF Counts
  <2>4. QED
    BY <2>1, <2>3
<1>8. CountedOnce'
  BY <1>1, <1>5 DEF CountedOnce
<1>9. QED
  BY <1>2, <1>3, <1>4, <1>6, <1>7, <1>8

\* What follows the line of an hour, and that of a day.
LEMMA LoggedHourInv == ASSUME SamplerInv, LoggedHour PROVE SamplerInv'
<1> USE DEF SamplerInv
<1>1. /\ main = "hour stats" /\ hourly' = 0 /\ main' \in {"day", "sleep"}
      /\ since' = since \/ since' = now
      /\ UNCHANGED <<traffic, counter, prev, speed, daily, now, samples, hours,
                     counted, seen, line, fault>>
  BY DEF LoggedHour
<1>2. Counts'
  BY <1>1 DEF Counts
<1>3. Others'
  BY <1>1 DEF Others
<1>4. Ahead' /\ Emptied'
  BY <1>1 DEF Ahead, Emptied
<1>5. Unlogged = 0 /\ Unlogged' = 0
  BY <1>1 DEF Unlogged
<1>6. Books' /\ CountedOnce'
  BY <1>1, <1>5 DEF Books, CountedOnce
<1>7. QED
  BY <1>2, <1>3, <1>4, <1>6

LEMMA LoggedDayInv == ASSUME SamplerInv, LoggedDay PROVE SamplerInv'
<1> USE DEF SamplerInv
<1>1. /\ main = "day stats" /\ daily' = 0 /\ main' = "sleep" /\ since' = now
      /\ UNCHANGED <<traffic, counter, prev, speed, hourly, now, samples, hours,
                     counted, seen, line, fault>>
  BY DEF LoggedDay
<1>2. Counts'
  BY <1>1 DEF Counts
<1>3. Others'
  BY <1>1 DEF Others
<1>4. Ahead' /\ Emptied'
  BY <1>1 DEF Ahead, Emptied
<1>5. hours = 0 /\ hourly = 0 /\ Unlogged = 0 /\ Unlogged' = 0
  BY <1>1 DEF Emptied, Unlogged
<1>6. 0 = 0 + 0
  OBVIOUS
<1>7. Books' /\ CountedOnce'
  BY <1>1, <1>5, <1>6 DEF Books, CountedOnce
<1>8. QED
  BY <1>2, <1>3, <1>4, <1>7

LEMMA SamplerStepInv == ASSUME SamplerInv, [SamplerNext]_samplerVars PROVE SamplerInv'
<1>1. CASE UNCHANGED samplerVars
  <2>1. UNCHANGED <<traffic, counter, prev, speed, hourly, daily, since, now, main>>
        /\ UNCHANGED <<samples, hours, counted, seen, line, fault>>
    BY <1>1 DEF samplerVars
  <2>2. Counts' /\ Others'
    BY <2>1 DEF SamplerInv, Counts, Others
  <2>3. Unlogged' = Unlogged
    BY <2>1 DEF Unlogged
  <2>4. Ahead' /\ Emptied' /\ Books' /\ CountedOnce'
    BY <2>1, <2>3 DEF SamplerInv, Ahead, Emptied, Books, CountedOnce
  <2>5. QED
    BY <2>2, <2>4 DEF SamplerInv
<1>2. QED
  BY <1>1, InterfaceInv, SampleInv, LogHourInv, LogDayInv, LoggedHourInv, LoggedDayInv
     DEF SamplerNext

LEMMA SamplerInvHolds == SamplerSpec => []SamplerInv
<1>1. QED
  BY SamplerInitInv, SamplerStepInv, PTL DEF SamplerSpec

\* The line of a day is the sum of its hours' lines (main's loop, log_entry), for
\* every clock, as long as no line is lost.
THEOREM BooksHolds == SamplerSpec => []Books
BY SamplerInvHolds, PTL DEF SamplerInv

\* No byte is counted twice, and none is missed unless the interface was set up
\* again, as long as rx_bytes can be read (read_bytes).
THEOREM CountedOnceHolds == SamplerSpec => []CountedOnce
BY SamplerInvHolds, PTL DEF SamplerInv

\* Types of the loop's variables.
THEOREM SamplerTypes == SamplerSpec => []SamplerTypeOK
<1>1. SamplerInv => SamplerTypeOK
  BY DEF SamplerInv, SamplerTypeOK, Counts, Others
<1>2. QED
  BY <1>1, SamplerInvHolds, PTL

-----------------------------------------------------------------------------
(* The process.                                                             *)

\* Every step of server_func and of the threads draws ids as IdBlocks does, or none.
LEMMA StartupDrawsIds == StartupNext => [Next]_vars
<1> SUFFICES ASSUME StartupNext PROVE Next \/ UNCHANGED vars
  OBVIOUS
<1>1. 0 \in Allocators /\ \A t \in 1 .. Threads : t \in Allocators
  BY StartupAssumption
<1>2. CASE OpenSocket \/ ConstructHandler \/ StartAppend \/ StartRun \/ ConstructRoot
  BY <1>2 DEF OpenSocket, ConstructHandler, StartAppend, StartRun, ConstructRoot, Throw
<1>3. CASE HandlerFetchBlock \/ InitializeRootEvent
  BY <1>1, <1>3 DEF HandlerFetchBlock, InitializeRootEvent, Next
<1>4. CASE \E t \in 1 .. Threads : ThreadFetchBlock(t) \/ ThreadReturnId(t)
  BY <1>1, <1>4 DEF ThreadFetchBlock, ThreadReturnId, Next
<1>5. QED
  BY <1>2, <1>3, <1>4 DEF StartupNext

\* The process implements IdBlocks ...
THEOREM ProcessDrawsIds == ProcessSpec => Spec
<1>1. ProcessInit => Init
  BY DEF ProcessInit, StartupInit
<1>2. [ProcessNext]_processVars => [Next]_vars
  <2> SUFFICES ASSUME [ProcessNext]_processVars PROVE Next \/ UNCHANGED vars
    OBVIOUS
  <2>1. CASE ServerStep
    BY <2>1, StartupDrawsIds DEF ServerStep
  <2>2. CASE MainStep \/ UNCHANGED processVars
    BY <2>2 DEF MainStep, processVars, startupVars
  <2>3. QED
    BY <2>1, <2>2 DEF ProcessNext
<1>3. QED
  BY <1>1, <1>2, PTL DEF ProcessSpec, Spec

\* ... and Sampler.
THEOREM ProcessSamples == ProcessSpec => SamplerSpec
<1>1. ProcessInit => SamplerInit
  BY DEF ProcessInit
<1>2. [ProcessNext]_processVars => [SamplerNext]_samplerVars
  BY DEF ProcessNext, ServerStep, MainStep, processVars
<1>3. QED
  BY <1>1, <1>2, PTL DEF ProcessSpec, SamplerSpec

\* Ids are drawn once in the whole process, by the handler and by any number of
\* threads (get_proc_id and its siblings).
THEOREM ProcessFreshId == ProcessSpec => [](TypeOK /\ BlockOwned) /\ FreshId
BY ProcessDrawsIds, BlockOwnedHolds, FreshIdHolds, PTL

\* The log adds up while the server starts, runs or fails to (main, log_entry).
THEOREM ProcessBooks == ProcessSpec => [](Books /\ CountedOnce)
BY ProcessSamples, BooksHolds, CountedOnceHolds, PTL
-----------------------------------------------------------------------------
\* Types of server_func's own variables: they change together, so that their
\* types are proved together.
ServerTypes ==
    /\ server \in {"sockets", "handler", "roots", "appended", "started",
                   "returned", "terminated"}
    /\ open \in 0 .. Sockets
    /\ size \in Nat /\ capacity \in Nat /\ home \in Nat /\ size <= capacity
    /\ queued \in 0 .. RootEvents
    /\ Running \in {1 .. t : t \in 0 .. Threads}
    /\ \A t \in Running : runs[t] \in Nat

LEMMA AppendTypes ==
    ASSUME size \in Nat, capacity \in Nat, home \in Nat, size <= capacity, AppendData
    PROVE  size' \in Nat /\ capacity' \in Nat /\ home' \in Nat /\ size' <= capacity'
<1>1. size' = size + 1
  BY DEF AppendData
<1>2. CASE size < capacity /\ capacity' = capacity /\ home' = home
  BY <1>1, <1>2
<1>3. CASE capacity = 0 /\ capacity' = 1 /\ home' = home + 1
  BY <1>1, <1>3
<1>4. CASE capacity # 0 /\ capacity' = 2 * capacity /\ home' = home + 1
  BY <1>1, <1>4
<1>5. QED
  BY <1>2, <1>3, <1>4 DEF AppendData

LEMMA ServerInitTypes == StartupInit => ServerTypes
<1> SUFFICES ASSUME StartupInit PROVE ServerTypes
  OBVIOUS
<1>1. Running = 1 .. 0
  BY DEF StartupInit, Running
<1>2. QED
  BY <1>1, StartupAssumption DEF StartupInit, ServerTypes

LEMMA ServerStepTypes == ASSUME ServerTypes, StartupNext PROVE ServerTypes'
<1> USE StartupAssumption DEF ServerTypes
<1>1. CASE OpenSocket
  <2>1. open' \in 0 .. Sockets /\ server' \in {"sockets", "handler", "returned"}
    BY <1>1 DEF OpenSocket, ReturnClosing
  <2>2. UNCHANGED <<size, capacity, home, queued, runs>>
    BY <1>1 DEF OpenSocket
  <2>3. QED
    BY <2>1, <2>2 DEF Running
<1>2. CASE Throw
  BY <1>2 DEF Throw, Running
<1>3. CASE AppendData /\ server' \in {"handler", "appended"}
           /\ UNCHANGED <<open, queued, runs>>
  BY <1>3, AppendTypes DEF Running
<1>4. CASE ConstructHandler
  <2>1. CASE server = "handler" /\ server' = "roots"
             /\ UNCHANGED <<open, size, capacity, home, queued, runs>>
    BY <2>1 DEF Running
  <2>2. QED
    BY <1>2, <1>3, <1>4, <2>1 DEF ConstructHandler
<1>5. CASE HandlerFetchBlock \/ \E t \in 1 .. Threads : ThreadFetchBlock(t) \/ ThreadReturnId(t)
  BY <1>5 DEF HandlerFetchBlock, ThreadFetchBlock, ThreadReturnId, serverVars, Running
<1>6. CASE InitializeRootEvent
  BY <1>6 DEF InitializeRootEvent, Running
<1>7. CASE StartAppend
  BY <1>2, <1>3, <1>7 DEF StartAppend
<1>8. CASE StartRun
  <2>1. PICK t \in 1 .. Threads :
           /\ Running = 1 .. t - 1
           /\ runs' = [u \in 1 .. t |-> IF u = t THEN home ELSE runs[u]]
    BY <1>8 DEF StartRun
  <2>2. Running' = 1 .. t /\ t \in 0 .. Threads
    BY <2>1 DEF Running
  <2>3. ASSUME NEW u \in Running' PROVE runs'[u] \in Nat
    <3>1. u \in 1 .. t /\ (u # t => u \in Running)
      BY <2>1, <2>2
    <3>2. QED
      BY <2>1, <3>1
  <2>4. server' = "started" /\ UNCHANGED <<open, size, capacity, home, queued>>
    BY <1>8 DEF StartRun
  <2>5. QED
    BY <2>2, <2>3, <2>4
<1>9. CASE ConstructRoot
  <2>1. CASE queued > 0 /\ queued' = queued - 1
             /\ UNCHANGED <<server, open, size, capacity, home, runs>>
    BY <2>1 DEF Running
  <2>2. QED
    BY <1>2, <1>9, <2>1 DEF ConstructRoot
<1>10. QED
  BY <1>1, <1>4, <1>5, <1>6, <1>7, <1>8, <1>9 DEF StartupNext

LEMMA ServerTypesHold == ProcessSpec => []ServerTypes
<1>1. ProcessInit => ServerTypes
  BY ServerInitTypes DEF ProcessInit
<1>2. ServerTypes /\ [ProcessNext]_processVars => ServerTypes'
  <2> SUFFICES ASSUME ServerTypes, [ProcessNext]_processVars PROVE ServerTypes'
    OBVIOUS
  <2>1. CASE ServerStep
    BY <2>1, ServerStepTypes DEF ServerStep
  <2>2. CASE MainStep \/ UNCHANGED processVars
    BY <2>2 DEF MainStep, processVars, startupVars, serverVars, ServerTypes, Running
  <2>3. QED
    BY <2>1, <2>2 DEF ProcessNext
<1>3. QED
  BY <1>1, <1>2, PTL DEF ProcessSpec

\* Types of all variables of the process.
THEOREM ProcessTypes == ProcessSpec => []ProcessTypeOK
<1>1. TypeOK /\ ServerTypes /\ SamplerTypeOK => ProcessTypeOK
  BY DEF ServerTypes, StartupTypeOK, ProcessTypeOK
<1>2. QED
  BY <1>1, ServerTypesHold, ProcessFreshId, ProcessSamples, SamplerTypes, PTL
-----------------------------------------------------------------------------
\* n is a power of two: doubling 1 again and again meets it.
PowerOfTwo(n) ==
    \E P \in SUBSET Nat : 1 \in P /\ \A p \in P : p < n => 2 * p \in P /\ 2 * p <= n

\* The room of private_per_thread_data, which doubles along P: the constructor
\* leaves it full, and start()'s first append makes room for all others.
Room(P) ==
    /\ server = "sockets" => size = 0 /\ capacity = 0 /\ Running = {}
    /\ server = "handler" => /\ size <= Threads /\ capacity <= Threads
                             /\ capacity = 0 \/ capacity \in P
                             /\ Running = {}
    /\ server = "roots" => size = Threads /\ capacity = Threads /\ Running = {}
    /\ server \in {"appended", "started"} =>
          /\ capacity = 2 * Threads
          /\ \E t \in 0 .. Threads :
                /\ Running = 1 .. t
                /\ size = IF server = "appended" THEN Threads + t + 1 ELSE Threads + t

LEMMA RoomStep ==
    ASSUME NEW P \in SUBSET Nat, 1 \in P,
           \A p \in P : p < Threads => 2 * p \in P /\ 2 * p <= Threads,
           ServerTypes, Room(P), InPlace, StartupNext
    PROVE  Room(P)' /\ InPlace'
<1> USE StartupAssumption DEF Room, InPlace
<1>1. CASE OpenSocket
  BY <1>1 DEF OpenSocket, ReturnClosing, Running
<1>2. CASE Throw
  BY <1>2 DEF Throw, Running
<1>3. CASE ConstructHandler
  <2>1. CASE size < Threads /\ AppendData /\ UNCHANGED <<server, runs>>
    <3>1. server = "handler" /\ size \in Nat /\ capacity \in Nat /\ size <= capacity
      BY <1>3 DEF ConstructHandler, ServerTypes
    <3>2. Running' = {} /\ server' = "handler"
      BY <2>1, <3>1 DEF Running
    <3>3. size' = size + 1 /\ size' <= Threads
      BY <2>1, <3>1 DEF AppendData
    <3>4. capacity' = capacity \/ (capacity = 0 /\ capacity' = 1)
          \/ (capacity # 0 /\ capacity = size /\ capacity' = 2 * capacity)
      BY <2>1, <3>1 DEF AppendData
    <3>5. capacity' <= Threads /\ (capacity' = 0 \/ capacity' \in P)
      <4>1. CASE capacity' = capacity
        BY <3>1, <4>1
      <4>2. CASE capacity = 0 /\ capacity' = 1
        BY <2>1, <3>1, <4>2
      <4>3. CASE capacity # 0 /\ capacity = size /\ capacity' = 2 * capacity
        <5>1. capacity \in P /\ capacity < Threads
          BY <2>1, <3>1, <4>3
        <5>2. QED
          BY <4>3, <5>1
      <4>4. QED
        BY <3>4, <4>1, <4>2, <4>3
    <3>6. QED
      BY <3>2, <3>3, <3>5
  <2>2. CASE size = Threads /\ server' = "roots" /\ UNCHANGED <<size, capacity, home, runs>>
    <3>1. server = "handler" /\ size \in Nat /\ capacity \in Nat /\ size <= capacity
      BY <1>3 DEF ConstructHandler, ServerTypes
    <3>2. capacity = Threads
      BY <2>2, <3>1
    <3>3. QED
      BY <2>2, <3>1, <3>2 DEF Running
  <2>3. QED
    BY <1>2, <1>3, <2>1, <2>2 DEF ConstructHandler
<1>4. CASE \/ HandlerFetchBlock \/ InitializeRootEvent
           \/ \E t \in 1 .. Threads : ThreadFetchBlock(t) \/ ThreadReturnId(t)
  BY <1>4 DEF HandlerFetchBlock, InitializeRootEvent, ThreadFetchBlock, ThreadReturnId,
              serverVars, Running
<1>5. CASE StartAppend
  <2>1. CASE AppendData /\ server' = "appended" /\ UNCHANGED runs
    <3>1. CASE server = "roots"
      <4>1. size = Threads /\ capacity = Threads /\ Running = 1 .. 0 /\ Running' = 1 .. 0
        BY <2>1, <3>1 DEF Running
      <4>2. size' = Threads + 0 + 1 /\ capacity' = 2 * Threads
        BY <2>1, <4>1 DEF AppendData
      <4>3. QED
        BY <2>1, <4>1, <4>2
    <3>2. CASE server = "started" /\ Running # 1 .. Threads
      <4>1. PICK t \in 0 .. Threads : Running = 1 .. t /\ size = Threads + t
        BY <3>2
      <4>2. t < Threads /\ capacity = 2 * Threads
        BY <3>2, <4>1
      <4>3. size < capacity
        BY <4>1, <4>2
      <4>4. size' = Threads + t + 1 /\ UNCHANGED <<capacity, home>>
        BY <2>1, <4>1, <4>3 DEF AppendData
      <4>5. QED
        BY <2>1, <4>1, <4>2, <4>4 DEF Running
    <3>3. QED
      BY <1>5, <3>1, <3>2 DEF StartAppend
  <2>2. QED
    BY <1>2, <1>5, <2>1 DEF StartAppend
<1>6. CASE StartRun
  <2>1. PICK t \in 1 .. Threads :
           /\ Running = 1 .. t - 1
           /\ runs' = [u \in 1 .. t |-> IF u = t THEN home ELSE runs[u]]
    BY <1>6 DEF StartRun
  <2>2. /\ server = "appended" /\ server' = "started"
        /\ UNCHANGED <<size, capacity, home>>
    BY <1>6 DEF StartRun
  <2>3. PICK s \in 0 .. Threads : Running = 1 .. s /\ size = Threads + s + 1
    BY <2>2
  <2>4. s = t - 1
    BY <2>1, <2>3
  <2>5. size' = Threads + t /\ Running' = 1 .. t /\ capacity' = 2 * Threads
    BY <2>1, <2>2, <2>3, <2>4 DEF Running
  <2>6. ASSUME NEW u \in Running' PROVE runs'[u] = home'
    <3>1. u \in 1 .. t /\ (u # t => u \in Running)
      BY <2>1, <2>5
    <3>2. QED
      BY <2>1, <2>2, <3>1
  <2>7. QED
    BY <2>2, <2>5, <2>6
<1>7. CASE ConstructRoot
  BY <1>2, <1>7 DEF ConstructRoot, Running
<1>8. QED
  BY <1>1, <1>3, <1>4, <1>5, <1>6, <1>7 DEF StartupNext

\* start() never moves the ThreadData of a running thread, if their number is a
\* power of two, as the one thread of AsyncHandler::self(1) is.
THEOREM InPlaceHolds ==
    ASSUME PowerOfTwo(Threads)
    PROVE  ProcessSpec => []InPlace
<1>1. PICK P \in SUBSET Nat : /\ 1 \in P
                              /\ \A p \in P : p < Threads => 2 * p \in P /\ 2 * p <= Threads
  BY DEF PowerOfTwo
<1>2. ProcessInit => Room(P) /\ InPlace
  BY DEF ProcessInit, StartupInit, Room, InPlace, Running
<1>3. ServerTypes /\ Room(P) /\ InPlace /\ [ProcessNext]_processVars
         => Room(P)' /\ InPlace'
  <2> SUFFICES ASSUME ServerTypes, Room(P), InPlace, [ProcessNext]_processVars
               PROVE  Room(P)' /\ InPlace'
    OBVIOUS
  <2>1. CASE ServerStep
    BY <1>1, <2>1, RoomStep DEF ServerStep
  <2>2. CASE MainStep \/ UNCHANGED processVars
    BY <2>2 DEF MainStep, processVars, startupVars, serverVars, Room, InPlace, Running
  <2>3. QED
    BY <2>1, <2>2 DEF ProcessNext
<1>4. QED
  BY <1>2, <1>3, ServerTypesHold, PTL DEF ProcessSpec
========================================================================
