----------------------------- MODULE ThreadData -----------------------------
(***************************************************************************)
(* The dispatcher of common/thread_data.cpp: one thread, its work queue,   *)
(* the table of live Event objects, the table of running procedures and    *)
(* the operations in flight in its io_uring.  Production runs one thread   *)
(* (AsyncHandler::self(1)), and find_target_thread always answers with the *)
(* calling thread because nothing ever writes load_avg.                    *)
(*                                                                         *)
(* An Event subclass is not modelled here: its constructor, its functions  *)
(* and its on_yield are replaced by any bounded "turn", that is, any lists *)
(* of constructions, calls, io_uring operations, deletions and attachments *)
(* that the Event API lets it queue while it runs.  Timers are operations  *)
(* here.  Every object has an IoUringData of its own and calls only its    *)
(* own children; an object made with i_s has its parent's and may call the *)
(* parent's other children: the one class that does is in Monitoring.      *)
(***************************************************************************)
EXTENDS Integers, Sequences, FiniteSets

CONSTANTS
    Roots,          \* root events queued before the thread starts
    Batch,          \* messages dequeued between two looks at the ring (256)
    MaxObj,         \* bound: objects ever created
    MaxProc,        \* bound: procedures ever started
    MaxOp,          \* bound: io_uring operations ever submitted
    MaxMake,        \* bound: constructions in one turn
    MaxCall,        \* bound: calls in one turn
    CtorCalls,      \* may a constructor body call its children?
    LateConstruct,  \* may a handler construct a child after its constructor?
    EarlyDelete,    \* may a handler delete a child that has not answered?
    Attaching       \* may a handler attach to a procedure it called?

ASSUME BoundsAssumption ==
    /\ MaxObj \in Nat /\ Roots \in 0 .. MaxObj /\ Batch \in Nat \ {0}
    /\ MaxProc \in Nat /\ MaxOp \in Nat
    /\ MaxMake \in Nat /\ MaxCall \in Nat
ASSUME DisciplineAssumption ==
    {CtorCalls, LateConstruct, EarlyDelete, Attaching} \subseteq BOOLEAN

VARIABLES
    q,        \* per_thread_data[thread].q
    budget,   \* dequeues left before run() looks at the ring again
    objs,     \* obj_info, with the called part of the object's IoUringData
    procs,    \* proc_to_dat
    ring,     \* operations submitted to io_uring and not yet reaped
    also,     \* also_notify
    nextObj, nextProc, nextOp   \* next fresh ids (IdBlocks) and operation

vars == <<q, budget, objs, procs, ring, also, nextObj, nextProc, nextOp>>

NoId == -1   \* numeric_limits<uint64_t>::max(), and thread_id -1
Live == DOMAIN objs
Target == [obj : Int, proc : Int]

Elems(s) == {s[i] : i \in DOMAIN s}
\* The lists over S of at most n elements.
Lists(S, n) == UNION {[1 .. m -> S] : m \in 0 .. n}
\* The orders in which a hash container or the kernel may list a finite set.
Orders(S) == {s \in [1 .. Cardinality(S) -> S] : Elems(s) = S}
Without(f, S) == [x \in DOMAIN f \ S |-> f[x]]
-----------------------------------------------------------------------------
(* Messages.  All of them have a target (ti) and a caller (ci); task is the *)
(* task_id of a ChildTaskCompletion.                                        *)
Message == [kind : {"root", "construct", "call", "delete", "io", "done"},
            ti : Target, ci : Target, task : Int]
Msg(kind, ti, ci) == [kind |-> kind, ti |-> ti, ci |-> ci, task |-> NoId]
ObjectOnly(o) == [obj |-> o, proc |-> NoId]
Nobody == ObjectOnly(NoId)
\* Broken form: task_id and calling_id swapped.
ChildTaskCompletionSwapped(me, caller) ==
    [kind |-> "done", ti |-> caller, ci |-> me, task |-> caller.proc]
ChildTaskCompletion(me, caller) ==
    [kind |-> "done", ti |-> caller, ci |-> me, task |-> me.proc]

ObjectRecord == [children : SUBSET (0 .. MaxObj - 1), procs : SUBSET Int,
                 called : Seq(Int)]
NewObject == [children |-> {}, procs |-> {}, called |-> <<>>]
-----------------------------------------------------------------------------
(* A turn: what an Event queued on itself while one of its functions ran.  *)
NewIds(n) == nextObj .. nextObj + n - 1
NewProcs(t) == [i \in DOMAIN t.call |-> nextProc + i - 1]

\* The turns of an object with record rec.  A function queued for a child that
\* d() has reset is skipped, so calls go to the others and to new children.
Turns(rec, make, calls, droppable, rets) ==
    {t \in [make : 0 .. make,
            drop : Lists(droppable, 1),
            call : Lists(rec.children \union NewIds(make), calls),
            arm : 0 .. 1,
            attach : {{}} \union IF Attaching THEN {{p} : p \in Elems(rec.called)}
                                 ELSE {},
            ret : rets] :
        /\ nextObj + t.make <= MaxObj
        /\ nextProc + Len(t.call) <= MaxProc
        /\ nextOp + t.arm <= MaxOp
        /\ Elems(t.call) \subseteq
              (rec.children \ Elems(t.drop)) \union NewIds(t.make)}

Constructs(me, t) ==
    [i \in 1 .. t.make |-> Msg("construct", ObjectOnly(nextObj + i - 1), me)]
Calls(me, t) ==
    [i \in DOMAIN t.call |->
        Msg("call", [obj |-> t.call[i], proc |-> NewProcs(t)[i]], me)]
Deletes(me, t) ==
    [i \in DOMAIN t.drop |-> Msg("delete", ObjectOnly(t.drop[i]), me)]
\* Broken form: functions before constructions.
QueuedFunctionsFirst(me, t) == Calls(me, t) \o Constructs(me, t) \o Deletes(me, t)
Queued(me, t) == Constructs(me, t) \o Calls(me, t) \o Deletes(me, t)

AfterTurn(rec, t) ==
    [rec EXCEPT
        !.children = (@ \union NewIds(t.make) \union Elems(t.call))
                         \ Elems(t.drop),
        !.called = @ \o NewProcs(t)]

\* process_queued_attach: me hears what the procedures in t.attach hear.
Attached(me, t) ==
    [p \in DOMAIN also \union t.attach |->
        (IF p \in DOMAIN also THEN also[p] ELSE <<>>)
            \o (IF p \in t.attach THEN <<me>> ELSE <<>>)]

\* process_queued, run on the obj_info table `table`; `after` is what the
\* caller of process_queued pushes once it returns.
ProcessQueued(table, me, t, after) ==
    /\ objs' = [table EXCEPT ![me.obj] = AfterTurn(@, t)]
    /\ q' = Tail(q) \o Queued(me, t) \o after
    /\ ring' = [op \in DOMAIN ring \union (nextOp .. nextOp + t.arm - 1) |->
                    IF op \in DOMAIN ring THEN ring[op] ELSE me]
    /\ also' = Attached(me, t)
    /\ nextObj' = nextObj + t.make
    /\ nextProc' = nextProc + Len(t.call)
    /\ nextOp' = nextOp + t.arm
-----------------------------------------------------------------------------
(* handle_dequeue, one action per kind of message.                         *)
\* Broken form: a batch without its limit of 256.
DequeueUnbounded(kind) ==
    /\ q # <<>>
    /\ Head(q).kind = kind
    /\ budget' = budget - 1

Dequeue(kind) ==
    /\ budget > 0
    /\ q # <<>>
    /\ Head(q).kind = kind
    /\ budget' = budget - 1

RootStart ==
    /\ Dequeue("root")
    /\ LET m == Head(q) IN
       q' = Tail(q) \o << Msg("construct", ObjectOnly(m.ti.obj), Nobody),
                          Msg("call", m.ti, Nobody) >>
    /\ UNCHANGED <<objs, procs, ring, also, nextObj, nextProc, nextOp>>

\* construct_call: emplace leaves an object that is already there alone.
ConstructCall ==
    /\ Dequeue("construct")
    /\ LET o == Head(q).ti.obj
           rec == IF o \in Live THEN objs[o] ELSE NewObject
       IN \E t \in Turns(rec, MaxMake, IF CtorCalls THEN MaxCall ELSE 0,
                         {}, {FALSE}) :
            /\ CtorCalls \/ t.arm = 0
            /\ ProcessQueued([x \in Live \union {o} |->
                                  IF x = o THEN rec ELSE objs[x]],
                             ObjectOnly(o), t, <<>>)
    /\ UNCHANGED procs

\* Guard of the two handlers below: what the subclass may delete in a turn
\* that answers message m.
Droppable(rec, m) ==
    IF EarlyDelete THEN rec.children
    ELSE IF m.kind = "done" THEN rec.children \intersect {m.ci.obj} ELSE {}

\* function_call.  The object must be there: its pointer is dereferenced.
FunctionCall ==
    /\ Dequeue("call")
    /\ LET m == Head(q)
           o == m.ti.obj
           rec == [objs[o] EXCEPT !.procs = @ \union {m.ti.proc}]
       IN /\ o \in Live
          /\ \E t \in Turns(rec, IF LateConstruct THEN MaxMake ELSE 0,
                            MaxCall, Droppable(rec, m), BOOLEAN) :
               ProcessQueued([objs EXCEPT ![o] = rec], m.ti, t,
                   IF t.ret /\ m.ci # Nobody
                   THEN <<ChildTaskCompletion(m.ti, m.ci)>> ELSE <<>>)
          /\ procs' = [p \in DOMAIN procs \union {m.ti.proc} |->
                          IF p = m.ti.proc THEN [obj |-> o, back |-> m.ci]
                          ELSE procs[p]]

\* Data is heard when both the object and the procedure are known.
Known(m) == m.ti.obj \in Live /\ m.ti.proc \in DOMAIN procs

\* map_event_data: a child's procedure id becomes the caller's own number for
\* it, an unknown one becomes 0 (operator[] of the map).
LocalTask(rec, task) ==
    IF task \in Elems(rec.called)
    THEN (CHOOSE i \in DOMAIN rec.called : rec.called[i] = task) - 1
    ELSE 0
Mapped(rec, m) ==
    IF m.kind = "done" THEN [m EXCEPT !.task = LocalTask(rec, @)] ELSE m

\* on_yield's result goes to the caller of the procedure.
Answer(me, t) ==
    IF t.ret THEN <<ChildTaskCompletion(me, procs[me.proc].back)>> ELSE <<>>

\* A copy of the data, already mapped, for everyone attached to the procedure.
Copies(m, t) ==
    LET hear == Attached(m.ti, t) IN
    IF m.ti.proc \in DOMAIN hear
    THEN [i \in DOMAIN hear[m.ti.proc] |->
             [Mapped(objs[m.ti.obj], m) EXCEPT !.ti = hear[m.ti.proc][i]]]
    ELSE <<>>

\* data_received: on_yield, what it queued, its result and the copies.
\* A root has no caller to answer and its on_yield never returns a result.
DataReceived(kind) ==
    /\ Dequeue(kind)
    /\ LET m == Head(q)
           rec == objs[m.ti.obj]
       IN /\ Known(m)
          /\ \E t \in Turns(rec, IF LateConstruct THEN MaxMake ELSE 0, MaxCall,
                            Droppable(rec, m),
                            IF procs[m.ti.proc].back = Nobody THEN {FALSE}
                            ELSE BOOLEAN) :
                ProcessQueued(objs, m.ti, t, Answer(m.ti, t) \o Copies(m, t))
    /\ UNCHANGED procs

DataDropped(kind) ==
    /\ Dequeue(kind)
    /\ ~Known(Head(q))
    /\ q' = Tail(q)
    /\ UNCHANGED <<objs, procs, ring, also, nextObj, nextProc, nextOp>>

\* Broken form: the procedures of the object are not erased.
DeleteKeepsProcs ==
    /\ Dequeue("delete")
    /\ LET m == Head(q)
           rec == IF m.ti.obj \in Live THEN objs[m.ti.obj] ELSE NewObject
       IN /\ \E s \in Orders(rec.children) :
               q' = Tail(q) \o [i \in DOMAIN s |->
                                   Msg("delete", ObjectOnly(s[i]), m.ci)]
          /\ objs' = Without(objs, {m.ti.obj})
    /\ UNCHANGED <<procs, ring, also, nextObj, nextProc, nextOp>>

\* Broken form: the deletion is not passed on to the children.
DeleteOnlySelf ==
    /\ Dequeue("delete")
    /\ LET m == Head(q)
           rec == IF m.ti.obj \in Live THEN objs[m.ti.obj] ELSE NewObject
       IN /\ q' = Tail(q)
          /\ procs' = Without(procs, rec.procs)
          /\ objs' = Without(objs, {m.ti.obj})
    /\ UNCHANGED <<ring, also, nextObj, nextProc, nextOp>>

\* Delete: the deletion is passed on to the children, in any order, and the
\* object and its procedures are forgotten.
Delete ==
    /\ Dequeue("delete")
    /\ LET m == Head(q)
           rec == IF m.ti.obj \in Live THEN objs[m.ti.obj] ELSE NewObject
       IN /\ \E s \in Orders(rec.children) :
               q' = Tail(q) \o [i \in DOMAIN s |->
                                   Msg("delete", ObjectOnly(s[i]), m.ci)]
          /\ procs' = Without(procs, rec.procs)
          /\ objs' = Without(objs, {m.ti.obj})
    /\ UNCHANGED <<ring, also, nextObj, nextProc, nextOp>>

HandleDequeue ==
    \/ RootStart \/ ConstructCall \/ FunctionCall \/ Delete
    \/ \E kind \in {"io", "done"} : DataReceived(kind) \/ DataDropped(kind)

\* run: when the queue is empty or the batch is used up, process_uring turns
\* every completion that has arrived into Data, in the order of the ring.
ProcessUring(arrived) ==
    /\ q = <<>> \/ budget = 0
    /\ \E s \in Orders(arrived) :
          q' = q \o [i \in DOMAIN s |-> Msg("io", ring[s[i]], Nobody)]
    /\ ring' = Without(ring, arrived)
    /\ budget' = Batch
    /\ UNCHANGED <<objs, procs, also, nextObj, nextProc, nextOp>>

Init ==
    /\ q = [i \in 1 .. Roots |->
               Msg("root", [obj |-> i - 1, proc |-> i - 1], Nobody)]
    /\ budget = Batch
    /\ objs = <<>> /\ procs = <<>> /\ ring = <<>> /\ also = <<>>
    /\ nextObj = Roots /\ nextProc = Roots /\ nextOp = 0

Run == \E arrived \in SUBSET DOMAIN ring : ProcessUring(arrived)
Next == HandleDequeue \/ Run

\* run() is a loop: it dequeues while it may, and looks at the ring and starts
\* a new batch whenever messages are left.  Nothing makes the kernel complete
\* an operation.
Fairness ==
    /\ WF_vars(HandleDequeue)
    /\ WF_vars(q # <<>> /\ Run)

Spec == Init /\ [][Next]_vars
FairSpec == Spec /\ Fairness
-----------------------------------------------------------------------------
\* Types and bounds of the tables.
TypeOK ==
    /\ q \in Seq(Message)
    /\ budget \in 0 .. Batch
    /\ Live \subseteq Int
    /\ objs \in [Live -> ObjectRecord]
    /\ procs \in [DOMAIN procs -> [obj : Int, back : Target]]
    /\ DOMAIN ring \subseteq 0 .. MaxOp - 1
    /\ ring \in [DOMAIN ring -> Target]
    /\ also \in [DOMAIN also -> Seq(Target)]
    /\ DOMAIN procs \subseteq Int /\ DOMAIN also \subseteq Int
    /\ nextObj \in 0 .. MaxObj /\ nextProc \in Nat /\ nextOp \in 0 .. MaxOp

Sent(kind, o, i) == q[i].kind = kind /\ q[i].ti.obj = o

\* function_call dereferences obj_info[obj_id].ptr without a check.  Every call
\* that is queued finds its object: the object is alive, or will be constructed
\* before, and no deletion of it comes first.
CallTargetAlive ==
    \A i \in DOMAIN q : q[i].kind = "call" =>
        LET o == q[i].ti.obj IN
        /\ o \in Live \/ \E j \in 1 .. i - 1 : Sent("construct", o, j)
        /\ \A j \in 1 .. i - 1 : ~Sent("delete", o, j)

\* Delete erases the procedures of the object it erases, and no procedure
\* starts on an object that is gone: proc_to_dat lists exactly the procedures
\* of the live objects, each under its own object.  on_yield's result goes to
\* the back_notify found there.
ProcsOwned ==
    /\ \A p \in DOMAIN procs : /\ procs[p].obj \in Live
                               /\ p \in objs[procs[p].obj].procs
    /\ \A o \in Live : \A p \in objs[o].procs :
          p \in DOMAIN procs /\ procs[p].obj = o

\* When the completion of a child's
\* procedure is dequeued and the caller is alive, data_received knows the
\* calling procedure, it is one of that caller's, and map_event_data finds the
\* child's procedure among those the caller started (an unknown one would be
\* taken for the caller's procedure 0).
CallerKnown ==
    q # <<>> /\ Head(q).kind = "done" /\ Head(q).ti.obj \in Live =>
        LET m == Head(q) IN
        /\ m.ti.proc \in DOMAIN procs
        /\ procs[m.ti.proc].obj = m.ti.obj
        /\ m.task \in Elems(objs[m.ti.obj].called)

\* "weak ptr should not be used prior to remote initialization, can be
\* guaranteed when a function returns" (event.t.cpp:130): when an answer
\* arrives from a child the caller still holds, direct_access finds it alive.
HeldChildAlive ==
    q # <<>> /\ Head(q).kind = "done" /\ Head(q).ti.obj \in Live =>
        LET m == Head(q) IN
        m.ci.obj \in objs[m.ti.obj].children => m.ci.obj \in Live

\* An answer (data_received, map_event_data) reaches whoever made the call, under
\* the caller's own number of it, and the child that it comes from can be used.
AnswerHeard == CallerKnown /\ HeldChildAlive

\* Deletions reach the whole subtree: an object that no live object holds,
\* other than a root, is deleted in the end, also when it was still waiting to
\* be constructed when its parent was deleted.
Orphan(o) ==
    /\ o \in Live /\ o >= Roots
    /\ \A p \in Live : o \notin objs[p].children
OrphansDeleted == \A o \in 0 .. MaxObj - 1 : Orphan(o) ~> o \notin Live
=============================================================================
