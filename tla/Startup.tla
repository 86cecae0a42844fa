------------------------------ MODULE Startup ------------------------------
(***************************************************************************)
(* server_func of localsoftware.cpp, which runs in a thread of its own:    *)
(* six listening sockets, the AsyncHandler with one ThreadData for each    *)
(* thread, the root events and their ids, and start(), which makes another *)
(* ThreadData for each thread and runs the first ones.                     *)
(*                                                                         *)
(* private_per_thread_data is a vector of ThreadData: an append to a full  *)
(* vector moves all its elements.  Ids are drawn as in IdBlocks, by the    *)
(* handler (allocator 0) and by the running threads (1 .. Threads).        *)
(***************************************************************************)
EXTENDS IdBlocks

CONSTANTS
    Threads,    \* AsyncHandler::self's argument (1 in the code)
    Sockets,    \* listening sockets (6 in the code)
    RootEvents  \* root events (3 in the code)

ASSUME StartupAssumption ==
    /\ Threads \in Nat \ {0} /\ Sockets \in Nat /\ RootEvents \in Nat
    /\ Allocators = 0 .. Threads

VARIABLES
    server,   \* where server_func is
    open,     \* listening sockets that are open
    size,     \* private_per_thread_data: its elements
    capacity, \* and the room it has
    home,     \* history: how often its elements have been moved
    queued,   \* root events in the queue of the first thread
    runs      \* the running threads: where each one's ThreadData was (home) when it began

serverVars == <<server, open, size, capacity, home, queued, runs>>
startupVars == <<vars, serverVars>>

Running == DOMAIN runs
-----------------------------------------------------------------------------
\* server_func returns, and its Files close their sockets.
ReturnClosing == open' = 0 /\ server' = "returned"

\* A socket is set up; the first that cannot be ends server_func.
OpenSocket ==
    /\ server = "sockets"
    /\ \/ /\ open < Sockets
          /\ \/ open' = open + 1 /\ UNCHANGED server
             \/ ReturnClosing
       \/ open = Sockets /\ server' = "handler" /\ UNCHANGED open
    /\ UNCHANGED <<vars, size, capacity, home, queued, runs>>

\* An append to private_per_thread_data.
AppendData ==
    /\ size' = size + 1
    /\ IF size < capacity THEN UNCHANGED <<capacity, home>>
       ELSE /\ capacity' = IF capacity = 0 THEN 1 ELSE 2 * capacity
            /\ home' = home + 1

\* An exception that nothing catches: no ring, no certificate, no directory
\* for a root event.  It ends the process.
Throw ==
    /\ server' = "terminated"
    /\ UNCHANGED <<vars, open, size, capacity, home, queued, runs>>

\* AsyncHandler's constructor.
\* Broken form: leaves the ThreadData objects to start().
ConstructHandlerEmpty ==
    /\ server = "handler"
    /\ \/ server' = "roots" /\ UNCHANGED <<vars, open, size, capacity, home, queued, runs>>
       \/ Throw
ConstructHandler ==
    /\ server = "handler"
    /\ \/ /\ size < Threads
          /\ AppendData
          /\ UNCHANGED <<vars, server, open, queued, runs>>
       \/ /\ size = Threads
          /\ server' = "roots"
          /\ UNCHANGED <<vars, open, size, capacity, home, queued, runs>>
       \/ Throw

\* initialize_root_event draws an id for the root (get_proc_id or get_obj_id
\* of the handler) and queues its construction.
HandlerFetchBlock ==
    /\ server = "roots" /\ queued < RootEvents
    /\ FetchBlock(0)
    /\ UNCHANGED serverVars
InitializeRootEvent ==
    /\ server = "roots" /\ queued < RootEvents
    /\ ReturnId(0)
    /\ queued' = queued + 1
    /\ UNCHANGED <<server, open, size, capacity, home, runs>>

\* start(): for each thread a ThreadData is appended, and another one is run.
StartAppend ==
    /\ \/ server = "roots" /\ queued = RootEvents
       \/ server = "started" /\ Running # 1 .. Threads
    /\ \/ AppendData /\ server' = "appended" /\ UNCHANGED <<vars, open, queued, runs>>
       \/ Throw
StartRun ==
    /\ server = "appended"
    /\ \E t \in 1 .. Threads :
          /\ Running = 1 .. t - 1
          /\ runs' = [u \in 1 .. t |-> IF u = t THEN home ELSE runs[u]]
    /\ server' = "started"
    /\ UNCHANGED <<vars, open, size, capacity, home, queued>>

\* A running thread draws ids; the first one constructs the root events, any of
\* which may throw.
ThreadFetchBlock(t) ==
    /\ server # "terminated" /\ t \in Running
    /\ FetchBlock(t)
    /\ UNCHANGED serverVars
ThreadReturnId(t) ==
    /\ server # "terminated" /\ t \in Running
    /\ ReturnId(t)
    /\ UNCHANGED serverVars
ConstructRoot ==
    /\ server # "terminated" /\ 1 \in Running /\ queued > 0
    /\ \/ /\ queued' = queued - 1
          /\ UNCHANGED <<vars, server, open, size, capacity, home, runs>>
       \/ Throw

StartupInit ==
    /\ Init
    /\ server = "sockets" /\ open = 0
    /\ size = 0 /\ capacity = 0 /\ home = 0
    /\ queued = 0 /\ runs = <<>>
StartupNext ==
    \/ OpenSocket \/ ConstructHandler \/ HandlerFetchBlock \/ InitializeRootEvent
    \/ StartAppend \/ StartRun \/ ConstructRoot
    \/ \E t \in 1 .. Threads : ThreadFetchBlock(t) \/ ThreadReturnId(t)
StartupSpec == StartupInit /\ [][StartupNext]_startupVars
-----------------------------------------------------------------------------
\* Types of the variables, those of IdBlocks included.
StartupTypeOK ==
    /\ TypeOK
    /\ server \in {"sockets", "handler", "roots", "appended", "started",
                   "returned", "terminated"}
    /\ open \in 0 .. Sockets
    /\ {size, capacity, home} \subseteq Nat /\ size <= capacity
    /\ queued \in 0 .. RootEvents
    /\ Running \in {1 .. t : t \in 0 .. Threads}
    /\ \A t \in Running : runs[t] \in Nat

\* No append of start() moves the ThreadData of a thread that runs: each
\* thread's pointer is to where its object still is.  With it stands that ids
\* are drawn once, as a moved object takes its block along.
InPlace == \A t \in Running : runs[t] = home
=============================================================================
