------------------------- MODULE LocalSoftware -------------------------
(***************************************************************************)
(* The process: main's thread, which samples the interface for ever        *)
(* (Sampler), beside the thread of server_func and the threads it starts   *)
(* (Startup).  main detaches the server: it goes on when server_func has   *)
(* returned, but not when an exception has ended the process.              *)
(***************************************************************************)
EXTENDS Startup, Sampler

processVars == <<startupVars, samplerVars>>

ProcessInit == StartupInit /\ SamplerInit

ServerStep == StartupNext /\ UNCHANGED samplerVars
MainStep ==
    /\ server # "terminated"
    /\ SamplerNext
    /\ UNCHANGED startupVars

ProcessNext == ServerStep \/ MainStep
ProcessSpec == ProcessInit /\ [][ProcessNext]_processVars

\* Types of all variables of the process.
ProcessTypeOK == StartupTypeOK /\ SamplerTypeOK
=========================================================================
