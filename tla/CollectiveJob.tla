--------------------------- MODULE CollectiveJob ---------------------------
(***************************************************************************)
(* How the ranks of a job of several GPUs find each other                  *)
(* (vx_collective.h): rank 0 makes an NCCL id and leaves it in a file, the *)
(* other ranks wait for the file, and all join with the id they have.  The *)
(* processes of a job are started together, and the person who starts them *)
(* may have removed the file of the job before, or forgotten to.           *)
(*                                                                         *)
(* NCCL is external: a communicator is complete once every rank joined     *)
(* with its id, and any of its calls may fail.  A job of one rank needs no *)
(* file, and is left out; so are the collectives, which hand the           *)
(* communicator to NCCL and keep no state.                                 *)
(***************************************************************************)
EXTENDS Integers

CONSTANTS Ranks,     \* 0 .. ranks - 1
          MaxIds     \* how many ids NCCL gives out

ASSUME JobAssumption == 0 \in Ranks /\ MaxIds \in Nat

NoFile == 0        \* ids are 1, 2, ...
HalfWritten == -1  \* what a file holds while it is being written

VARIABLES file, partial,  \* what the two paths hold
          made,           \* the ids made so far
          stage, id,      \* where each rank is, and the id it has
          comm            \* comm[i]: the ranks that joined with the id i

jobVars == <<file, partial, made, stage, id, comm>>

JobInit == /\ file = NoFile /\ partial = NoFile
           /\ made = 0
           /\ stage = [r \in Ranks |-> "stopped"]
           /\ id = [r \in Ranks |-> 0]
           /\ comm = [i \in 1 .. MaxIds |-> {}]

JobGoto(r, place) == stage' = [stage EXCEPT ![r] = place]

(* A new job, when no process of the last one is left.                     *)
launch == /\ \A r \in Ranks : stage[r] = "stopped"
          /\ stage' = [r \in Ranks |-> "idle"]
          /\ id' = [r \in Ranks |-> 0]
          /\ file' \in {NoFile, file}
          /\ UNCHANGED <<partial, made, comm>>

(* init, up to the test for a file that is already there: rank 0 stops the *)
(* program, the others take the file as theirs.                            *)
IsThere_mutant == FALSE
IsThere == file # NoFile

get_unique_id == /\ stage[0] = "idle" /\ made < MaxIds
                 /\ made' = made + 1
                 /\ id' = [id EXCEPT ![0] = made + 1]
                 /\ JobGoto(0, IF IsThere THEN "stopped" ELSE "open")
                 /\ UNCHANGED <<file, partial, comm>>

(* Rank 0 writes another file, and renames it when it is whole.            *)
open_partial == /\ stage[0] = "open"
                /\ partial' = HalfWritten
                /\ JobGoto(0, "write")
                /\ UNCHANGED <<file, made, id, comm>>

write_partial == /\ stage[0] = "write"
                 /\ partial' = id[0]
                 /\ JobGoto(0, "rename")
                 /\ UNCHANGED <<file, made, id, comm>>

AfterWriting == stage[0] = "rename"

rename == /\ AfterWriting
          /\ file' = partial
          /\ partial' = NoFile
          /\ JobGoto(0, "join")
          /\ UNCHANGED <<made, id, comm>>

(* The others wait for the file, at most for the timeout, and read it.     *)
read_unique_id(r) == /\ r # 0 /\ stage[r] = "idle" /\ file # NoFile
                     /\ id' = [id EXCEPT ![r] = file]
                     /\ JobGoto(r, "join")
                     /\ UNCHANGED <<file, partial, made, comm>>

timed_out(r) == /\ r # 0 /\ stage[r] = "idle" /\ file = NoFile
                /\ JobGoto(r, "stopped")
                /\ UNCHANGED <<file, partial, made, id, comm>>

(* CommInitRank returns when all ranks are there.  A rank joins with an id *)
(* once.                                                                   *)
CommInitRank(r) == /\ stage[r] = "join" /\ id[r] > 0 /\ r \notin comm[id[r]]
                   /\ comm' = [comm EXCEPT ![id[r]] = @ \cup {r}]
                   /\ JobGoto(r, "joining")
                   /\ UNCHANGED <<file, partial, made, id>>

joined(r) == /\ stage[r] = "joining" /\ comm[id[r]] = Ranks
             /\ JobGoto(r, "in")
             /\ UNCHANGED <<file, partial, made, id, comm>>

(* finish leaves the job, and the program goes on.                         *)
finish(r) == /\ stage[r] = "in"
             /\ JobGoto(r, "idle")
             /\ id' = [id EXCEPT ![r] = 0]
             /\ UNCHANGED <<file, partial, made, comm>>

(* A system call or NCCL fails, the program ends, or it is killed.         *)
stop(r) == /\ stage[r] # "stopped"
           /\ JobGoto(r, "stopped")
           /\ UNCHANGED <<file, partial, made, id, comm>>

JobNext == \/ launch \/ get_unique_id \/ open_partial \/ write_partial \/ rename
           \/ \E r \in Ranks : \/ read_unique_id(r) \/ timed_out(r) \/ CommInitRank(r)
                               \/ joined(r) \/ finish(r) \/ stop(r)

JobSpec == JobInit /\ [][JobNext]_jobVars
-----------------------------------------------------------------------------
(* The file holds an id or nothing, and so does each rank.                 *)
JobTypeOK == /\ file \in 0 .. MaxIds /\ partial \in HalfWritten .. MaxIds
             /\ made \in 0 .. MaxIds
             /\ stage \in [Ranks -> {"stopped", "idle", "open", "write", "rename",
                                     "join", "joining", "in"}]
             /\ id \in [Ranks -> 0 .. MaxIds]
             /\ \A i \in 1 .. MaxIds : comm[i] \subseteq Ranks

(* "All ranks must join with the id that rank 0 makes": while rank 0 waits *)
(* in a communicator, no other rank of its job waits in an earlier one,    *)
(* although a rank may have read the file before rank 0 looked for it; and *)
(* "a rank that waits never reads half an id".                             *)
Joining == {"join", "joining", "in"}
AllHaveTheIdOfRank0 ==
  /\ JobTypeOK
  /\ \A r \in Ranks : stage[r] \in Joining =>
       /\ id[r] \in 1 .. made
       /\ stage[0] \in Joining => id[r] = id[0]
=============================================================================
