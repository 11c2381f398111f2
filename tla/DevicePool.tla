----------------------------- MODULE DevicePool -----------------------------
(***************************************************************************)
(* The cache of device buffers of the CUDA backend (vx_device_pool.h) and  *)
(* the dispatches that stage their operands through it (DeviceBuffer and   *)
(* stage in cuda_dispatch.cpp).  The pool's lock covers only its own       *)
(* records: the driver's calls, alloc_ and free_, run with it released, so *)
(* between two of them any other thread may take, give back or drain.      *)
(*                                                                         *)
(* The driver is external: it hands out an unused address when there is    *)
(* room, and may hand out an address again once it was freed.  The hit and *)
(* miss counters, which only stats() reads, are left out.                  *)
(***************************************************************************)
EXTENDS Integers, FiniteSets, Sequences

CONSTANTS Threads,   \* the threads that dispatch
          Addrs,     \* the addresses the driver may hand out
          Sizes,     \* the sizes operands have
          Memory,    \* the bytes of the device
          Capacity   \* capacity_, from VX_CUDA_POOL_MAX_MB

ASSUME PoolAssumption == /\ Sizes \subseteq Nat \ {0}
                         /\ Memory \in Nat
                         /\ Capacity \in Nat

VARIABLES free_lists_, pooled_bytes_, live_,
          driver,    \* driver[p]: the bytes allocated at p, 0 when none
          pc, bytes, \* where each thread is, and the size it asked for
          taken,     \* by size, the buffers a thread took from the driver or is to free_
          held       \* the DeviceBuffers of a thread: [ptr, bytes]

vars == <<free_lists_, pooled_bytes_, live_, driver, pc, bytes, taken, held>>
records == <<free_lists_, pooled_bytes_, live_>>

Buffer(p, s) == [ptr |-> p, bytes |-> s]
Nothing == [s \in Sizes |-> <<>>]

(* The bytes of the device that are allocated.                             *)
Used == Cardinality(UNION {{p} \X (1..driver[p]) : p \in Addrs})

Init == /\ free_lists_ = Nothing
        /\ pooled_bytes_ = 0
        /\ live_ = 0
        /\ driver = [p \in Addrs |-> 0]
        /\ pc = [t \in Threads |-> "idle"]
        /\ bytes = [t \in Threads |-> 0]
        /\ taken = [t \in Threads |-> Nothing]
        /\ held = [t \in Threads |-> {}]

Goto(t, place) == pc' = [pc EXCEPT ![t] = place]

(* A stage asks for s bytes: the newest kept buffer of exactly that size,  *)
(* or a call of the driver.                                                *)
Fits(s) == {l \in Sizes : l = s /\ free_lists_[l] # <<>>}

Hit(t, s) == \E l \in Fits(s) :
               LET list == free_lists_[l]
                   last == Len(list)
               IN  /\ held' = [held EXCEPT ![t] = @ \cup {Buffer(list[last], s)}]
                   /\ free_lists_' = [free_lists_ EXCEPT ![l] = SubSeq(list, 1, last - 1)]
                   /\ pooled_bytes_' = pooled_bytes_ - s
                   /\ live_' = live_ + 1
                   /\ UNCHANGED <<driver, pc, bytes, taken>>

Miss(t, s) == /\ Fits(s) = {}
              /\ bytes' = [bytes EXCEPT ![t] = s]
              /\ Goto(t, "alloc")
              /\ UNCHANGED <<records, driver, taken, held>>

acquire(t) == /\ pc[t] = "idle"
              /\ \E s \in Sizes : Hit(t, s) \/ Miss(t, s)

(* alloc_, the first time and again after the drain.                       *)
alloc(t) == /\ pc[t] \in {"alloc", "retry"}
            /\ Used + bytes[t] <= Memory
            /\ \E p \in Addrs :
                 /\ driver[p] = 0
                 /\ driver' = [driver EXCEPT ![p] = bytes[t]]
                 /\ taken' = [taken EXCEPT ![t][bytes[t]] = <<p>>]
            /\ Goto(t, "count")
            /\ UNCHANGED <<records, bytes, held>>

AfterFailure(place) == IF place = "alloc" THEN "drain" ELSE "null"

no_room(t) == /\ pc[t] \in {"alloc", "retry"}
              /\ Used + bytes[t] > Memory
              /\ Goto(t, AfterFailure(pc[t]))
              /\ UNCHANGED <<records, driver, bytes, taken, held>>

(* The new buffer is counted under the lock, and the caller has it.        *)
CallerHas(t) == LET p == Head(taken[t][bytes[t]])
                IN  /\ held' = [held EXCEPT ![t] = @ \cup {Buffer(p, bytes[t])}]
                    /\ taken' = [taken EXCEPT ![t] = Nothing]

count_mutant(t) == /\ pc[t] = "count"
                   /\ CallerHas(t)
                   /\ Goto(t, "idle")
                   /\ UNCHANGED <<records, driver, bytes>>

count(t) == /\ pc[t] = "count"
            /\ live_' = live_ + 1
            /\ CallerHas(t)
            /\ Goto(t, "idle")
            /\ UNCHANGED <<free_lists_, pooled_bytes_, driver, bytes>>

(* The end of a DeviceBuffer: kept while the cache has room, otherwise to  *)
(* be freed once the lock is released.                                     *)
Keeps(b) == pooled_bytes_ + b.bytes <= Capacity

release(t) ==
  /\ pc[t] = "idle"
  /\ \E b \in held[t] :
       /\ held' = [held EXCEPT ![t] = @ \ {b}]
       /\ live_' = IF live_ > 0 THEN live_ - 1 ELSE live_
       /\ \/ /\ Keeps(b)
             /\ free_lists_' = [free_lists_ EXCEPT ![b.bytes] = Append(@, b.ptr)]
             /\ pooled_bytes_' = pooled_bytes_ + b.bytes
             /\ UNCHANGED <<pc, taken>>
          \/ /\ ~Keeps(b)
             /\ taken' = [taken EXCEPT ![t][b.bytes] = <<b.ptr>>]
             /\ Goto(t, "give back")
             /\ UNCHANGED <<free_lists_, pooled_bytes_>>
  /\ UNCHANGED <<driver, bytes>>

(* The cached buffers leave the pool under the lock ...                    *)
Drain_mutant(t) == /\ taken' = [taken EXCEPT ![t] = free_lists_]
                   /\ pooled_bytes_' = 0
                   /\ UNCHANGED <<free_lists_, live_, driver, bytes, held>>

Drain(t) == /\ taken' = [taken EXCEPT ![t] = free_lists_]
            /\ free_lists_' = Nothing
            /\ pooled_bytes_' = 0
            /\ UNCHANGED <<live_, driver, bytes, held>>

drain(t) == /\ pc[t] = "drain"
            /\ Drain(t)
            /\ Goto(t, "drained")

(* ... and go to the driver one by one without it, the smaller sizes first. *)
NextSize(t, s) == /\ taken[t][s] # <<>>
                  /\ \A l \in Sizes : l < s => taken[t][l] = <<>>

free(t) == /\ pc[t] \in {"drained", "give back", "exit"}
           /\ \E s \in Sizes :
                /\ NextSize(t, s)
                /\ driver' = [driver EXCEPT ![Head(taken[t][s])] = 0]
                /\ taken' = [taken EXCEPT ![t][s] = Tail(@)]
           /\ UNCHANGED <<records, pc, bytes, held>>

freed(t) == /\ pc[t] \in {"drained", "give back"}
            /\ taken[t] = Nothing
            /\ Goto(t, IF pc[t] = "drained" THEN "retry" ELSE "idle")
            /\ UNCHANGED <<records, driver, bytes, taken, held>>

(* The destructor, once every dispatch has ended.                          *)
exit(t) == /\ \A u \in Threads : pc[u] = "idle" /\ held[u] = {}
           /\ Drain(t)
           /\ pc' = [u \in Threads |-> IF u = t THEN "exit" ELSE "ended"]

Exited == \E t \in Threads : pc[t] = "exit" /\ taken[t] = Nothing

(* A stage that got no buffer aborts the process.                          *)
Finished == /\ Exited \/ \E t \in Threads : pc[t] = "null"
            /\ UNCHANGED vars

Next == \/ \E t \in Threads : \/ acquire(t) \/ alloc(t) \/ no_room(t) \/ count(t)
                              \/ release(t) \/ drain(t) \/ free(t) \/ freed(t)
                              \/ exit(t)
        \/ Finished

Spec == Init /\ [][Next]_vars
-----------------------------------------------------------------------------
(* The pool's records have the types of the code, and a thread's buffers   *)
(* carry the size that they were asked for.                                *)
TypeOK ==
  /\ free_lists_ \in [Sizes -> Seq(Addrs)]
  /\ pooled_bytes_ \in Nat
  /\ live_ \in Nat
  /\ driver \in [Addrs -> Sizes \cup {0}]
  /\ pc \in [Threads -> {"idle", "alloc", "retry", "count", "drain", "drained",
                         "give back", "exit", "ended", "null"}]
  /\ bytes \in [Threads -> Sizes \cup {0}]
  /\ taken \in [Threads -> [Sizes -> Seq(Addrs)]]
  /\ held \in [Threads -> SUBSET [ptr : Addrs, bytes : Sizes]]

(* The places the address p is at: the entries of a free list, the entries *)
(* of what a thread is to free, and the DeviceBuffers of a thread.         *)
Entries(lists, p) == UNION {{<<s, i>> : i \in {j \in DOMAIN lists[s] : lists[s][j] = p}} : s \in Sizes}

PlacesOf(p) ==
  UNION {{<<"cached", e>> : e \in Entries(free_lists_, p)},
         UNION {{<<"leaving", e, t>> : e \in Entries(taken[t], p)} : t \in Threads},
         UNION {{<<"held", b, t>> : b \in {c \in held[t] : c.ptr = p}} : t \in Threads}}

(* A buffer the driver gave out is in exactly one place, one it did not    *)
(* give out is in none, whatever the interleaving of dispatches, drains    *)
(* and frees: no buffer reaches two dispatches, none is freed twice, none  *)
(* is lost, and the destructor leaves nothing on the device.               *)
OnePlace == \A p \in Addrs : Cardinality(PlacesOf(p)) = (IF driver[p] = 0 THEN 0 ELSE 1)

(* The bytes in the free lists, and the buffers handed out.                *)
CachedBytes == UNION {{s} \X ((1..Len(free_lists_[s])) \X (1..s)) : s \in Sizes}
HandedOut == UNION {{t} \X held[t] : t \in Threads}

(* The pool's records are true between any two critical sections: a buffer *)
(* waits in the list of the size it really has, so the exact-size reuse    *)
(* never hands out a smaller one; pooled_bytes_ is what the lists hold and *)
(* stays within the capacity; live_, which is moved in another critical    *)
(* section than the one that missed, counts the buffers handed out.        *)
RecordsAreTrue ==
  /\ TypeOK
  /\ \A s \in Sizes : \A i \in DOMAIN free_lists_[s] : driver[free_lists_[s][i]] = s
  /\ \A t \in Threads : \A b \in held[t] : driver[b.ptr] = b.bytes
  /\ pooled_bytes_ = Cardinality(CachedBytes)
  /\ pooled_bytes_ <= Capacity
  /\ live_ = Cardinality(HandedOut)
=============================================================================
