---------------------------- MODULE RemoteRegion ----------------------------
(***************************************************************************)
(* The table a worker keeps of the buffers hosts placed on it              *)
(* (vx_remote_region.h).  A host names a buffer by a synthetic address on  *)
(* which it does plain arithmetic, so each address it computes must find   *)
(* the buffer it was computed from, or nothing.  The space of addresses is *)
(* never used again; the slots of the table are, once it was emptied for   *)
(* the next host.  The element type and the generation, which the lookup   *)
(* does not read, are left out.                                            *)
(***************************************************************************)
EXTENDS Integers, Sequences

CONSTANTS WorkerMax,  \* VX_REMOTE_WORKER_MAX
          Workers,    \* the worker ids that allocate in the table
          Sizes,      \* the sizes asked for
          Buffers,    \* the worker's own pointers
          OffsetMask, \* VX_REMOTE_OFFSET_MASK, the last offset of a worker
          MinGap,     \* VX_REMOTE_MIN_GAP
          Capacity    \* the slots of the table

ASSUME RegionAssumption == /\ WorkerMax \in Nat
                           /\ Workers \subseteq 1 .. WorkerMax
                           /\ Sizes \subseteq Nat
                           /\ OffsetMask \in Nat
                           /\ MinGap \in Nat /\ 0 < MinGap /\ MinGap <= OffsetMask
                           /\ Capacity \in Nat

VARIABLES regions, next_offset,
          minted      \* every region there ever was, in order, as [worker, base, size]

table == <<regions, next_offset, minted>>

(* The worker's number stands above one zero bit and the offset.           *)
Span == 2 * (OffsetMask + 1)
vx_remote_addr(worker, offset) == worker * Span + offset
vx_remote_addr_worker(addr) == addr \div Span
vx_remote_addr_is_handle(addr) == /\ addr \div Span \in 1 .. WorkerMax
                                  /\ addr % Span <= OffsetMask

TableInit == /\ regions = <<>>
             /\ next_offset = [w \in Workers |-> MinGap]
             /\ minted = <<>>

Gap(size) == IF size > MinGap THEN size ELSE MinGap

(* No room in the table or in the worker's space, the gap included.        *)
HasRoom(w, size) == /\ size # 0
                    /\ Len(regions) < Capacity
                    /\ size <= OffsetMask
                    /\ next_offset[w] <= OffsetMask - size
                    /\ next_offset[w] + size <= OffsetMask - Gap(size)

NextOffset_mutant(w, size) == next_offset[w] + size
NextOffset(w, size) == next_offset[w] + size + Gap(size)

vx_remote_table_alloc(w, size, remote) ==
  LET base == vx_remote_addr(w, next_offset[w])
  IN  /\ HasRoom(w, size)
      /\ regions' = Append(regions, [worker |-> w, base |-> base, size |-> size,
                                     remote |-> remote, live |-> TRUE,
                                     mint |-> Len(minted) + 1])
      /\ next_offset' = [next_offset EXCEPT ![w] = NextOffset(w, size)]
      /\ minted' = Append(minted, [worker |-> w, base |-> base, size |-> size])

vx_remote_table_free(i) ==
  /\ regions[i].live
  /\ regions' = [regions EXCEPT ![i].live = FALSE]
  /\ UNCHANGED <<next_offset, minted>>

OffsetsAfterFreeAll_mutant == [w \in Workers |-> MinGap]
OffsetsAfterFreeAll == next_offset

vx_remote_table_free_all ==
  /\ regions' = <<>>
  /\ next_offset' = OffsetsAfterFreeAll
  /\ UNCHANGED minted

(* The binary search for the greatest base not above addr: 0 when none.    *)
(* A round of its loop, which changes nothing once the loop is over.       *)
Bounds == [lo : Nat, hi : Nat, best : Nat]

Round(addr) ==
  [b \in Bounds |->
     LET mid == b.lo + (b.hi - b.lo) \div 2
     IN  CASE b.lo >= b.hi -> b
           [] b.lo < b.hi /\ regions[mid + 1].base <= addr
                -> [lo |-> mid + 1, hi |-> b.hi, best |-> mid + 1]
           [] OTHER -> [lo |-> b.lo, hi |-> mid, best |-> b.best]]

(* Each round makes lo .. hi shorter: it is over after Len(regions).       *)
Rounds(addr) ==
  LET after[k \in Nat] == IF k = 0 THEN [lo |-> 0, hi |-> Len(regions), best |-> 0]
                          ELSE Round(addr)[after[k - 1]]
  IN  after

Search(addr) == Rounds(addr)[Len(regions)].best

(* What the lookup then asks of the region it found.                       *)
Accepts_mutant(i, addr) == /\ regions[i].live
                           /\ regions[i].base <= addr
                           /\ vx_remote_addr_worker(addr) = regions[i].worker
Accepts(i, addr) == /\ regions[i].live
                    /\ regions[i].base <= addr
                    /\ addr - regions[i].base < regions[i].size
                    /\ vx_remote_addr_worker(addr) = regions[i].worker

(* The index of the region an address lies in, 0 for a refusal.            *)
vx_remote_resolve(addr) ==
  LET best == Search(addr)
  IN  IF vx_remote_addr_is_handle(addr) /\ best # 0 /\ Accepts(best, addr)
      THEN best ELSE 0

TableNext == \/ \E w \in Workers, size \in Sizes, remote \in Buffers :
                  vx_remote_table_alloc(w, size, remote)
             \/ \E i \in DOMAIN regions : vx_remote_table_free(i)
             \/ vx_remote_table_free_all

TableSpec == TableInit /\ [][TableNext]_table
-----------------------------------------------------------------------------
Region == [worker : Workers, base : Nat, size : Sizes \ {0},
           remote : Buffers, live : BOOLEAN, mint : Nat \ {0}]

(* The records have the types of the code, and the next offset stays an    *)
(* offset: the sums at the end of a worker's space refuse, and never wrap  *)
(* into the next worker's addresses.                                       *)
TableTypeOK == /\ regions \in Seq(Region)
               /\ Len(regions) <= Capacity
               /\ next_offset \in [Workers -> 0 .. OffsetMask]
               /\ minted \in Seq([worker : Workers, base : Nat, size : Sizes \ {0}])

(* Two regions of one worker, of whatever hosts, never overlap and keep a  *)
(* gap as wide as the lower one between them: an index one too large ends  *)
(* in the gap, not in a neighbour.                                         *)
GapsHold ==
  \A a, b \in DOMAIN minted :
    (a # b /\ minted[a].base <= minted[b].base)
      => minted[a].base + minted[a].size + Gap(minted[a].size) <= minted[b].base

(* An address inside a region that was freed, or left by an earlier host,  *)
(* is accepted by no region of the table, whatever the search ends at.     *)
StaleHandlesStayDead ==
  \A m \in DOMAIN minted :
    \/ \E i \in DOMAIN regions : regions[i].mint = m /\ regions[i].live
    \/ \A i \in DOMAIN regions, o \in 0 .. minted[m].size - 1 :
         ~Accepts(i, minted[m].base + o)

Addresses == 0 .. (WorkerMax + 1) * Span

(* The lookup finds the live region an address lies in, and refuses any    *)
(* address that lies in none: the search relies on "Bases are ascending".  *)
ResolveIsExact ==
  \A addr \in Addresses :
    LET i == vx_remote_resolve(addr)
        Holds(j) == /\ regions[j].live
                    /\ addr \in regions[j].base .. regions[j].base + regions[j].size - 1
    IN  IF i # 0 THEN Holds(i) ELSE \A j \in DOMAIN regions : ~Holds(j)
=============================================================================
